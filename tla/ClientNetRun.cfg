SPECIFICATION Spec
CONSTANTS
    Listener = {l1}
    MaxGen = 2
    MaxDepth = 3
    MaxWhole = 2
INVARIANTS
    TypeOK
    NoneUnseen
    NeverStuck
    StaysDown
    JoinedByCut
