SPECIFICATION Spec
CONSTANTS
    Session = {1}
    Sno = {1, 2}
    MaxRecv = 2
    MaxCells = 2
    MaxGen = 2
INVARIANTS
    TypeOK
    SourceOrder
    InOrder
    
PROPERTY
    NumbersAreStreams
CHECK_DEADLOCK FALSE
