SPECIFICATION FairSpec
CONSTANTS
    GridLen = 2
    Delays = {1, 3}
    Epoch = 5
    Key = {k1}
    Script = Script
    MaxPlans = 3
    MaxTime = 9
    MaxBack = 1
INVARIANTS
    TypeOK
    NoneLost
    ItemsWillExpire
PROPERTIES
    ImplementsTimers
    
    PlansRun
CHECK_DEADLOCK FALSE
