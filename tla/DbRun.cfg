SPECIFICATION FairSpec
CONSTANTS
    MaxToken = 2
    Workers = 2
    MaxQueries = 4
    MayRaise = TRUE
INVARIANTS
    TypeOK
    OwnResult
    ClosedAfterLastResult
PROPERTIES
    ImplementsService
    
CHECK_DEADLOCK FALSE
