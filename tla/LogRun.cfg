SPECIFICATION LogSpec
CONSTANTS
    MaxToken = 3
    Workers = 2
    MaxQueries = 3
    MayRaise = TRUE
    NotGiven = NotGiven
    Databases = {"dgacc", "dglog"}
    CommitAt = 2
    MaxLogs = 3
INVARIANTS
    LogTypeOK
    LogsConserved
    
    LogsBeforeClose
PROPERTY
    ImplementsDbLib
CHECK_DEADLOCK FALSE
