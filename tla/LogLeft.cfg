SPECIFICATION LogSpec
CONSTANTS
    MaxToken = 4
    Workers = 2
    MaxQueries = 4
    MayRaise = FALSE
    NotGiven = NotGiven
    Databases = {"dgacc", "dglog"}
    CommitAt = 2
    MaxLogs = 3
INVARIANT
    AllLogsWritten
CHECK_DEADLOCK FALSE
