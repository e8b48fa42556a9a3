SPECIFICATION FairSpec
CONSTANTS
    MaxToken = 4
    Workers = 2
    MaxQueries = 3
    MayRaise = TRUE
PROPERTY
    CloseCompletes
CHECK_DEADLOCK FALSE
