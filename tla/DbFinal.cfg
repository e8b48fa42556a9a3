SPECIFICATION FairSpec
CONSTANTS
    MaxToken = 4
    Workers = 2
    MaxQueries = 3
    MayRaise = FALSE
INVARIANT
    ReallyClosed
CHECK_DEADLOCK FALSE
