SPECIFICATION FairSpec
CONSTANTS
    Stream = {out, err}
    MaxLines = 2
    KeyLine = 1
INVARIANTS
    TypeOK
    FailsOnlyByRace
    LinesInOrder
    NoneLeft

    
CHECK_DEADLOCK FALSE
