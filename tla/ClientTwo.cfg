SPECIFICATION Spec
CONSTANTS
    HdrLen = 1
    PktLen = 2
    MaxRecvSize = 3
    MaxSession = 2
    MaxLoop = 2
    MaxChunk = 4
    MaxPackets = 2
    Kinds <- FewKinds
INVARIANTS
    TypeOK
    TableIsLive
PROPERTY
    SessionsAreStreams
CHECK_DEADLOCK FALSE
