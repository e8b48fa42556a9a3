SPECIFICATION Spec
CONSTANTS
    HdrLen = 2
    PktLen = 3
    MaxRecvSize = 5
    MaxSession = 1
    MaxLoop = 2
    MaxChunk = 6
    MaxPackets = 2
    Kinds <- Kind
INVARIANT
    BadLengthDisconnects
CHECK_DEADLOCK FALSE
