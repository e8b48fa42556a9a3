SPECIFICATION FairSpec
CONSTANTS
    HdrLen = 2
    PktLen = 3
    MaxRecvSize = 5
    MaxSession = 1
    MaxLoop = 1
    MaxChunk = 6
    MaxPackets = 2
    Kinds <- Kind
INVARIANTS
    StreamIntegrity
    
PROPERTIES
    ImplementsSession
    DisconnectCompletes
    PhpConnectionCloses
CHECK_DEADLOCK FALSE
