CONSTANTS
    MaxIn = 2
    MaxCalls = 3
    MaxSize = 2
    SockBuf = 1
SPECIFICATION FairSpec
INVARIANTS PendingIsArmed WriteWhole
PROPERTIES TcpSettles
CHECK_DEADLOCK FALSE
