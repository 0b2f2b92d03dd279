CONSTANTS
    MaxIn = 2
    MaxCalls = 2
    MaxSize = 2
    SockBuf = 1
SPECIFICATION FairSpec
PROPERTIES SslReadSettles
CHECK_DEADLOCK FALSE
