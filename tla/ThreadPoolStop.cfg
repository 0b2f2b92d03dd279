CONSTANTS
    Worker = {w1, w2}
    Task = {t1}
    NThreads = 2
    MaxStarts = 1
    Spurious = FALSE
SPECIFICATION FairSpec
PROPERTIES StopReturns
CHECK_DEADLOCK FALSE
