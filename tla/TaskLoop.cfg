CONSTANTS
    Task = {t1, t2}
    MaxRuns = 2
    MaxExits = 2
    HasSignals = TRUE
SPECIFICATION FairSpec
INVARIANTS OneCustodian LoopNeverSpins
PROPERTIES ExitEnds TaskSettles
CHECK_DEADLOCK FALSE
