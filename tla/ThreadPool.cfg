\* Two starts of two threads: with and without a stop between them.
CONSTANTS
    Worker = {w1, w2, w3, w4}
    Task = {t1, t2}
    NThreads = 2
    MaxStarts = 2
    Spurious = TRUE
SPECIFICATION FairSpec
INVARIANTS QuietWhenStopped WorkConserving
PROPERTIES QueuedIsStarted ExecutorSpec
CHECK_DEADLOCK FALSE
