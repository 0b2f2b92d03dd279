CONSTANTS
    Conn = {c1, c2}
    MaxRequests = 3
    Includes = 2
    None = none
    Setups <- MCSetups
SPECIFICATION FairSpec
INVARIANTS SessionKept FlushFiltersRun IncludesInPlace
PROPERTIES RequestAnswered
CHECK_DEADLOCK FALSE
