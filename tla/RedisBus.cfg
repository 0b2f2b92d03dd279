CONSTANTS
    Id = {a, b}
    MaxListeners = 3
    MaxMsg = 2
SPECIFICATION FairSpec
INVARIANTS ToldOnce
PROPERTIES Served
CHECK_DEADLOCK FALSE
