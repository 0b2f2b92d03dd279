CONSTANTS
    Req = {q1, q2, q3}
    Res = {1, 2}
    Url = {u1, u2}
    MinCapacity = 2
    MaxAge = 1
    Never = never
SPECIFICATION FairSpec
INVARIANTS HeldIsUsed OnePlace CapacityBound InvalidIsHeld
PROPERTIES WaiterServed
CHECK_DEADLOCK FALSE
