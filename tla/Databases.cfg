CONSTANTS
    Conn = {k1}
    NoConn = NoConn
    Cmd = {c1, c2, c3}
    Reply <- Replies
    Call = {a, b, c}
    Workers = 2
    Stm = {s1, s2, s3}
    Con = {1, 2}
    Capacity = 1
    MaxExec = 2
SPECIFICATION DbFairSpec
INVARIANTS ReplyOwn TxAtomic IdleIsClean
PROPERTIES Settles
CHECK_DEADLOCK FALSE
