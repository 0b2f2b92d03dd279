------------------------------ MODULE MysqlTx ------------------------------
(***************************************************************************)
(* MysqlPool::tx() and MysqlPool::execute() (libraries/repro-mysql/        *)
(* include/repromysql/mysql-async.h, src/mysql-async.cpp): statements that *)
(* tasks run on worker threads, over pooled connections, against a mysql   *)
(* server.                                                                 *)
(*                                                                         *)
(* The closure of a task holds the connection, and a worker has its copy   *)
(* of the closure until after the loop was told of the result.  So the     *)
(* last reference may go on a worker, where its deleter calls the pool.    *)
(* Calls of the pool that overlap are a data race, where the model stops.  *)
(* The pool is ResourcePool without time and urls.                         *)
(***************************************************************************)
EXTENDS Naturals, Sequences, FiniteSets

CONSTANTS
    Call,                   \* calls of tx() and of execute()
    Conn,                   \* the connections the pool has room for
    NoConn,
    Workers                 \* threads of the thread pool

VARIABLES
    kind,                   \* "tx" or "execute"
    call,                   \* how far each call is, see Calls
    copies,                 \* per call, the closures that workers have not let go of
    \* the pool
    idle,                   \* unused_
    invalid,                \* InvalidResources
    waiting,                \* waiting_
    \* the server
    up,                     \* connections that are alive
    open,                   \* those in a transaction
    pend,                   \* what the transaction of a connection has written
    db,                     \* what is committed
    \* history
    unsure,                 \* calls whose answer was lost
    stranded,               \* calls that waited when a connection went without serving them
    flaw                    \* why the model stopped

calls == <<kind, call, copies>>
pool == <<idle, invalid, waiting>>
server == <<up, open, pend, db>>
vars == <<calls, pool, server, unsure, stranded, flaw>>

\* pc: the statement that runs; "fun" while the program's function has the connection
\* job: where the task of the statement is
\* held: closures of the loop, or the program, have the connection too
Calls ==
    [pc : {"new", "waiting", "connecting", "start", "fun", "work", "commit", "rollback",
           "committed", "resolved", "rejected", "forgotten"},
     job : {"none", "queued", "ok", "bad"},
     con : Conn \union {NoConn},
     held : BOOLEAN]

Init ==
    /\ kind \in [Call -> {"tx", "execute"}]
    /\ call = [c \in Call |-> [pc |-> "new", job |-> "none", con |-> NoConn, held |-> FALSE]]
    /\ copies = [c \in Call |-> 0]
    /\ idle = {} /\ invalid = {} /\ waiting = <<>>
    /\ up = {} /\ open = {} /\ db = {}
    /\ pend = [k \in Conn |-> {}]
    /\ unsure = {} /\ stranded = {} /\ flaw = "none"

Works == flaw = "none"

InUse == {call[c].con : c \in Call} \ {NoConn}

At(c, s) == Works /\ call[c].pc = s

-----------------------------------------------------------------------------
(* The pool *)

\* con() has connection k, and posts START TRANSACTION, or the statement: of tx() the
\* closures of the chain hold it too.
Granted(c, k) ==
    [pc |-> IF kind[c] = "tx" THEN "start" ELSE "work", job |-> "queued",
     con |-> k, held |-> kind[c] = "tx"]

Waiters == {waiting[i] : i \in DOMAIN waiting}

\* Slip: the connection goes idle and the waiting call is left waiting.
Collect_Idle(k, cs) ==
    /\ call' = cs
    /\ IF k \in invalid
       THEN /\ invalid' = invalid \ {k}
            /\ open' = open \ {k}
            /\ pend' = [pend EXCEPT ![k] = {}]
            /\ stranded' = stranded \union Waiters
            /\ UNCHANGED <<idle, waiting>>
       ELSE /\ idle' = idle \union {k}
            /\ UNCHANGED <<invalid, waiting, open, pend, stranded>>

\* collect() of k, when the calls are as cs: a marked connection is closed, and mysql rolls
\* back; a good one goes to the call that has waited longest, or becomes idle.
Collect(k, cs) ==
    IF k \in invalid
    THEN /\ invalid' = invalid \ {k}
         /\ open' = open \ {k}
         /\ pend' = [pend EXCEPT ![k] = {}]
         /\ stranded' = stranded \union Waiters
         /\ call' = cs
         /\ UNCHANGED <<idle, waiting>>
    ELSE /\ IF waiting # <<>>
            THEN /\ call' = [cs EXCEPT ![Head(waiting)] = Granted(Head(waiting), k)]
                 /\ waiting' = Tail(waiting)
                 /\ UNCHANGED idle
            ELSE /\ call' = cs
                 /\ idle' = idle \union {k}
                 /\ UNCHANGED waiting
         /\ UNCHANGED <<invalid, open, pend, stranded>>

\* Pool::get(): an idle connection, or a new one while there is room, or wait
Get(c) ==
    /\ At(c, "new")
    /\ \/ \E k \in idle :
            /\ idle' = idle \ {k}
            /\ call' = [call EXCEPT ![c] = Granted(c, k)]
            /\ UNCHANGED waiting
       \/ /\ idle = {}
          /\ IF Cardinality(InUse) + Cardinality({d \in Call : call[d].pc = "connecting"})
                  < Cardinality(Conn)
             THEN call' = [call EXCEPT ![c].pc = "connecting"] /\ UNCHANGED waiting
             ELSE call' = [call EXCEPT ![c].pc = "waiting"] /\ waiting' = Append(waiting, c)
          /\ UNCHANGED idle
    /\ UNCHANGED <<kind, copies, invalid, server, unsure, stranded, flaw>>

\* MysqlLocator::retrieve()
Connects(c) ==
    /\ At(c, "connecting")
    /\ \E k \in Conn \ (idle \union InUse) :
          call' = [call EXCEPT ![c] = Granted(c, k)] /\ up' = up \union {k}
    /\ UNCHANGED <<kind, copies, pool, open, pend, db, unsure, stranded, flaw>>

ConnectFails(c) ==
    /\ At(c, "connecting")
    /\ call' = [call EXCEPT ![c].pc = "rejected"]
    /\ stranded' = stranded \union Waiters
    /\ UNCHANGED <<kind, copies, pool, server, unsure, flaw>>

-----------------------------------------------------------------------------
(* A worker *)

\* what is committed when mysql has done statement s of c on k
Committed(c, s, k) ==
    CASE s \in {"start", "commit"} -> db \union pend[k]
      [] s = "work" /\ k \notin open -> db \union {c}
      [] OTHER -> db

\* mysql does statement s of c on k.
Does(c, s, k) ==
    /\ db' = Committed(c, s, k)
    /\ open' = CASE s = "start" -> open \union {k} [] s = "work" -> open [] OTHER -> open \ {k}
    /\ pend' = [pend EXCEPT ![k] = IF s = "work" THEN (IF k \in open THEN @ \union {c} ELSE @) ELSE {}]
    /\ UNCHANGED <<up, unsure>>

\* The connection is lost before mysql has done it or after; mysql rolls back what is open.
Lost(c, s, k) ==
    /\ up' = up \ {k}
    /\ open' = open \ {k}
    /\ pend' = [pend EXCEPT ![k] = {}]
    /\ db' \in {db, Committed(c, s, k)}
    /\ unsure' = unsure \union {c}

\* A thread is free to run the next task.
Free == Cardinality({p \in Call \X (1 .. Workers) : p[2] <= copies[p[1]]}) < Workers

\* tx_start(), prepare() and execute(): done, refused, or the connection is or gets lost.
\* What fails marks the connection and throws.
Run(c) ==
    LET k == call[c].con
        s == call[c].pc
    IN  /\ Works /\ call[c].job = "queued" /\ Free
        /\ \/ /\ k \in up /\ Does(c, s, k)
              /\ call' = [call EXCEPT ![c].job = "ok"]
              /\ UNCHANGED invalid
           \/ /\ call' = [call EXCEPT ![c].job = "bad"]
              /\ invalid' = invalid \union {k}
              /\ UNCHANGED <<server, unsure>> \/ (k \in up /\ Lost(c, s, k))
        /\ copies' = [copies EXCEPT ![c] = @ + 1]
        /\ UNCHANGED <<kind, idle, waiting, stranded, flaw>>

\* Nothing but n closures of workers hold the connection of a call in state x.
OnlyCopies(x) == ~x.held /\ x.job \notin {"queued", "ok"}

\* The worker destroys its copy of the task, and the connection with it if that is the last.
WorkerLetsGo(c) ==
    /\ Works /\ copies[c] > 0
    /\ copies' = [copies EXCEPT ![c] = @ - 1]
    /\ IF copies[c] = 1 /\ OnlyCopies(call[c])
       THEN Collect(call[c].con, [call EXCEPT ![c].con = NoConn])
       ELSE UNCHANGED <<call, pool, open, pend, stranded>>
    /\ UNCHANGED <<kind, up, db, unsure, flaw>>

\* A worker marks a connection, or gives it back, while the loop does: a data race.
Races(c) ==
    /\ Works
    /\ call[c].job = "queued" \/ (copies[c] = 1 /\ OnlyCopies(call[c]))
    /\ flaw' = "raced"
    /\ UNCHANGED <<calls, pool, server, unsure, stranded>>

-----------------------------------------------------------------------------
(* The loop *)

\* c is in state x now, which lets go of the connection if nobody else holds it.
Becomes(c, x) ==
    /\ IF copies[c] = 0 /\ OnlyCopies(x) /\ call[c].con # NoConn
       THEN Collect(call[c].con, [call EXCEPT ![c] = [x EXCEPT !.con = NoConn]])
       ELSE call' = [call EXCEPT ![c] = x] /\ UNCHANGED <<pool, open, pend, stranded>>
    /\ UNCHANGED <<kind, copies, up, db, unsure, flaw>>

Post(c, s) == Becomes(c, [call[c] EXCEPT !.pc = s, !.job = "queued"])

\* The call is settled as s, or never will be; the closures of the loop are gone.
Finish(c, s) == Becomes(c, [call[c] EXCEPT !.pc = s, !.job = "none", !.held = FALSE])

\* The tick with the result of a statement that went well: what the chain of tx() does next.
Succeeded(c) ==
    /\ Works /\ call[c].job = "ok"
    /\ CASE call[c].pc = "start" -> Becomes(c, [call[c] EXCEPT !.pc = "fun", !.job = "none"])
         [] call[c].pc = "work" /\ kind[c] = "tx" ->
               Post(c, "commit") \/ Post(c, "rollback")      \* fun() resolves or rejects
         [] call[c].pc = "work" /\ kind[c] = "execute" ->    \* the program has it now
               Becomes(c, [call[c] EXCEPT !.pc = "resolved", !.job = "none", !.held = TRUE])
         [] call[c].pc = "commit" -> Finish(c, "committed")
         [] call[c].pc = "rollback" -> Finish(c, "rejected")

\* ... of one that failed: tx() rolls back, once.  Nothing is said if that fails.
Failed(c) ==
    /\ Works /\ call[c].job = "bad"
    /\ IF kind[c] = "execute" THEN Finish(c, "rejected")
       ELSE IF call[c].pc = "rollback" THEN Finish(c, "forgotten")
       ELSE Post(c, "rollback")

\* Slip: the call ends without a ROLLBACK when fun() throws.
FunThrows_NoRollback(c) == At(c, "fun") /\ Finish(c, "rejected")

\* fun() runs a statement, or throws.
FunExecutes(c) == At(c, "fun") /\ Post(c, "work")
FunThrows(c) == At(c, "fun") /\ Post(c, "rollback")

\* the nextTick that resolves the promise of tx()
Resolves(c) == At(c, "committed") /\ Becomes(c, [call[c] EXCEPT !.pc = "resolved"])

\* The program lets go of what execute() resolved with.
Drop(c) == Works /\ call[c].pc = "resolved" /\ call[c].held /\ Finish(c, "resolved")

-----------------------------------------------------------------------------
Loop(c) ==
    \/ Connects(c) \/ ConnectFails(c)
    \/ Succeeded(c) \/ Failed(c)
    \/ FunExecutes(c) \/ FunThrows(c)
    \/ Resolves(c) \/ Drop(c)

Next == \E c \in Call : Get(c) \/ Loop(c) \/ Run(c) \/ WorkerLetsGo(c) \/ Races(c)

\* Ticks run, statements and fun() end, workers go on, the program lets go of results:
\* something of this happens while it can.
Goes == \E c \in Call : Loop(c) \/ Run(c) \/ WorkerLetsGo(c)

Spec == Init /\ [][Next]_vars

-----------------------------------------------------------------------------
(* Properties *)

TypeOK ==
    /\ kind \in [Call -> {"tx", "execute"}]
    /\ call \in [Call -> Calls]
    /\ copies \in [Call -> 0 .. Workers]
    /\ idle \subseteq Conn /\ invalid \subseteq Conn /\ waiting \in Seq(Call)
    /\ up \subseteq Conn /\ open \subseteq Conn /\ db \subseteq Call
    /\ pend \in [Conn -> SUBSET Call]
    /\ unsure \subseteq Call /\ stranded \subseteq Call
    /\ flaw \in {"none", "raced"}

\* tx() resolves if and only if what fun() wrote is committed: rejected, it is nowhere, not even
\* in a transaction that another call might commit.  So it is with execute(), whose answer
\* may be lost.
TxAtomic ==
    \A c \in Call :
        /\ call[c].pc = "resolved" => c \in db
        /\ call[c].pc = "rejected" =>
              /\ c \in db => kind[c] = "execute" /\ c \in unsure
              /\ \A k \in Conn : c \notin pend[k]

\* An idle connection is in nobody's use, alive as far as is known, and has no transaction.
IdleIsClean == idle \intersect (open \union invalid \union InUse) = {}

\* A call is under way: but for the tx() whose ROLLBACK fails, and a call that waited when a
\* connection was closed or could not be made.
Unsettled ==
    Works /\ \E c \in Call :
                /\ call[c].pc \notin {"new", "resolved", "rejected", "forgotten"}
                /\ ~(call[c].pc = "waiting" /\ c \in stranded)
=============================================================================
