------------------------------ MODULE Executor ------------------------------
(***************************************************************************)
(* What prio::ThreadPool promises to the event-loop thread that owns it,   *)
(* with no threads, lock or condition variable in sight: tasks handed in   *)
(* by enqueue() begin in the order they were handed in, each at most once; *)
(* they begin only while the pool is open; and when stop() has returned    *)
(* no task is in flight any more.  A task that was still queued when the   *)
(* pool closed stays queued and begins after the next start().             *)
(*                                                                         *)
(* ThreadPool implements this module (ThreadPool!Executes); TaskLoop is    *)
(* built on it in place of the threads.                                    *)
(***************************************************************************)
EXTENDS Sequences

CONSTANT Task                   \* the closures a program hands to the pool

VARIABLES
    queue,                      \* handed in, not yet begun
    inflight,                   \* begun, not yet returned
    open                        \* start() was called and stop() has not returned

executorVars == <<queue, inflight, open>>

ExecutorInit ==
    /\ queue = <<>>
    /\ inflight = {}
    /\ open = TRUE

\* start(): a pool that is already open stays open.
Open ==
    /\ open' = TRUE
    /\ UNCHANGED <<queue, inflight>>

\* enqueue(f): allowed at any time, the pool need not be open.
Submit(t) ==
    /\ queue' = Append(queue, t)
    /\ UNCHANGED <<inflight, open>>

\* Some thread of the pool takes the oldest task.
Begin ==
    /\ open
    /\ queue # <<>>
    /\ inflight' = inflight \union {Head(queue)}
    /\ queue' = Tail(queue)
    /\ UNCHANGED open

\* A task returned.
Finish(t) ==
    /\ t \in inflight
    /\ inflight' = inflight \ {t}
    /\ UNCHANGED <<queue, open>>

\* stop() returns: every thread was joined, so nothing runs any more.
Close ==
    /\ inflight = {}
    /\ open' = FALSE
    /\ UNCHANGED <<queue, inflight>>

ExecutorNext ==
    \/ Open
    \/ Close
    \/ Begin
    \/ \E t \in Task : Submit(t) \/ Finish(t)

ExecutorSpec == ExecutorInit /\ [][ExecutorNext]_executorVars
=============================================================================
