----------------------------- MODULE ThreadPool -----------------------------
(***************************************************************************)
(* prio::ThreadPool (libraries/prio/src/threadpool.cpp and                 *)
(* include/priocpp/threadpool.h): a deque of closures behind a mutex and a *)
(* condition variable, worker threads that pop and run them, and one owner *)
(* -- the event-loop thread -- that calls start(), enqueue() and stop().   *)
(*                                                                         *)
(* The steps are the atomic points of the code.  Two of them matter most:  *)
(* enqueue() pushes under queue_mutex_ and notifies after it has released  *)
(* it, and stop() stores stop_ and notifies without ever taking it.        *)
(***************************************************************************)
EXTENDS Naturals, Sequences, FiniteSets

CONSTANTS
    Worker,                 \* identities for threads; one is reused after its join
    Task,                   \* closures, each handed to enqueue() at most once
    NThreads,               \* nthreads_: how many threads one start() creates
    MaxStarts,              \* bound on the calls of start()
    Spurious                \* may condition_.wait return without a notification?

ASSUME PoolAssumption ==
    /\ IsFiniteSet(Worker)
    /\ NThreads \in Nat \ {0}
    /\ MaxStarts \in Nat
    /\ Spurious \in BOOLEAN

Nobody == "nobody"
ASSUME NobodyAssumption == Nobody \notin Worker

VARIABLES
    stop_,                  \* the atomic flag
    tasks_,                 \* the deque
    queue_mutex_,           \* the worker that holds the mutex, or Nobody
    pc,                     \* where each worker is
    b,                      \* each worker's local copy of stop_
    task,                   \* the closure each worker holds: {} or a singleton
    owner,                  \* where the owner is inside enqueue() or stop()
    starts,                 \* calls of start() so far
    enqueued,               \* history: closures in the order enqueue() got them
    started                 \* history: closures in the order workers popped them

vars == <<stop_, tasks_, queue_mutex_, pc, b, task, owner, starts, enqueued, started>>

WorkerPC == {"absent",      \* not created, or joined
             "ready",       \* about to lock queue_mutex_
             "locked",      \* holds queue_mutex_, has loaded stop_ into b
             "waiting",     \* blocked in condition_.wait
             "woken",       \* notified, about to re-lock queue_mutex_
             "running",     \* inside task()
             "exiting",     \* left the loop, running onThreadShutdown
             "done"}        \* returned, can be joined

OwnerPC == {"idle",         \* not inside a call on the pool
            "notify_one",   \* enqueue() has pushed, not yet notified
            "notify_all",   \* stop() has stored stop_, not yet notified
            "join"}         \* stop() is joining the workers

RangeOf(s) == {s[i] : i \in DOMAIN s}

Here(p) == {w \in Worker : pc[w] = p}

\* workers_: the threads that were created and not joined
workers_ == Worker \ Here("absent")

Init ==
    /\ stop_ = FALSE
    /\ tasks_ = <<>>
    /\ queue_mutex_ = Nobody
    /\ pc = [w \in Worker |-> "absent"]
    /\ b = [w \in Worker |-> FALSE]
    /\ task = [w \in Worker |-> {}]
    /\ owner = "idle"
    /\ starts = 0
    /\ enqueued = <<>>
    /\ started = <<>>

-----------------------------------------------------------------------------
(* Slips: what the operation without the suffix must not do.  No specification *)
(* uses them; they show that the properties below can fail.                    *)

\* enqueue() that notifies only if the deque was empty
EnqueuePush_IfEmpty(t) ==
    /\ owner = "idle"
    /\ queue_mutex_ = Nobody
    /\ t \notin RangeOf(enqueued)
    /\ tasks_' = Append(tasks_, t)
    /\ enqueued' = Append(enqueued, t)
    /\ owner' = IF tasks_ = <<>> THEN "notify_one" ELSE "idle"
    /\ UNCHANGED <<stop_, queue_mutex_, pc, b, task, starts, started>>

\* stop() that detaches the threads
StopJoin_Detach ==
    /\ owner = "join"
    /\ owner' = "idle"
    /\ UNCHANGED <<stop_, tasks_, queue_mutex_, pc, b, task, starts, enqueued, started>>

\* wait() without a look at the deque
Wait_Blind(w) ==
    /\ pc[w] = "locked"
    /\ ~b[w]
    /\ queue_mutex_' = Nobody
    /\ pc' = [pc EXCEPT ![w] = "waiting"]
    /\ UNCHANGED <<stop_, tasks_, b, task, owner, starts, enqueued, started>>

\* a worker that copies the front but pops the back
Pop_Back(w) ==
    /\ pc[w] = "locked"
    /\ ~b[w]
    /\ tasks_ # <<>>
    /\ task' = [task EXCEPT ![w] = {Head(tasks_)}]
    /\ tasks_' = SubSeq(tasks_, 1, Len(tasks_) - 1)
    /\ started' = Append(started, Head(tasks_))
    /\ queue_mutex_' = Nobody
    /\ pc' = [pc EXCEPT ![w] = "running"]
    /\ UNCHANGED <<stop_, b, owner, starts, enqueued>>

-----------------------------------------------------------------------------
(* The owner *)

\* start(): creates nthreads_ more threads, whether or not earlier ones still run.
Start ==
    /\ owner = "idle"
    /\ starts < MaxStarts
    /\ starts' = starts + 1
    /\ stop_' = FALSE
    /\ \E S \in SUBSET Here("absent") :
          /\ Cardinality(S) = NThreads
          /\ pc' = [w \in Worker |-> IF w \in S THEN "ready" ELSE pc[w]]
    /\ UNCHANGED <<tasks_, queue_mutex_, b, task, owner, enqueued, started>>

\* enqueue(f), the block that holds queue_mutex_
EnqueuePush(t) ==
    /\ owner = "idle"
    /\ queue_mutex_ = Nobody
    /\ t \notin RangeOf(enqueued)
    /\ tasks_' = Append(tasks_, t)
    /\ enqueued' = Append(enqueued, t)
    /\ owner' = "notify_one"
    /\ UNCHANGED <<stop_, queue_mutex_, pc, b, task, starts, started>>

\* enqueue(f), condition_.notify_one(): wakes one waiting worker if there is one
EnqueueNotify ==
    /\ owner = "notify_one"
    /\ owner' = "idle"
    /\ \/ /\ Here("waiting") = {}
          /\ UNCHANGED pc
       \/ \E w \in Here("waiting") : pc' = [pc EXCEPT ![w] = "woken"]
    /\ UNCHANGED <<stop_, tasks_, queue_mutex_, b, task, starts, enqueued, started>>

\* stop(), up to stop_.store(true).  Only the owner writes stop_, so its load
\* and its store are one step; a stop() that loads TRUE returns at once.
StopStore ==
    /\ owner = "idle"
    /\ ~stop_
    /\ stop_' = TRUE
    /\ owner' = "notify_all"
    /\ UNCHANGED <<tasks_, queue_mutex_, pc, b, task, starts, enqueued, started>>

\* stop(), condition_.notify_all()
StopNotify ==
    /\ owner = "notify_all"
    /\ pc' = [w \in Worker |-> IF pc[w] = "waiting" THEN "woken" ELSE pc[w]]
    /\ owner' = "join"
    /\ UNCHANGED <<stop_, tasks_, queue_mutex_, b, task, starts, enqueued, started>>

\* stop(), the joins and workers_.clear()
StopJoin ==
    /\ owner = "join"
    /\ \A w \in workers_ : pc[w] = "done"
    /\ pc' = [w \in Worker |-> "absent"]
    /\ owner' = "idle"
    /\ UNCHANGED <<stop_, tasks_, queue_mutex_, b, task, starts, enqueued, started>>

-----------------------------------------------------------------------------
(* A worker *)

\* Lock queue_mutex_ (first time round, or on the way out of wait) and load stop_.
Acquire(w) ==
    /\ pc[w] \in {"ready", "woken"}
    /\ queue_mutex_ = Nobody
    /\ queue_mutex_' = w
    /\ b' = [b EXCEPT ![w] = stop_]
    /\ pc' = [pc EXCEPT ![w] = "locked"]
    /\ UNCHANGED <<stop_, tasks_, task, owner, starts, enqueued, started>>

\* condition_.wait(lock): unlock and block in one step
Wait(w) ==
    /\ pc[w] = "locked"
    /\ ~b[w]
    /\ tasks_ = <<>>
    /\ queue_mutex_' = Nobody
    /\ pc' = [pc EXCEPT ![w] = "waiting"]
    /\ UNCHANGED <<stop_, tasks_, b, task, owner, starts, enqueued, started>>

\* condition_.wait may return though nobody notified
SpuriousWakeup(w) ==
    /\ Spurious
    /\ pc[w] = "waiting"
    /\ pc' = [pc EXCEPT ![w] = "woken"]
    /\ UNCHANGED <<stop_, tasks_, queue_mutex_, b, task, owner, starts, enqueued, started>>

\* if(b) break: the worker goes, whatever is still queued
Break(w) ==
    /\ pc[w] = "locked"
    /\ b[w]
    /\ queue_mutex_' = Nobody
    /\ pc' = [pc EXCEPT ![w] = "exiting"]
    /\ UNCHANGED <<stop_, tasks_, b, task, owner, starts, enqueued, started>>

\* task = tasks_.front(); tasks_.pop_front(); unlock
Pop(w) ==
    /\ pc[w] = "locked"
    /\ ~b[w]
    /\ tasks_ # <<>>
    /\ task' = [task EXCEPT ![w] = {Head(tasks_)}]
    /\ tasks_' = Tail(tasks_)
    /\ started' = Append(started, Head(tasks_))
    /\ queue_mutex_' = Nobody
    /\ pc' = [pc EXCEPT ![w] = "running"]
    /\ UNCHANGED <<stop_, b, owner, starts, enqueued>>

\* task() returns; the closure dies with the scope
Ran(w) ==
    /\ pc[w] = "running"
    /\ task' = [task EXCEPT ![w] = {}]
    /\ pc' = [pc EXCEPT ![w] = "ready"]
    /\ UNCHANGED <<stop_, tasks_, queue_mutex_, b, owner, starts, enqueued, started>>

\* onThreadShutdown() and the end of the thread
Exit(w) ==
    /\ pc[w] = "exiting"
    /\ pc' = [pc EXCEPT ![w] = "done"]
    /\ UNCHANGED <<stop_, tasks_, queue_mutex_, b, task, owner, starts, enqueued, started>>

-----------------------------------------------------------------------------
WorkerStep(w) ==
    \/ Acquire(w) \/ Wait(w) \/ Break(w) \/ Pop(w) \/ Ran(w) \/ Exit(w)

\* what the owner does once it is inside a call
OwnerStep == EnqueueNotify \/ StopNotify \/ StopJoin

Next ==
    \/ Start
    \/ \E t \in Task : EnqueuePush(t)
    \/ StopStore
    \/ OwnerStep
    \/ \E w \in Worker : WorkerStep(w) \/ SpuriousWakeup(w)

Spec == Init /\ [][Next]_vars

\* Threads are scheduled and tasks return.  Which calls the owner makes is up
\* to the program, but a call that was begun goes on.  std::mutex promises no
\* more than that a thread gets it if it stays free (weak fairness).
Fairness ==
    /\ WF_vars(OwnerStep)
    /\ \A w \in Worker : WF_vars(WorkerStep(w))

FairSpec == Spec /\ Fairness

-----------------------------------------------------------------------------
(* Properties *)

TypeOK ==
    /\ stop_ \in BOOLEAN
    /\ tasks_ \in Seq(Task)
    /\ queue_mutex_ \in Worker \union {Nobody}
    /\ pc \in [Worker -> WorkerPC]
    /\ b \in [Worker -> BOOLEAN]
    /\ task \in [Worker -> SUBSET Task]
    /\ owner \in OwnerPC
    /\ starts \in Nat
    /\ enqueued \in Seq(Task)
    /\ started \in Seq(Task)

\* Every closure handed to enqueue() is either still in the deque or was popped,
\* exactly once, and in the order of the calls: no interleaving of enqueue,
\* workers, stop and restart loses, doubles or overtakes a task.
Fifo == enqueued = started \o tasks_

\* Once stop() has returned, and until start() is called again, no thread of the
\* pool exists: nothing a task captured can be used by another thread any more.
QuietWhenStopped == stop_ /\ owner \in {"idle", "notify_one"} => workers_ = {}

\* The workers that are on their way to the deque
Looking == Here("ready") \union Here("woken") \union Here("locked")

\* While the pool is up, a worker sleeps in condition_.wait only if every queued
\* task has another worker on its way to fetch it (the one that enqueue() is
\* about to notify included): a burst of enqueue() calls is not served by fewer
\* threads than it could be, and above all no task waits while all workers sleep.
WorkConserving ==
    ~stop_ /\ Here("waiting") # {} =>
        Len(tasks_) <= Cardinality(Looking) + (IF owner = "notify_one" THEN 1 ELSE 0)

\* A queued task is eventually popped, unless stop() comes first or no thread
\* was ever started.
QueuedIsStarted ==
    \A t \in Task :
        (t \in RangeOf(tasks_) /\ workers_ # {}) ~> (t \in RangeOf(started) \/ stop_)

\* stop() returns: "stop all threads" and "join them" (threadpool.cpp, stop()).
StopReturns == (owner = "join") ~> (owner = "idle")

\* The pool is an Executor: the deque is its queue, the closures that workers
\* hold are in flight, and it is closed from the end of a stop() to the next start().
Executes == INSTANCE Executor WITH
    queue    <- tasks_,
    inflight <- UNION {task[w] : w \in Worker},
    open     <- ~(stop_ /\ owner \in {"idle", "notify_one"})

ExecutorSpec == Executes!ExecutorSpec
=============================================================================
