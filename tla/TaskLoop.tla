------------------------------ MODULE TaskLoop ------------------------------
(***************************************************************************)
(* prio::task() between the event loop and the thread pool: LibEventLoop   *)
(* (libraries/prio/src/libevent_loop.cpp), nextTick() (libevent.cpp) and   *)
(* Task::exec (include/priocpp/task.h).  The pool is the Executor that     *)
(* ThreadPool implements.                                                  *)
(*                                                                         *)
(* A task hops from the loop thread to the pool and back: exec() posts a   *)
(* tick, the tick enqueues a closure, a worker runs it and posts another   *)
(* tick, and that one settles the promise on the loop thread.  Meanwhile   *)
(* the program may exit() the loop, the loop may return because libevent   *)
(* has no event left, and run() may be called again.                       *)
(***************************************************************************)
EXTENDS Executor, Naturals, SequencesExt

CONSTANTS
    MaxRuns,                \* bound on the calls of run()
    MaxExits,               \* bound on the calls of exit()
    HasSignals              \* does the program ever call signal()?

ASSUME TaskLoopAssumption ==
    /\ MaxRuns \in Nat
    /\ MaxExits \in Nat
    /\ HasSignals \in BOOLEAN

VARIABLES
    ticks,                  \* active events of base_, in activation order
    live,                   \* a registered, uncancelled event is in base_ (a signal handler)
    loop,                   \* where the loop thread is
    promise,                \* the promise each task() call returned
    stage,                  \* how far the worker is with the closure of a task
    running,                \* the shared atomic of a task
    runs, exits             \* calls of run() and exit() so far

taskVars == <<promise, stage, running>>
loopVars == <<ticks, live, loop, runs, exits>>
vars == <<executorVars, loopVars, taskVars>>

LoopState == {"idle",       \* outside run(): the program runs before, between or after runs
              "dispatch",   \* event_base_dispatch, between two callbacks
              "callback",   \* in program code called from the loop
              "stopping",   \* in the exit tick, in thePool().stop()
              "broken"}     \* event_base_loopbreak was called

PromiseState == {"none", "pending", "resolved", "rejected"}

Stage == {"new", "returned", "threw", "posted"}

Tick == [kind : {"enqueue", "resolve", "reject"}, task : Task] \union [kind : {"exit"}]

EnqueueTick(t) == [kind |-> "enqueue", task |-> t]
ResolveTick(t) == [kind |-> "resolve", task |-> t]
RejectTick(t)  == [kind |-> "reject", task |-> t]
ExitTick       == [kind |-> "exit"]

Init ==
    /\ ExecutorInit
    /\ ticks = <<>>
    /\ live = FALSE
    /\ loop = "idle"
    /\ promise = [t \in Task |-> "none"]
    /\ stage = [t \in Task |-> "new"]
    /\ running = [t \in Task |-> FALSE]
    /\ runs = 0
    /\ exits = 0

-----------------------------------------------------------------------------
(* Slips: what the operation without the suffix must not do.  No specification *)
(* uses them; they show that the properties below can fail.                    *)

\* run() that relies on a start() made once
Run_NoStart ==
    /\ loop = "idle"
    /\ runs < MaxRuns
    /\ runs' = runs + 1
    /\ loop' = "dispatch"
    /\ UNCHANGED <<executorVars, ticks, live, exits, taskVars>>

\* exit() that stops the pool but not the loop
Stopped_NoBreak ==
    /\ loop = "stopping"
    /\ Close
    /\ loop' = "dispatch"
    /\ UNCHANGED <<ticks, live, runs, exits, taskVars>>

\* a run() that throws away what is still active
LoopReturns_Drop ==
    /\ \/ loop = "broken"
       \/ loop = "dispatch" /\ ticks = <<>> /\ ~live
    /\ loop' = "idle"
    /\ live' = FALSE
    /\ ticks' = <<>>
    /\ UNCHANGED <<executorVars, runs, exits, taskVars>>

\* a worker that hands over before it synchronized
TaskComputes_NoSync(t) ==
    /\ t \in inflight
    /\ stage[t] = "new"
    /\ \E how \in {"returned", "threw"} : stage' = [stage EXCEPT ![t] = how]
    /\ UNCHANGED <<executorVars, loopVars, promise, running>>

-----------------------------------------------------------------------------
(* What the program calls, from main() or from a callback *)

ProgramRuns == loop \in {"idle", "callback"}

\* nextTick(f): an event activated at once.  It joins the end of the active queue.
NextTick(tick) == ticks' = Append(ticks, tick)

\* task(t)
Exec(t) ==
    /\ ProgramRuns
    /\ promise[t] = "none"
    /\ promise' = [promise EXCEPT ![t] = "pending"]
    /\ running' = [running EXCEPT ![t] = TRUE]
    /\ NextTick(EnqueueTick(t))
    /\ UNCHANGED <<executorVars, live, loop, runs, exits, stage>>

\* theLoop().signal(s): a persistent event that keeps the loop from returning
Signal ==
    /\ HasSignals
    /\ ProgramRuns
    /\ live' = TRUE
    /\ UNCHANGED <<executorVars, ticks, loop, runs, exits, taskVars>>

\* theLoop().exit(): cancel every signal event, and a tick for the rest
ExitLoop ==
    /\ ProgramRuns
    /\ exits < MaxExits
    /\ exits' = exits + 1
    /\ live' = FALSE
    /\ NextTick(ExitTick)
    /\ UNCHANGED <<executorVars, loop, runs, taskVars>>

\* theLoop().run(), up to the first callback: thePool().start(), then dispatch
Run ==
    /\ loop = "idle"
    /\ runs < MaxRuns
    /\ runs' = runs + 1
    /\ Open
    /\ loop' = "dispatch"
    /\ UNCHANGED <<ticks, live, exits, taskVars>>

\* a callback returns to the loop
Return ==
    /\ loop = "callback"
    /\ loop' = "dispatch"
    /\ UNCHANGED <<executorVars, ticks, live, runs, exits, taskVars>>

-----------------------------------------------------------------------------
(* The loop thread inside event_base_dispatch *)

\* the callback of the oldest active event; its event was disposed of
TakeTick(tick) ==
    /\ loop = "dispatch"
    /\ ticks # <<>>
    /\ Head(ticks) = tick
    /\ ticks' = Tail(ticks)

\* the tick of exec(): pool.enqueue
TickEnqueues(t) ==
    /\ TakeTick(EnqueueTick(t))
    /\ Submit(t)
    /\ UNCHANGED <<live, loop, runs, exits, taskVars>>

\* the tick of the worker: task_synchronize_main spins until running is false,
\* then the promise is settled and its continuations run
TickSettles(t) ==
    /\ ~running[t]
    /\ \/ /\ TakeTick(ResolveTick(t))
          /\ promise' = [promise EXCEPT ![t] = "resolved"]
       \/ /\ TakeTick(RejectTick(t))
          /\ promise' = [promise EXCEPT ![t] = "rejected"]
    /\ loop' = "callback"
    /\ UNCHANGED <<executorVars, live, runs, exits, stage, running>>

\* the tick of exit(): thePool().stop() begins
TickExits ==
    /\ TakeTick(ExitTick)
    /\ loop' = "stopping"
    /\ UNCHANGED <<executorVars, live, runs, exits, taskVars>>

\* ... stop() has joined the workers; event_base_loopbreak
Stopped ==
    /\ loop = "stopping"
    /\ Close
    /\ loop' = "broken"
    /\ UNCHANGED <<ticks, live, runs, exits, taskVars>>

\* A signal arrived, its callback runs.  libevent looks for new events only when
\* none is active any more.
SignalFires ==
    /\ loop = "dispatch"
    /\ live
    /\ ticks = <<>>
    /\ loop' = "callback"
    /\ UNCHANGED <<executorVars, ticks, live, runs, exits, taskVars>>

\* event_base_dispatch returns: after a loopbreak, with whatever is still active,
\* or because no event is active or registered.  Then run() drops signals_.
LoopReturns ==
    /\ \/ loop = "broken"
       \/ loop = "dispatch" /\ ticks = <<>> /\ ~live
    /\ loop' = "idle"
    /\ live' = FALSE
    /\ UNCHANGED <<executorVars, ticks, runs, exits, taskVars>>

-----------------------------------------------------------------------------
(* A worker that runs the closure of exec() *)

\* the pool hands the closure to a worker
TaskBegins ==
    /\ Begin
    /\ UNCHANGED <<loopVars, taskVars>>

\* t() returned or threw, and task_synchronize_thread set running to false
TaskComputes(t) ==
    /\ t \in inflight
    /\ stage[t] = "new"
    /\ \E how \in {"returned", "threw"} : stage' = [stage EXCEPT ![t] = how]
    /\ running' = [running EXCEPT ![t] = FALSE]
    /\ UNCHANGED <<executorVars, loopVars, promise>>

\* nextTick from the worker
TaskPosts(t) ==
    /\ t \in inflight
    /\ \/ stage[t] = "returned" /\ NextTick(ResolveTick(t))
       \/ stage[t] = "threw" /\ NextTick(RejectTick(t))
    /\ stage' = [stage EXCEPT ![t] = "posted"]
    /\ UNCHANGED <<executorVars, live, loop, runs, exits, promise, running>>

\* the closure returns to the worker loop
TaskEnds(t) ==
    /\ stage[t] = "posted"
    /\ Finish(t)
    /\ UNCHANGED <<loopVars, taskVars>>

-----------------------------------------------------------------------------
ProgramStep ==
    \/ \E t \in Task : Exec(t)
    \/ Signal
    \/ ExitLoop
    \/ Run

\* SignalFires is the outside world's: nothing makes it happen.
LoopStep ==
    \/ Return
    \/ \E t \in Task : TickEnqueues(t) \/ TickSettles(t)
    \/ TickExits
    \/ Stopped
    \/ LoopReturns

WorkerStep(t) == TaskComputes(t) \/ TaskPosts(t) \/ TaskEnds(t)

Next ==
    \/ ProgramStep
    \/ SignalFires
    \/ LoopStep
    \/ TaskBegins
    \/ \E t \in Task : WorkerStep(t)

Spec == Init /\ [][Next]_vars

\* The loop thread goes on (callbacks return, and stop() does: see StopReturns
\* of ThreadPool), an idle worker takes work, and tasks end.
Fairness ==
    /\ WF_vars(LoopStep)
    /\ WF_vars(TaskBegins)
    /\ \A t \in Task : WF_vars(WorkerStep(t))

FairSpec == Spec /\ Fairness

-----------------------------------------------------------------------------
(* Properties *)

TypeOK ==
    /\ queue \in Seq(Task)
    /\ inflight \subseteq Task
    /\ open \in BOOLEAN
    /\ ticks \in Seq(Tick)
    /\ live \in BOOLEAN
    /\ loop \in LoopState
    /\ promise \in [Task -> PromiseState]
    /\ stage \in [Task -> Stage]
    /\ running \in [Task -> BOOLEAN]

\* Where the obligation to settle a task's promise is: in exec()'s tick or the worker's,
\* in the deque, or with a worker that has not posted yet.
Custodians(t) ==
    {<<"tick", i>> : i \in {i \in DOMAIN ticks :
                               ticks[i] \in {EnqueueTick(t), ResolveTick(t), RejectTick(t)}}}
    \union {<<"queue", i>> : i \in {i \in DOMAIN queue : queue[i] = t}}
    \union (IF t \in inflight /\ stage[t] # "posted" THEN {<<"worker", 0>>} ELSE {})

\* A pending promise always has exactly one custodian and a settled one none: an
\* exit(), a run() that returns early or a restart never drops the promise on
\* the floor and never settles it twice.
OneCustodian ==
    \A t \in Task :
        IF promise[t] = "pending" THEN \E c \in Custodians(t) : Custodians(t) = {c}
                                  ELSE Custodians(t) = {}

\* Once a settled tick is next, the loop thread does not spin in
\* task_synchronize_main (and blocks every other event) for a worker to catch up.
LoopNeverSpins ==
    loop = "dispatch" /\ ticks # <<>> =>
        \A t \in Task : Head(ticks) \in {ResolveTick(t), RejectTick(t)} => ~running[t]

\* exit() ends the run it is called in, or the next one.
ExitEnds == (loop # "idle" /\ \E i \in DOMAIN ticks : ticks[i] = ExitTick) ~> (loop = "idle")

\* While something keeps the loop alive, a task given to it is settled, in the
\* first run or in a later one, unless the program ends the run.
TaskSettles ==
    \A t \in Task :
        (promise[t] = "pending" /\ loop # "idle" /\ live) ~> (promise[t] # "pending" \/ ~live)
=============================================================================
