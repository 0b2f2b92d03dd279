--------------------------- MODULE TaskLoopProofs ---------------------------
(***************************************************************************)
(* Proofs about TaskLoop for every set of tasks and every number of runs   *)
(* and exits.                                                              *)
(*                                                                         *)
(* LoopNeverSpins is about the tick that is next; it is inductive only as  *)
(* a statement about every tick that is active (SettleTickSynced), and     *)
(* that needs to know that running is set before the first hop of a task   *)
(* and never again (Fresh).                                                *)
(*                                                                         *)
(* OneCustodian counts places, which move when the queue and the ticks do. *)
(* Custody says the same of positions: a pending promise is at some        *)
(* position of some place, and two such positions are one.                 *)
(***************************************************************************)
EXTENDS TaskLoop, TLAPS, SequenceTheorems

\* A tick that settles is posted by a worker that has synchronized.
SettleTickSynced ==
    \A i \in DOMAIN ticks : \A t \in Task :
        ticks[i] \in {ResolveTick(t), RejectTick(t)} => stage[t] = "posted"

\* Past its computation, a task is done with the shared atomic.
Synced == \A t \in Task : stage[t] # "new" => ~running[t]

\* What reached a tick, the deque or a worker came through exec().
Fresh ==
    /\ \A t \in Task : stage[t] # "new" => promise[t] # "none"
    /\ \A t \in inflight : promise[t] # "none"
    /\ \A i \in DOMAIN queue : promise[queue[i]] # "none"
    /\ \A i \in DOMAIN ticks : \A t \in Task : ticks[i] = EnqueueTick(t) => promise[t] # "none"

LoopInv == TypeOK /\ SettleTickSynced /\ Synced /\ Fresh

-----------------------------------------------------------------------------
LEMMA TicksAreTicks ==
    /\ ExitTick \in Tick
    /\ \A t \in Task : {EnqueueTick(t), ResolveTick(t), RejectTick(t)} \subseteq Tick
    /\ \A t, u \in Task : EnqueueTick(t) \notin {ResolveTick(u), RejectTick(u), ExitTick}
    /\ \A t, u \in Task : EnqueueTick(t) = EnqueueTick(u) => t = u
    /\ \A t, u \in Task : ResolveTick(t) = ResolveTick(u) => t = u
    /\ \A t, u \in Task : RejectTick(t) = RejectTick(u) => t = u
    /\ \A t, u \in Task : ResolveTick(t) # RejectTick(u)
    /\ \A t \in Task : ExitTick \notin {EnqueueTick(t), ResolveTick(t), RejectTick(t)}
BY DEF Tick, ExitTick, EnqueueTick, ResolveTick, RejectTick

LEMMA InitLoopInv == Init => LoopInv
<1> SUFFICES ASSUME Init PROVE LoopInv
  OBVIOUS
<1>1. /\ queue = <<>> /\ ticks = <<>> /\ inflight = {} /\ open = TRUE
      /\ live = FALSE /\ loop = "idle"
      /\ promise = [t \in Task |-> "none"]
      /\ stage = [t \in Task |-> "new"]
      /\ running = [t \in Task |-> FALSE]
  BY DEF Init, ExecutorInit
<1>2. promise \in [Task -> PromiseState] /\ stage \in [Task -> Stage]
  BY <1>1 DEF PromiseState, Stage
<1>3. running \in [Task -> BOOLEAN]
  BY <1>1
<1>4. TypeOK
  <2>1. queue \in Seq(Task) /\ ticks \in Seq(Tick) /\ inflight \subseteq Task
    BY <1>1
  <2>2. open \in BOOLEAN /\ live \in BOOLEAN
    BY <1>1
  <2>3. loop \in LoopState
    BY <1>1 DEF LoopState
  <2> QED
    BY <1>2, <1>3, <2>1, <2>2, <2>3 DEF TypeOK
<1>5. SettleTickSynced /\ Synced /\ Fresh
  BY <1>1 DEF SettleTickSynced, Synced, Fresh
<1> QED
  BY <1>4, <1>5 DEF LoopInv

\* nextTick() at the end of the active queue
LEMMA Appended ==
    ASSUME NEW tick \in Tick, TypeOK, NextTick(tick)
    PROVE  /\ ticks' \in Seq(Tick)
           /\ DOMAIN ticks' = 1 .. Len(ticks) + 1
           /\ DOMAIN ticks = 1 .. Len(ticks)
           /\ \A i \in DOMAIN ticks : ticks'[i] = ticks[i]
           /\ ticks'[Len(ticks) + 1] = tick
<1>1. ticks \in Seq(Tick)
  BY DEF TypeOK
<1> QED
  BY <1>1, AppendProperties DEF NextTick

\* the callback of the oldest tick
LEMMA Taken ==
    ASSUME TypeOK, NEW tick, TakeTick(tick)
    PROVE  /\ ticks' \in Seq(Tick)
           /\ tick = ticks[1] /\ 1 \in DOMAIN ticks
           /\ \A i \in DOMAIN ticks' : i + 1 \in DOMAIN ticks /\ ticks'[i] = ticks[i + 1]
<1>1. ticks \in Seq(Tick)
  BY DEF TypeOK
<1> QED
  BY <1>1, HeadTailProperties DEF TakeTick

LEMMA NextLoopInv == LoopInv /\ [Next]_vars => LoopInv'
<1> SUFFICES ASSUME LoopInv, [Next]_vars PROVE LoopInv'
  OBVIOUS
<1> USE DEF LoopInv
<1>1. ASSUME NEW t \in Task, Exec(t) PROVE LoopInv'
  <2>1. EnqueueTick(t) \in Tick /\ NextTick(EnqueueTick(t))
    BY <1>1, TicksAreTicks DEF Exec
  <2>2. /\ promise[t] = "none"
        /\ promise' = [promise EXCEPT ![t] = "pending"]
        /\ running' = [running EXCEPT ![t] = TRUE]
        /\ UNCHANGED <<queue, inflight, open, live, loop, stage>>
    BY <1>1 DEF Exec, executorVars
  <2>3. promise' \in [Task -> PromiseState] /\ running' \in [Task -> BOOLEAN]
    BY <2>2 DEF TypeOK, PromiseState
  <2>4. TypeOK'
    BY <2>1, <2>2, <2>3, Appended DEF TypeOK
  <2>5. SettleTickSynced'
    BY <2>1, <2>2, Appended, TicksAreTicks DEF SettleTickSynced
  <2>6. stage[t] = "new"
    BY <2>2 DEF Fresh, TypeOK
  <2>7. Synced'
    BY <2>2, <2>6 DEF Synced, TypeOK
  <2>8. \A u \in Task : promise[u] # "none" => promise'[u] # "none"
    BY <2>2 DEF TypeOK
  <2>9. \A i \in DOMAIN ticks' : \A u \in Task : ticks'[i] = EnqueueTick(u) => promise'[u] # "none"
    <3> SUFFICES ASSUME NEW i \in DOMAIN ticks', NEW u \in Task, ticks'[i] = EnqueueTick(u)
                 PROVE  promise'[u] # "none"
      OBVIOUS
    <3>1. CASE i \in DOMAIN ticks
      <4>1. ticks[i] = EnqueueTick(u)
        BY <2>1, <3>1, Appended
      <4>2. promise[u] # "none"
        BY <3>1, <4>1 DEF Fresh
      <4> QED
        BY <2>8, <4>2
    <3>2. CASE i = Len(ticks) + 1
      <4>1. EnqueueTick(u) = EnqueueTick(t)
        BY <2>1, <3>2, Appended
      <4>2. u = t
        BY <4>1, TicksAreTicks
      <4> QED
        BY <2>2, <4>2 DEF TypeOK
    <3>3. i \in DOMAIN ticks \/ i = Len(ticks) + 1
      <4>1. ticks \in Seq(Tick)
        BY DEF TypeOK
      <4> QED
        BY <2>1, <4>1, Appended
    <3> QED
      BY <3>1, <3>2, <3>3
  <2>10. /\ \A u \in inflight' : promise'[u] # "none"
         /\ \A i \in DOMAIN queue' : promise'[queue'[i]] # "none"
         /\ \A u \in Task : stage'[u] # "new" => promise'[u] # "none"
    BY <2>2, <2>8 DEF Fresh, TypeOK
  <2>11. Fresh'
    BY <2>9, <2>10 DEF Fresh
  <2> QED
    BY <2>4, <2>5, <2>7, <2>11
<1>2. CASE Signal \/ Return \/ Run \/ SignalFires \/ LoopReturns \/ Stopped \/ UNCHANGED vars
  <2>1. UNCHANGED <<queue, inflight, ticks, promise, stage, running>>
    BY <1>2 DEF Signal, Return, Run, Open, SignalFires, LoopReturns, Stopped, Close, vars,
       executorVars, loopVars, taskVars
  <2>2. open' \in BOOLEAN
    BY <1>2 DEF Signal, Return, Run, Open, SignalFires, LoopReturns, Stopped, Close, vars,
       executorVars, TypeOK
  <2>3. live' \in BOOLEAN /\ loop' \in LoopState
    BY <1>2 DEF Signal, Return, Run, Open, SignalFires, LoopReturns, Stopped, Close, vars,
       loopVars, TypeOK, LoopState
  <2> QED
    BY <2>1, <2>2, <2>3 DEF TypeOK, SettleTickSynced, Synced, Fresh
<1>3. CASE ExitLoop
  <2>1. ExitTick \in Tick /\ NextTick(ExitTick) /\ live' = FALSE
    BY <1>3, TicksAreTicks DEF ExitLoop
  <2>2. UNCHANGED <<queue, inflight, open, loop, promise, stage, running>>
    BY <1>3 DEF ExitLoop, executorVars, taskVars
  <2>3. TypeOK'
    BY <2>1, <2>2, Appended DEF TypeOK
  <2>4. SettleTickSynced'
    BY <2>1, <2>2, Appended, TicksAreTicks DEF SettleTickSynced
  <2>5. Synced' /\ Fresh'
    BY <2>1, <2>2, Appended, TicksAreTicks DEF Synced, Fresh
  <2> QED
    BY <2>3, <2>4, <2>5
<1>4. ASSUME NEW t \in Task, TickEnqueues(t) PROVE LoopInv'
  <2>1. TakeTick(EnqueueTick(t)) /\ queue' = Append(queue, t)
        /\ UNCHANGED <<inflight, open, live, loop, promise, stage, running>>
    BY <1>4 DEF TickEnqueues, Submit, taskVars
  <2>2. queue \in Seq(Task)
    BY DEF TypeOK
  <2>3. /\ queue' \in Seq(Task)
        /\ DOMAIN queue' = 1 .. Len(queue) + 1
        /\ DOMAIN queue = 1 .. Len(queue)
        /\ \A i \in DOMAIN queue : queue'[i] = queue[i]
        /\ queue'[Len(queue) + 1] = t
    BY <2>1, <2>2, AppendProperties
  <2>4. promise[t] # "none"
    BY <2>1, Taken DEF Fresh
  <2>5. TypeOK'
    BY <2>1, <2>3, Taken DEF TypeOK
  <2>6. SettleTickSynced'
    BY <2>1, Taken DEF SettleTickSynced
  <2>7. Synced'
    BY <2>1 DEF Synced
  <2>8. \A i \in DOMAIN queue' : promise[queue'[i]] # "none"
    BY <2>3, <2>4 DEF Fresh
  <2>9. \A i \in DOMAIN ticks' : \A u \in Task : ticks'[i] = EnqueueTick(u) => promise[u] # "none"
    BY <2>1, Taken DEF Fresh
  <2>10. Fresh'
    BY <2>1, <2>8, <2>9 DEF Fresh
  <2> QED
    BY <2>5, <2>6, <2>7, <2>10
<1>5. ASSUME NEW t \in Task, TickSettles(t) PROVE LoopInv'
  <2>1. PICK tick \in Tick, p \in {"resolved", "rejected"} :
            TakeTick(tick) /\ promise' = [promise EXCEPT ![t] = p]
    BY <1>5, TicksAreTicks DEF TickSettles
  <2>2. loop' = "callback" /\ UNCHANGED <<queue, inflight, open, live, stage, running>>
    BY <1>5 DEF TickSettles, executorVars
  <2>3. promise' \in [Task -> PromiseState]
        /\ \A u \in Task : promise[u] # "none" => promise'[u] # "none"
    BY <2>1 DEF TypeOK, PromiseState
  <2>4. TypeOK'
    BY <2>1, <2>2, <2>3, Taken DEF TypeOK, LoopState
  <2>5. SettleTickSynced'
    BY <2>1, <2>2, Taken DEF SettleTickSynced
  <2>6. Synced'
    BY <2>2 DEF Synced
  <2>7. Fresh'
    BY <2>1, <2>2, <2>3, Taken DEF Fresh, TypeOK
  <2> QED
    BY <2>4, <2>5, <2>6, <2>7
<1>6. CASE TickExits
  <2>1. TakeTick(ExitTick) /\ loop' = "stopping"
        /\ UNCHANGED <<queue, inflight, open, live, promise, stage, running>>
    BY <1>6 DEF TickExits, executorVars, taskVars
  <2>2. TypeOK'
    BY <2>1, Taken DEF TypeOK, LoopState
  <2>3. SettleTickSynced' /\ Synced' /\ Fresh'
    BY <2>1, Taken DEF SettleTickSynced, Synced, Fresh
  <2> QED
    BY <2>2, <2>3
<1>7. CASE TaskBegins
  <2>1. /\ queue # <<>>
        /\ inflight' = inflight \union {Head(queue)}
        /\ queue' = Tail(queue)
        /\ UNCHANGED <<open, ticks, live, loop, promise, stage, running>>
    BY <1>7 DEF TaskBegins, Begin, loopVars, taskVars
  <2>2. queue \in Seq(Task)
    BY DEF TypeOK
  <2>3. /\ queue' \in Seq(Task)
        /\ Head(queue) = queue[1] /\ 1 \in DOMAIN queue /\ Head(queue) \in Task
        /\ \A i \in DOMAIN queue' : i + 1 \in DOMAIN queue /\ queue'[i] = queue[i + 1]
    BY <2>1, <2>2, HeadTailProperties
  <2>4. TypeOK'
    BY <2>1, <2>3 DEF TypeOK
  <2>5. SettleTickSynced' /\ Synced'
    BY <2>1 DEF SettleTickSynced, Synced
  <2>6. Fresh'
    BY <2>1, <2>3 DEF Fresh
  <2> QED
    BY <2>4, <2>5, <2>6
<1>8. ASSUME NEW t \in Task, TaskComputes(t) PROVE LoopInv'
  <2>1. PICK how \in {"returned", "threw"} : stage' = [stage EXCEPT ![t] = how]
    BY <1>8 DEF TaskComputes
  <2>2. /\ t \in inflight /\ stage[t] = "new"
        /\ running' = [running EXCEPT ![t] = FALSE]
        /\ UNCHANGED <<queue, inflight, open, ticks, live, loop, promise>>
    BY <1>8 DEF TaskComputes, executorVars, loopVars
  <2>3. stage' \in [Task -> Stage] /\ running' \in [Task -> BOOLEAN]
    BY <2>1, <2>2 DEF TypeOK, Stage
  <2>4. TypeOK'
    BY <2>2, <2>3 DEF TypeOK
  <2>5. \A u \in Task : stage[u] = "posted" => stage'[u] = "posted"
    BY <2>1, <2>2 DEF TypeOK
  <2>6. SettleTickSynced'
    BY <2>2, <2>5 DEF SettleTickSynced
  <2>7. Synced'
    BY <2>1, <2>2 DEF Synced, TypeOK
  <2>8. Fresh'
    BY <2>1, <2>2 DEF Fresh, TypeOK
  <2> QED
    BY <2>4, <2>6, <2>7, <2>8
<1>9. ASSUME NEW t \in Task, TaskPosts(t) PROVE LoopInv'
  <2>1. PICK tick \in {ResolveTick(t), RejectTick(t)} : NextTick(tick)
    BY <1>9 DEF TaskPosts
  <2>2. /\ t \in inflight /\ stage[t] # "new"
        /\ stage' = [stage EXCEPT ![t] = "posted"]
        /\ UNCHANGED <<queue, inflight, open, live, loop, promise, running>>
    BY <1>9 DEF TaskPosts, executorVars
  <2>3. tick \in Tick
    BY TicksAreTicks
  <2>4. stage' \in [Task -> Stage]
    BY <2>2 DEF TypeOK, Stage
  <2>5. TypeOK'
    BY <2>1, <2>2, <2>3, <2>4, Appended DEF TypeOK
  <2>6. stage'[t] = "posted" /\ \A u \in Task : stage[u] = "posted" => stage'[u] = "posted"
    BY <2>2 DEF TypeOK
  <2>7. \A u \in Task : tick \in {ResolveTick(u), RejectTick(u)} => u = t
    BY TicksAreTicks
  <2>8. SettleTickSynced'
    BY <2>1, <2>3, <2>6, <2>7, Appended DEF SettleTickSynced
  <2>9. Synced'
    BY <2>2 DEF Synced, TypeOK
  <2>10. \A u \in Task : tick # EnqueueTick(u)
    BY TicksAreTicks
  <2>11. Fresh'
    <3>1. promise[t] # "none"
      BY <2>2 DEF Fresh
    <3>2. \A u \in Task : stage'[u] # "new" => promise'[u] # "none"
      BY <2>2, <3>1 DEF Fresh, TypeOK
    <3>3. \A i \in DOMAIN ticks' : \A u \in Task : ticks'[i] = EnqueueTick(u) => promise[u] # "none"
      <4>1. \A i \in DOMAIN ticks : ticks'[i] = ticks[i]
        BY <2>1, <2>3, Appended
      <4>2. \A i \in DOMAIN ticks' : i \in DOMAIN ticks \/ ticks'[i] = tick
        <5>1. ticks \in Seq(Tick)
          BY DEF TypeOK
        <5> QED
          BY <2>1, <2>3, <5>1, Appended
      <4> QED
        BY <2>10, <4>1, <4>2 DEF Fresh
    <3> QED
      BY <2>2, <3>2, <3>3 DEF Fresh
  <2> QED
    BY <2>5, <2>8, <2>9, <2>11
<1>10. ASSUME NEW t \in Task, TaskEnds(t) PROVE LoopInv'
  <2>1. /\ inflight' = inflight \ {t}
        /\ UNCHANGED <<queue, open, ticks, live, loop, promise, stage, running>>
    BY <1>10 DEF TaskEnds, Finish, loopVars, taskVars
  <2> QED
    BY <2>1 DEF TypeOK, SettleTickSynced, Synced, Fresh
<1> QED
  BY <1>1, <1>2, <1>3, <1>4, <1>5, <1>6, <1>7, <1>8, <1>9, <1>10
     DEF Next, ProgramStep, LoopStep, WorkerStep

\* Type correctness and the strengthening, in every reachable state.
THEOREM LoopInvariant == Spec => []LoopInv
BY InitLoopInv, NextLoopInv, PTL DEF Spec

\* The loop thread never waits in task_synchronize_main for a worker (task.h).
THEOREM LoopNeverSpinsHolds == Spec => []LoopNeverSpins
<1>1. LoopInv => LoopNeverSpins
  <2> SUFFICES ASSUME LoopInv, ticks # <<>>, NEW t \in Task,
                      Head(ticks) \in {ResolveTick(t), RejectTick(t)}
               PROVE  ~running[t]
    BY DEF LoopNeverSpins
  <2>1. 1 \in DOMAIN ticks /\ Head(ticks) = ticks[1]
    BY DEF LoopInv, TypeOK
  <2>2. stage[t] = "posted"
    BY <2>1 DEF LoopInv, SettleTickSynced
  <2> QED
    BY <2>2 DEF LoopInv, Synced
<1> QED
  BY <1>1, LoopInvariant, PTL
-----------------------------------------------------------------------------
(* OneCustodian.  The custodians of a task are counted by saying of each place *)
(* that the task is there once, and in no other; each hop of the task takes    *)
(* one place away and gives one.                                               *)

AtTick(t, i) == i \in DOMAIN ticks /\ ticks[i] \in {EnqueueTick(t), ResolveTick(t), RejectTick(t)}
AtQueue(t, i) == i \in DOMAIN queue /\ queue[i] = t
AtWorker(t) == t \in inflight /\ stage[t] # "posted"

Held(t) == (\E i \in Nat : AtTick(t, i)) \/ (\E i \in Nat : AtQueue(t, i)) \/ AtWorker(t)

\* in one place, once
Once(t) ==
    /\ \A i, j \in Nat : AtTick(t, i) /\ AtTick(t, j) => i = j
    /\ \A i, j \in Nat : AtQueue(t, i) /\ AtQueue(t, j) => i = j
    /\ \A i, j \in Nat : ~(AtTick(t, i) /\ AtQueue(t, j))
    /\ \A i \in Nat : AtWorker(t) => ~AtTick(t, i) /\ ~AtQueue(t, i)

\* before the pool has it, no worker has touched it
Untouched(t) ==
    /\ \A i \in DOMAIN ticks : ticks[i] = EnqueueTick(t) => stage[t] = "new"
    /\ \A i \in Nat : AtQueue(t, i) => stage[t] = "new"

Custody(t) == (promise[t] = "pending" <=> Held(t)) /\ Once(t) /\ Untouched(t)

Custodial == \A t \in Task : Custody(t)

\* the places of a task after nextTick()
LEMMA AppendedAt ==
    ASSUME NEW tick \in Tick, TypeOK, NextTick(tick), NEW u \in Task
    PROVE  \A i \in Nat : AtTick(u, i)' <=>
              AtTick(u, i) \/ (i = Len(ticks) + 1 /\ tick \in {EnqueueTick(u), ResolveTick(u), RejectTick(u)})
<1>1. ticks \in Seq(Tick) /\ Len(ticks) \in Nat
  BY DEF TypeOK
<1> QED
  BY <1>1, Appended DEF AtTick

\* ... and after the oldest tick was taken
LEMMA TakenAt ==
    ASSUME TypeOK, NEW tick, TakeTick(tick), NEW u \in Task
    PROVE  /\ \A i \in Nat : AtTick(u, i)' <=> i # 0 /\ AtTick(u, i + 1)
           /\ AtTick(u, 1) <=> tick \in {EnqueueTick(u), ResolveTick(u), RejectTick(u)}
           /\ ~AtTick(u, 0)
<1>1. ticks \in Seq(Tick) /\ ticks # <<>> /\ ticks' = Tail(ticks) /\ tick = ticks[1]
  BY DEF TypeOK, TakeTick
<1>2. /\ Len(ticks) \in Nat \ {0} /\ DOMAIN ticks = 1 .. Len(ticks)
      /\ Len(ticks') = Len(ticks) - 1 /\ DOMAIN ticks' = 1 .. Len(ticks')
      /\ \A i \in 1 .. Len(ticks') : ticks'[i] = ticks[i + 1]
  BY <1>1, HeadTailProperties, LenProperties, EmptySeq
<1> QED
  BY <1>1, <1>2 DEF AtTick

LEMMA InitCustodial == Init => Custodial
<1> SUFFICES ASSUME Init, NEW t \in Task PROVE Custody(t)
  BY DEF Custodial
<1>1. queue = <<>> /\ ticks = <<>> /\ inflight = {} /\ promise[t] = "none"
  BY DEF Init, ExecutorInit
<1>2. ~AtWorker(t) /\ \A i \in Nat : ~AtTick(t, i) /\ ~AtQueue(t, i)
  BY <1>1 DEF AtWorker, AtTick, AtQueue
<1>3. Untouched(t)
  BY <1>1, <1>2 DEF Untouched
<1> QED
  BY <1>1, <1>2, <1>3 DEF Custody, Held, Once

\* A step that leaves the places of a task and its promise alone keeps its custody.
LEMMA SameCustody ==
    ASSUME NEW u \in Task, Custody(u), promise'[u] = promise[u], stage'[u] = stage[u],
           \A i \in Nat : AtTick(u, i)' <=> AtTick(u, i),
           \A i \in Nat : AtQueue(u, i)' <=> AtQueue(u, i),
           u \in inflight' <=> u \in inflight,
           \A i \in DOMAIN ticks' : ticks'[i] = EnqueueTick(u) => \E j \in DOMAIN ticks : ticks[j] = EnqueueTick(u)
    PROVE  Custody(u)'
BY DEF Custody, Held, Once, Untouched, AtWorker

\* The oldest tick was taken, and it was not of this task.
Shifted(u) ==
    /\ \A i \in Nat : AtTick(u, i)' <=> i # 0 /\ AtTick(u, i + 1)
    /\ ~AtTick(u, 0) /\ ~AtTick(u, 1)
    /\ \A i \in DOMAIN ticks' : i + 1 \in DOMAIN ticks /\ ticks'[i] = ticks[i + 1]

LEMMA ShiftedCustody ==
    ASSUME NEW u \in Task, Custody(u), Shifted(u),
           promise'[u] = promise[u], stage'[u] = stage[u],
           \A i \in Nat : AtQueue(u, i)' <=> AtQueue(u, i),
           u \in inflight' <=> u \in inflight
    PROVE  Custody(u)'
<1>1. AtWorker(u)' <=> AtWorker(u)
  BY DEF AtWorker
<1>2. \A i \in Nat : AtTick(u, i)' => i + 1 \in Nat /\ AtTick(u, i + 1)
  BY DEF Shifted
<1>3. \A i \in Nat : AtTick(u, i) => i - 1 \in Nat /\ AtTick(u, i - 1)'
  BY DEF Shifted
<1>4. Held(u)' <=> Held(u)
  <2>1. Held(u)' => Held(u)
    BY <1>1, <1>2 DEF Held
  <2>2. Held(u) => Held(u)'
    BY <1>1, <1>3 DEF Held
  <2> QED
    BY <2>1, <2>2
<1>5. \A i, j \in Nat : AtTick(u, i)' /\ AtTick(u, j)' => i = j
  <2>1. \A i, j \in Nat : AtTick(u, i + 1) /\ AtTick(u, j + 1) => i + 1 = j + 1
    BY DEF Custody, Once
  <2> QED
    BY <1>2, <2>1
<1>6. Once(u)'
  BY <1>1, <1>2, <1>5 DEF Custody, Once
<1>7. Untouched(u)'
  BY DEF Custody, Untouched, Shifted
<1> QED
  BY <1>4, <1>6, <1>7 DEF Custody

LEMMA NextCustodial == LoopInv /\ Custodial /\ [Next]_vars => Custodial'
<1> SUFFICES ASSUME LoopInv, Custodial, [Next]_vars, NEW u \in Task PROVE Custody(u)'
  BY DEF Custodial
<1>0. TypeOK /\ Fresh /\ Custody(u)
  BY DEF LoopInv, Custodial
<1>1. ASSUME NEW t \in Task, Exec(t) PROVE Custody(u)'
  <2>1. EnqueueTick(t) \in Tick /\ NextTick(EnqueueTick(t))
    BY <1>1, TicksAreTicks DEF Exec
  <2>2. /\ promise[t] = "none" /\ promise' = [promise EXCEPT ![t] = "pending"]
        /\ UNCHANGED <<queue, inflight, stage>>
    BY <1>1 DEF Exec, executorVars
  <2>3. ticks \in Seq(Tick) /\ Len(ticks) \in Nat /\ DOMAIN ticks = 1 .. Len(ticks)
    BY <1>0 DEF TypeOK
  <2>4. \A i \in Nat : AtQueue(u, i)' <=> AtQueue(u, i)
    BY <2>2 DEF AtQueue
  <2>5. CASE u = t
    <3>1. ~Held(u)
      BY <1>0, <2>2, <2>5 DEF Custody
    <3>2. \A i \in Nat : AtTick(u, i)' <=> i = Len(ticks) + 1
      BY <1>0, <2>1, <2>5, <3>1, AppendedAt DEF Held
    <3>3. stage'[u] = "new" /\ promise'[u] = "pending"
      BY <1>0, <2>2, <2>5 DEF Fresh, TypeOK
    <3>4. Held(u)'
      BY <2>3, <3>2 DEF Held
    <3>5. \A i \in Nat : ~AtQueue(u, i)'
      BY <2>4, <3>1 DEF Held
    <3>6. ~AtWorker(u)'
      BY <2>2, <3>1 DEF Held, AtWorker
    <3> QED
      BY <2>3, <3>2, <3>3, <3>4, <3>5, <3>6 DEF Custody, Once, Untouched
  <2>6. CASE u # t
    <3>1. EnqueueTick(t) \notin {EnqueueTick(u), ResolveTick(u), RejectTick(u)}
      BY <2>6, TicksAreTicks
    <3>2. \A i \in Nat : AtTick(u, i)' <=> AtTick(u, i)
      BY <1>0, <2>1, <3>1, AppendedAt
    <3>3. \A i \in DOMAIN ticks' : ticks'[i] = EnqueueTick(u) => i \in DOMAIN ticks /\ ticks[i] = EnqueueTick(u)
      BY <1>0, <2>1, <2>3, <3>1, Appended
    <3>4. promise'[u] = promise[u]
      BY <1>0, <2>2, <2>6 DEF TypeOK
    <3> QED
      BY <1>0, <2>2, <2>4, <3>2, <3>3, <3>4, SameCustody
  <2> QED
    BY <2>5, <2>6
<1>2. CASE Signal \/ Return \/ Run \/ SignalFires \/ LoopReturns \/ Stopped \/ UNCHANGED vars
  <2>1. UNCHANGED <<queue, inflight, ticks, promise, stage, running>>
    BY <1>2 DEF Signal, Return, Run, Open, SignalFires, LoopReturns, Stopped, Close, vars,
       executorVars, loopVars, taskVars
  <2> QED
    BY <1>0, <2>1 DEF Custody, Held, Once, Untouched, AtTick, AtQueue, AtWorker
<1>3. CASE ExitLoop
  <2>1. ExitTick \in Tick /\ NextTick(ExitTick)
    BY <1>3, TicksAreTicks DEF ExitLoop
  <2>2. UNCHANGED <<queue, inflight, promise, stage>>
    BY <1>3 DEF ExitLoop, executorVars, taskVars
  <2>3. ticks \in Seq(Tick) /\ Len(ticks) \in Nat /\ DOMAIN ticks = 1 .. Len(ticks)
    BY <1>0 DEF TypeOK
  <2>4. \A i \in Nat : AtTick(u, i)' <=> AtTick(u, i)
    BY <1>0, <2>1, AppendedAt, TicksAreTicks
  <2>5. \A i \in DOMAIN ticks' : ticks'[i] = EnqueueTick(u) => i \in DOMAIN ticks /\ ticks[i] = EnqueueTick(u)
    BY <1>0, <2>1, <2>3, Appended, TicksAreTicks
  <2>6. \A i \in Nat : AtQueue(u, i)' <=> AtQueue(u, i)
    BY <2>2 DEF AtQueue
  <2> QED
    BY <1>0, <2>2, <2>4, <2>5, <2>6, SameCustody
<1>4. ASSUME NEW t \in Task, TickEnqueues(t) PROVE Custody(u)'
  <2>1. TakeTick(EnqueueTick(t)) /\ queue' = Append(queue, t)
        /\ UNCHANGED <<inflight, promise, stage>>
    BY <1>4 DEF TickEnqueues, Submit, taskVars
  <2>2. queue \in Seq(Task) /\ Len(queue) \in Nat
    BY <1>0 DEF TypeOK
  <2>3. \A i \in Nat : AtQueue(u, i)' <=> AtQueue(u, i) \/ (i = Len(queue) + 1 /\ u = t)
    BY <2>1, <2>2, AppendProperties DEF AtQueue
  <2>4. /\ \A i \in Nat : AtTick(u, i)' <=> i # 0 /\ AtTick(u, i + 1)
        /\ AtTick(u, 1) <=> EnqueueTick(t) \in {EnqueueTick(u), ResolveTick(u), RejectTick(u)}
        /\ ~AtTick(u, 0)
    BY <1>0, <2>1, TakenAt
  <2>5. \A i \in DOMAIN ticks' : i + 1 \in DOMAIN ticks /\ ticks'[i] = ticks[i + 1]
    BY <1>0, <2>1, Taken
  <2>6. CASE u = t
    <3>1. AtTick(u, 1)
      BY <2>4, <2>6
    <3>2. \A i \in Nat : ~AtTick(u, i)'
      BY <1>0, <2>4, <3>1 DEF Custody, Once
    <3>3. \A i \in Nat : AtQueue(u, i)' <=> i = Len(queue) + 1
      BY <1>0, <2>3, <2>6, <3>1 DEF Custody, Once
    <3>4. ~AtWorker(u)'
      BY <1>0, <2>1, <3>1 DEF Custody, Once, AtWorker
    <3>5. promise'[u] = "pending"
      BY <1>0, <2>1, <3>1 DEF Custody, Held
    <3>6. stage'[u] = "new"
      <4>1. 1 \in DOMAIN ticks /\ ticks[1] = EnqueueTick(u)
        BY <1>0, <2>1, <2>6, Taken
      <4> QED
        BY <1>0, <2>1, <4>1 DEF Custody, Untouched
    <3>7. \A i \in DOMAIN ticks' : ticks'[i] # EnqueueTick(u)
      <4>1. \A i \in DOMAIN ticks' : i \in Nat
        BY <1>0, <2>1, Taken DEF TypeOK
      <4> QED
        BY <3>2, <4>1 DEF AtTick
    <3>8. Held(u)'
      BY <2>2, <3>3 DEF Held
    <3> QED
      BY <2>2, <3>2, <3>3, <3>4, <3>5, <3>6, <3>7, <3>8 DEF Custody, Once, Untouched
  <2>7. CASE u # t
    <3>1. EnqueueTick(t) \notin {EnqueueTick(u), ResolveTick(u), RejectTick(u)}
      BY <2>7, TicksAreTicks
    <3>2. Shifted(u)
      BY <2>4, <2>5, <3>1 DEF Shifted
    <3> QED
      BY <1>0, <2>1, <2>3, <2>7, <3>2, ShiftedCustody
  <2> QED
    BY <2>6, <2>7
<1>5. ASSUME NEW t \in Task, TickSettles(t) PROVE Custody(u)'
  <2>1. PICK tick \in {ResolveTick(t), RejectTick(t)}, p \in {"resolved", "rejected"} :
            TakeTick(tick) /\ promise' = [promise EXCEPT ![t] = p]
    BY <1>5 DEF TickSettles
  <2>2. UNCHANGED <<queue, inflight, stage>>
    BY <1>5 DEF TickSettles, executorVars
  <2>3. \A i \in Nat : AtQueue(u, i)' <=> AtQueue(u, i)
    BY <2>2 DEF AtQueue
  <2>4. /\ \A i \in Nat : AtTick(u, i)' <=> i # 0 /\ AtTick(u, i + 1)
        /\ AtTick(u, 1) <=> tick \in {EnqueueTick(u), ResolveTick(u), RejectTick(u)}
        /\ ~AtTick(u, 0)
    BY <1>0, <2>1, TakenAt
  <2>5. \A i \in DOMAIN ticks' : i + 1 \in DOMAIN ticks /\ ticks'[i] = ticks[i + 1]
    BY <1>0, <2>1, Taken
  <2>6. CASE u = t
    <3>1. AtTick(u, 1)
      BY <2>1, <2>4, <2>6
    <3>2. \A i \in Nat : ~AtTick(u, i)'
      BY <1>0, <2>4, <3>1 DEF Custody, Once
    <3>3. \A i \in Nat : ~AtQueue(u, i)'
      BY <1>0, <2>3, <3>1 DEF Custody, Once
    <3>4. ~AtWorker(u)'
      BY <1>0, <2>2, <3>1 DEF Custody, Once, AtWorker
    <3>5. promise'[u] # "pending"
      BY <1>0, <2>1, <2>6 DEF TypeOK
    <3>6. \A i \in DOMAIN ticks' : ticks'[i] # EnqueueTick(u)
      <4>1. \A i \in DOMAIN ticks' : i \in Nat
        BY <1>0, <2>1, Taken DEF TypeOK
      <4> QED
        BY <3>2, <4>1 DEF AtTick
    <3>7. ~Held(u)'
      BY <3>2, <3>3, <3>4 DEF Held
    <3> QED
      BY <3>2, <3>3, <3>5, <3>6, <3>7 DEF Custody, Once, Untouched
  <2>7. CASE u # t
    <3>1. tick \notin {EnqueueTick(u), ResolveTick(u), RejectTick(u)}
      BY <2>1, <2>7, TicksAreTicks
    <3>2. Shifted(u)
      BY <2>4, <2>5, <3>1 DEF Shifted
    <3>3. promise'[u] = promise[u]
      BY <1>0, <2>1, <2>7 DEF TypeOK
    <3> QED
      BY <1>0, <2>2, <2>3, <3>2, <3>3, ShiftedCustody
  <2> QED
    BY <2>6, <2>7
<1>6. CASE TickExits
  <2>1. TakeTick(ExitTick) /\ UNCHANGED <<queue, inflight, promise, stage>>
    BY <1>6 DEF TickExits, executorVars, taskVars
  <2>2. /\ \A i \in Nat : AtTick(u, i)' <=> i # 0 /\ AtTick(u, i + 1)
        /\ ~AtTick(u, 1) /\ ~AtTick(u, 0)
    BY <1>0, <2>1, TakenAt, TicksAreTicks
  <2>3. \A i \in DOMAIN ticks' : i + 1 \in DOMAIN ticks /\ ticks'[i] = ticks[i + 1]
    BY <1>0, <2>1, Taken
  <2>4. Shifted(u)
    BY <2>2, <2>3 DEF Shifted
  <2>5. \A i \in Nat : AtQueue(u, i)' <=> AtQueue(u, i)
    BY <2>1 DEF AtQueue
  <2> QED
    BY <1>0, <2>1, <2>4, <2>5, ShiftedCustody
<1>7. CASE TaskBegins
  <2>1. /\ queue # <<>>
        /\ inflight' = inflight \union {Head(queue)}
        /\ queue' = Tail(queue)
        /\ UNCHANGED <<ticks, promise, stage>>
    BY <1>7 DEF TaskBegins, Begin, loopVars, taskVars
  <2>2. queue \in Seq(Task)
    BY <1>0 DEF TypeOK
  <2>3. /\ Len(queue) \in Nat \ {0} /\ DOMAIN queue = 1 .. Len(queue) /\ Head(queue) = queue[1]
        /\ Len(queue') = Len(queue) - 1 /\ DOMAIN queue' = 1 .. Len(queue')
        /\ \A i \in 1 .. Len(queue') : queue'[i] = queue[i + 1]
    BY <2>1, <2>2, HeadTailProperties, LenProperties, EmptySeq
  <2>4. \A i \in Nat : AtTick(u, i)' <=> AtTick(u, i)
    BY <2>1 DEF AtTick
  <2>5. \A i \in Nat : AtQueue(u, i)' <=> i # 0 /\ AtQueue(u, i + 1)
    BY <2>3 DEF AtQueue
  <2>6. (AtQueue(u, 1) <=> u = Head(queue)) /\ ~AtQueue(u, 0)
    BY <2>3 DEF AtQueue
  <2>7. Untouched(u)'
    <3>1. \A i \in Nat : AtQueue(u, i)' => stage[u] = "new"
      BY <1>0, <2>5 DEF Custody, Untouched
    <3> QED
      BY <1>0, <2>1, <3>1 DEF Custody, Untouched
  <2>8. CASE u = Head(queue)
    <3>1. AtQueue(u, 1)
      BY <2>6, <2>8
    <3>2. \A i \in Nat : ~AtQueue(u, i)'
      BY <1>0, <2>5, <3>1 DEF Custody, Once
    <3>3. \A i \in Nat : ~AtTick(u, i)'
      BY <1>0, <2>4, <3>1 DEF Custody, Once
    <3>4. AtWorker(u)'
      BY <1>0, <2>1, <2>8, <3>1 DEF Custody, Untouched, AtWorker
    <3>5. promise'[u] = "pending"
      BY <1>0, <2>1, <3>1 DEF Custody, Held
    <3>6. Held(u)' /\ Once(u)'
      BY <3>2, <3>3, <3>4 DEF Held, Once
    <3> QED
      BY <2>7, <3>5, <3>6 DEF Custody
  <2>9. CASE u # Head(queue)
    <3>1. AtWorker(u)' <=> AtWorker(u)
      BY <2>1, <2>9 DEF AtWorker
    <3>2. \A i \in Nat : AtQueue(u, i) => i # 0 /\ i # 1 /\ i - 1 \in Nat /\ AtQueue(u, i - 1)'
      BY <2>5, <2>6, <2>9
    <3>3. Held(u)' <=> Held(u)
      <4>1. Held(u)' => Held(u)
        <5>1. \A i \in Nat : AtQueue(u, i)' => i + 1 \in Nat /\ AtQueue(u, i + 1)
          BY <2>5
        <5> QED
          BY <2>4, <3>1, <5>1 DEF Held
      <4>2. Held(u) => Held(u)'
        BY <2>4, <3>1, <3>2 DEF Held
      <4> QED
        BY <4>1, <4>2
    <3>4. \A i, j \in Nat : AtQueue(u, i)' /\ AtQueue(u, j)' => i = j
      <4>1. \A i, j \in Nat : AtQueue(u, i + 1) /\ AtQueue(u, j + 1) => i + 1 = j + 1
        BY <1>0 DEF Custody, Once
      <4> QED
        BY <2>5, <4>1
    <3>5. Once(u)'
      BY <1>0, <2>4, <2>5, <3>1, <3>4 DEF Custody, Once
    <3> QED
      BY <1>0, <2>1, <2>7, <3>3, <3>5 DEF Custody
  <2> QED
    BY <2>8, <2>9
<1>8. ASSUME NEW t \in Task, TaskComputes(t) PROVE Custody(u)'
  <2>1. PICK how \in {"returned", "threw"} : stage' = [stage EXCEPT ![t] = how]
    BY <1>8 DEF TaskComputes
  <2>2. t \in inflight /\ stage[t] = "new" /\ UNCHANGED <<queue, inflight, ticks, promise>>
    BY <1>8 DEF TaskComputes, executorVars, loopVars
  <2>3. \A i \in Nat : (AtTick(u, i)' <=> AtTick(u, i)) /\ (AtQueue(u, i)' <=> AtQueue(u, i))
    BY <2>2 DEF AtTick, AtQueue
  <2>4. AtWorker(u)' <=> AtWorker(u)
    BY <1>0, <2>1, <2>2 DEF AtWorker, TypeOK
  <2>5. Untouched(u)'
    <3>1. CASE u = t
      <4>1. AtWorker(u)
        BY <2>2, <3>1 DEF AtWorker
      <4>2. \A i \in Nat : ~AtTick(u, i) /\ ~AtQueue(u, i)
        BY <1>0, <4>1 DEF Custody, Once
      <4>3. \A i \in DOMAIN ticks : i \in Nat
        BY <1>0 DEF TypeOK
      <4>4. \A i \in DOMAIN ticks' : ticks'[i] # EnqueueTick(u)
        BY <2>2, <4>2, <4>3 DEF AtTick
      <4> QED
        BY <2>3, <4>2, <4>4 DEF Untouched
    <3>2. CASE u # t
      <4>1. stage'[u] = stage[u]
        BY <1>0, <2>1, <3>2 DEF TypeOK
      <4> QED
        BY <1>0, <2>2, <2>3, <4>1 DEF Custody, Untouched
    <3> QED
      BY <3>1, <3>2
  <2>6. (Held(u)' <=> Held(u)) /\ (Once(u)' <=> Once(u))
    BY <2>3, <2>4 DEF Held, Once
  <2> QED
    BY <1>0, <2>2, <2>5, <2>6 DEF Custody
<1>9. ASSUME NEW t \in Task, TaskPosts(t) PROVE Custody(u)'
  <2>1. PICK tick \in {ResolveTick(t), RejectTick(t)} : NextTick(tick)
    BY <1>9 DEF TaskPosts
  <2>2. /\ t \in inflight /\ stage[t] \in {"returned", "threw"}
        /\ stage' = [stage EXCEPT ![t] = "posted"]
        /\ UNCHANGED <<queue, inflight, promise>>
    BY <1>9 DEF TaskPosts, executorVars
  <2>3. tick \in Tick
    BY TicksAreTicks
  <2>4. ticks \in Seq(Tick) /\ Len(ticks) \in Nat /\ DOMAIN ticks = 1 .. Len(ticks)
    BY <1>0 DEF TypeOK
  <2>5. \A i \in Nat : AtQueue(u, i)' <=> AtQueue(u, i)
    BY <2>2 DEF AtQueue
  <2>6. \A i \in DOMAIN ticks' : ticks'[i] = EnqueueTick(u) => i \in DOMAIN ticks /\ ticks[i] = EnqueueTick(u)
    BY <1>0, <2>1, <2>3, <2>4, Appended, TicksAreTicks
  <2>7. CASE u = t
    <3>1. AtWorker(u)
      BY <2>2, <2>7 DEF AtWorker
    <3>2. \A i \in Nat : ~AtTick(u, i) /\ ~AtQueue(u, i)
      BY <1>0, <3>1 DEF Custody, Once
    <3>3. \A i \in Nat : AtTick(u, i)' <=> i = Len(ticks) + 1
      BY <1>0, <2>1, <2>3, <2>7, <3>2, AppendedAt
    <3>4. \A i \in Nat : ~AtQueue(u, i)'
      BY <2>5, <3>2
    <3>5. ~AtWorker(u)'
      BY <1>0, <2>2, <2>7 DEF AtWorker, TypeOK
    <3>6. promise'[u] = "pending"
      BY <1>0, <2>2, <3>1 DEF Custody, Held
    <3>7. Held(u)' /\ Once(u)'
      BY <2>4, <3>3, <3>4, <3>5 DEF Held, Once
    <3>8. Untouched(u)'
      <4>1. \A i \in DOMAIN ticks : i \in Nat
        BY <2>4
      <4>2. \A i \in DOMAIN ticks' : ticks'[i] # EnqueueTick(u)
        BY <2>6, <3>2, <4>1 DEF AtTick
      <4> QED
        BY <3>4, <4>2 DEF Untouched
    <3> QED
      BY <3>6, <3>7, <3>8 DEF Custody
  <2>8. CASE u # t
    <3>1. tick \notin {EnqueueTick(u), ResolveTick(u), RejectTick(u)}
      BY <2>8, TicksAreTicks
    <3>2. \A i \in Nat : AtTick(u, i)' <=> AtTick(u, i)
      BY <1>0, <2>1, <2>3, <3>1, AppendedAt
    <3>3. stage'[u] = stage[u]
      BY <1>0, <2>2, <2>8 DEF TypeOK
    <3> QED
      BY <1>0, <2>2, <2>5, <2>6, <3>2, <3>3, SameCustody
  <2> QED
    BY <2>7, <2>8
<1>10. ASSUME NEW t \in Task, TaskEnds(t) PROVE Custody(u)'
  <2>1. /\ stage[t] = "posted" /\ inflight' = inflight \ {t}
        /\ UNCHANGED <<queue, ticks, promise, stage>>
    BY <1>10 DEF TaskEnds, Finish, loopVars, taskVars
  <2>2. AtWorker(u)' <=> AtWorker(u)
    BY <2>1 DEF AtWorker
  <2>3. \A i \in Nat : (AtTick(u, i)' <=> AtTick(u, i)) /\ (AtQueue(u, i)' <=> AtQueue(u, i))
    BY <2>1 DEF AtTick, AtQueue
  <2>4. (Held(u)' <=> Held(u)) /\ (Once(u)' <=> Once(u)) /\ (Untouched(u)' <=> Untouched(u))
    BY <2>1, <2>2, <2>3 DEF Held, Once, Untouched
  <2> QED
    BY <1>0, <2>1, <2>4 DEF Custody
<1> QED
  BY <1>1, <1>2, <1>3, <1>4, <1>5, <1>6, <1>7, <1>8, <1>9, <1>10
     DEF Next, ProgramStep, LoopStep, WorkerStep

\* The promise of a task is never dropped and never in two hands (task.h, libevent_loop.cpp).
THEOREM OneCustodianHolds == Spec => []OneCustodian
<1>1. LoopInv /\ Custodial => OneCustodian
  <2> SUFFICES ASSUME LoopInv, Custodial, NEW t \in Task
               PROVE  IF promise[t] = "pending" THEN \E c \in Custodians(t) : Custodians(t) = {c}
                                                ELSE Custodians(t) = {}
    BY DEF OneCustodian
  <2>1. Custody(t) /\ DOMAIN ticks \subseteq Nat /\ DOMAIN queue \subseteq Nat
    BY DEF LoopInv, TypeOK, Custodial
  <2>2. \A i \in DOMAIN ticks : ticks[i] \in {EnqueueTick(t), ResolveTick(t), RejectTick(t)}
                                    <=> AtTick(t, i)
    BY DEF AtTick
  <2>3. \A i \in DOMAIN queue : queue[i] = t <=> AtQueue(t, i)
    BY DEF AtQueue
  <2>4. \A c : c \in Custodians(t) <=> \/ \E i \in Nat : AtTick(t, i) /\ c = <<"tick", i>>
                                       \/ \E i \in Nat : AtQueue(t, i) /\ c = <<"queue", i>>
                                       \/ AtWorker(t) /\ c = <<"worker", 0>>
    BY <2>1 DEF Custodians, AtTick, AtQueue, AtWorker
  <2>5. \A c, d \in Custodians(t) : c = d
    BY <2>1, <2>4 DEF Custody, Once
  <2>6. CASE promise[t] = "pending"
    <3>1. PICK c : c \in Custodians(t)
      BY <2>1, <2>4, <2>6 DEF Custody, Held
    <3> QED
      BY <2>5, <2>6, <3>1
  <2>7. CASE promise[t] # "pending"
    BY <2>1, <2>4, <2>7 DEF Custody, Held
  <2> QED
    BY <2>6, <2>7
<1>2. Spec => []Custodial
  BY InitLoopInv, NextLoopInv, InitCustodial, NextCustodial, PTL DEF Spec
<1> QED
  BY <1>1, <1>2, LoopInvariant, PTL
=============================================================================
