-------------------------- MODULE ThreadPoolProofs --------------------------
(***************************************************************************)
(* Proofs about ThreadPool for every set of threads and tasks, any         *)
(* nthreads_ and any number of restarts.                                   *)
(*                                                                         *)
(* Fifo and QuietWhenStopped are not inductive: a pop must be known to run *)
(* under the lock on a typed deque, and a worker that is leaving must be   *)
(* known to have seen stop_.  PoolInv adds what is missing.                *)
(***************************************************************************)
EXTENDS ThreadPool, TLAPS, SequenceTheorems, FiniteSetTheorems

\* queue_mutex_ is held by exactly the worker that is inside the locked region.
MutexOwner == \A w \in Worker : pc[w] = "locked" <=> queue_mutex_ = w

\* Who has decided to leave, or is asked to, has seen a stop_ that still stands.
LeavingSawStop ==
    /\ \A w \in Worker : pc[w] = "locked" /\ b[w] => stop_
    /\ \A w \in Worker : pc[w] \in {"exiting", "done"} => stop_
    /\ owner \in {"notify_all", "join"} => stop_

\* Closures are pairwise different.
EnqueuedOnce == \A i, j \in DOMAIN enqueued : enqueued[i] = enqueued[j] => i = j

\* A worker holds a closure exactly while it runs it; it popped it, nobody else did.
HeldByOne ==
    /\ \A w \in Worker : pc[w] # "running" => task[w] = {}
    /\ \A w \in Worker : task[w] = {} \/ \E t \in RangeOf(started) : task[w] = {t}
    /\ \A v, w \in Worker : v # w => task[v] \intersect task[w] = {}

PoolInv ==
    /\ TypeOK
    /\ MutexOwner
    /\ LeavingSawStop
    /\ QuietWhenStopped
    /\ Fifo
    /\ EnqueuedOnce
    /\ HeldByOne

-----------------------------------------------------------------------------
(* Sequences *)

LEMMA RangeOfAppend ==
    ASSUME NEW S, NEW s \in Seq(S), NEW e \in S
    PROVE  RangeOf(Append(s, e)) = RangeOf(s) \union {e}
<1> DEFINE a == Append(s, e)
<1>1. DOMAIN s = 1 .. Len(s) /\ DOMAIN a = 1 .. Len(s) + 1
  OBVIOUS
<1>2. (\A i \in 1 .. Len(s) : a[i] = s[i]) /\ a[Len(s) + 1] = e
  BY AppendProperties
<1> HIDE DEF a
<1>3. ASSUME NEW x \in RangeOf(a) PROVE x \in RangeOf(s) \union {e}
  BY <1>1, <1>2 DEF RangeOf
<1>4. ASSUME NEW x \in RangeOf(s) \union {e} PROVE x \in RangeOf(a)
  <2>1. CASE x = e
    BY <1>1, <1>2, <2>1 DEF RangeOf
  <2>2. ASSUME NEW i \in 1 .. Len(s), s[i] = x PROVE x \in RangeOf(a)
    BY <1>1, <1>2, <2>2 DEF RangeOf
  <2> QED
    BY <1>1, <2>1, <2>2 DEF RangeOf
<1>5. RangeOf(a) = RangeOf(s) \union {e}
  BY <1>3, <1>4
<1> QED
  BY <1>5 DEF a

LEMMA MoveHead ==
    ASSUME NEW S, NEW s \in Seq(S), NEW q \in Seq(S), q # <<>>
    PROVE  s \o q = Append(s, Head(q)) \o Tail(q)
<1>1. Head(q) \in S /\ Tail(q) \in Seq(S)
  BY HeadTailProperties
<1>2. q = <<Head(q)>> \o Tail(q)
  <2>1. /\ Len(Tail(q)) = Len(q) - 1
        /\ \A i \in 1 .. Len(Tail(q)) : Tail(q)[i] = q[i+1]
    BY HeadTailProperties
  <2>2. /\ Len(<<Head(q)>> \o Tail(q)) = Len(q)
        /\ \A i \in 1 .. Len(q) : (<<Head(q)>> \o Tail(q))[i] = q[i]
    BY <1>1, <2>1
  <2> QED
    BY <1>1, <2>2, SeqEqual
<1>3. <<Head(q)>> \in Seq(S)
  BY <1>1
<1>4. s \o (<<Head(q)>> \o Tail(q)) = (s \o <<Head(q)>>) \o Tail(q)
  BY <1>1, <1>3, ConcatAssociative
<1>5. Append(s, Head(q)) = s \o <<Head(q)>>
  BY <1>1, AppendIsConcat
<1> QED
  BY <1>2, <1>4, <1>5

-----------------------------------------------------------------------------
(* The inductive invariant *)

LEMMA InitPoolInv == Init => PoolInv
<1> SUFFICES ASSUME Init PROVE PoolInv
  OBVIOUS
<1>1. TypeOK
  <2>1. pc \in [Worker -> WorkerPC] /\ b \in [Worker -> BOOLEAN] /\ task \in [Worker -> SUBSET Task]
    BY DEF Init, WorkerPC
  <2>2. tasks_ \in Seq(Task) /\ enqueued \in Seq(Task) /\ started \in Seq(Task)
    BY DEF Init
  <2> QED
    BY <2>1, <2>2 DEF Init, TypeOK, OwnerPC
<1>2. MutexOwner
  BY NobodyAssumption DEF Init, MutexOwner
<1>3. LeavingSawStop /\ QuietWhenStopped /\ EnqueuedOnce /\ HeldByOne
  BY DEF Init, LeavingSawStop, QuietWhenStopped, EnqueuedOnce, HeldByOne
<1>4. Fifo
  BY ConcatEmptySeq DEF Init, Fifo
<1> QED
  BY <1>1, <1>2, <1>3, <1>4 DEF PoolInv

LEMMA NextTypeOK == TypeOK /\ [Next]_vars => TypeOK'
<1> SUFFICES ASSUME TypeOK, [Next]_vars PROVE TypeOK'
  OBVIOUS
<1> USE DEF TypeOK
<1>1. CASE Start
  <2>1. pc' \in [Worker -> WorkerPC]
    BY <1>1 DEF Start, WorkerPC
  <2>2. starts' \in Nat
    <3>1. starts' = starts + 1
      BY <1>1 DEF Start
    <3> QED
      BY <3>1
  <2>4. stop_' \in BOOLEAN
    BY <1>1, Zenon DEF Start
  <2>3. UNCHANGED <<tasks_, queue_mutex_, b, task, owner, enqueued, started>>
    BY <1>1 DEF Start
  <2> QED
    BY <2>1, <2>2, <2>3, <2>4
<1>2. ASSUME NEW t \in Task, EnqueuePush(t) PROVE TypeOK'
  BY <1>2, AppendProperties DEF EnqueuePush, OwnerPC
<1>3. CASE StopStore
  BY <1>3 DEF StopStore, OwnerPC
<1>4. CASE OwnerStep
  BY <1>4 DEF OwnerStep, EnqueueNotify, StopNotify, StopJoin, OwnerPC, WorkerPC, Here
<1>5. ASSUME NEW w \in Worker, WorkerStep(w) PROVE TypeOK'
  <2>1. CASE Pop(w)
    BY <2>1, HeadTailProperties, AppendProperties DEF Pop, WorkerPC
  <2>2. CASE ~Pop(w)
    BY <1>5, <2>2 DEF WorkerStep, Acquire, Wait, Break, Ran, Exit, WorkerPC
  <2> QED
    BY <2>1, <2>2
<1>6. ASSUME NEW w \in Worker, SpuriousWakeup(w) PROVE TypeOK'
  BY <1>6 DEF SpuriousWakeup, WorkerPC
<1>7. CASE UNCHANGED vars
  BY <1>7 DEF vars
<1> QED
  BY <1>1, <1>2, <1>3, <1>4, <1>5, <1>6, <1>7 DEF Next

LEMMA NextMutexOwner == TypeOK /\ MutexOwner /\ [Next]_vars => MutexOwner'
<1> SUFFICES ASSUME TypeOK, MutexOwner, [Next]_vars PROVE MutexOwner'
  OBVIOUS
<1> USE NobodyAssumption DEF TypeOK, MutexOwner
<1>1. CASE Start
  BY <1>1 DEF Start, Here
<1>2. ASSUME NEW t \in Task, EnqueuePush(t) PROVE MutexOwner'
  BY <1>2 DEF EnqueuePush
<1>3. CASE StopStore
  BY <1>3 DEF StopStore
<1>4. CASE OwnerStep
  <2>1. CASE EnqueueNotify
    BY <2>1 DEF EnqueueNotify, Here
  <2>2. CASE StopNotify
    BY <2>2 DEF StopNotify
  <2>3. CASE StopJoin
    BY <2>3 DEF StopJoin, workers_, Here
  <2> QED
    BY <1>4, <2>1, <2>2, <2>3 DEF OwnerStep
<1>5. ASSUME NEW w \in Worker, WorkerStep(w) PROVE MutexOwner'
  BY <1>5 DEF WorkerStep, Acquire, Wait, Break, Pop, Ran, Exit
<1>6. ASSUME NEW w \in Worker, SpuriousWakeup(w) PROVE MutexOwner'
  BY <1>6 DEF SpuriousWakeup
<1>7. CASE UNCHANGED vars
  BY <1>7 DEF vars
<1> QED
  BY <1>1, <1>2, <1>3, <1>4, <1>5, <1>6, <1>7 DEF Next

\* stop_ is only reset by a start() of an idle owner, who has joined everybody
\* if stop_ was set; so what a leaving worker saw still stands.
LEMMA NextStop ==
    TypeOK /\ LeavingSawStop /\ QuietWhenStopped /\ [Next]_vars
        => LeavingSawStop' /\ QuietWhenStopped'
<1> SUFFICES ASSUME TypeOK, LeavingSawStop, QuietWhenStopped, [Next]_vars
             PROVE  LeavingSawStop' /\ QuietWhenStopped'
  OBVIOUS
<1> USE DEF TypeOK, LeavingSawStop, QuietWhenStopped, workers_, Here
<1>1. CASE Start
  BY <1>1 DEF Start
<1>2. ASSUME NEW t \in Task, EnqueuePush(t) PROVE LeavingSawStop' /\ QuietWhenStopped'
  BY <1>2 DEF EnqueuePush
<1>3. CASE StopStore
  BY <1>3 DEF StopStore
<1>4. CASE OwnerStep
  <2>1. CASE EnqueueNotify
    BY <2>1 DEF EnqueueNotify
  <2>2. CASE StopNotify
    BY <2>2 DEF StopNotify
  <2>3. CASE StopJoin
    BY <2>3 DEF StopJoin
  <2> QED
    BY <1>4, <2>1, <2>2, <2>3 DEF OwnerStep
<1>5. ASSUME NEW w \in Worker, WorkerStep(w) PROVE LeavingSawStop' /\ QuietWhenStopped'
  BY <1>5 DEF WorkerStep, Acquire, Wait, Break, Pop, Ran, Exit
<1>6. ASSUME NEW w \in Worker, SpuriousWakeup(w) PROVE LeavingSawStop' /\ QuietWhenStopped'
  BY <1>6 DEF SpuriousWakeup
<1>7. CASE UNCHANGED vars
  BY <1>7 DEF vars
<1> QED
  BY <1>1, <1>2, <1>3, <1>4, <1>5, <1>6, <1>7 DEF Next

LEMMA NextFifo == TypeOK /\ Fifo /\ [Next]_vars => Fifo'
<1> SUFFICES ASSUME TypeOK, Fifo, [Next]_vars PROVE Fifo'
  OBVIOUS
<1>0. started \in Seq(Task) /\ tasks_ \in Seq(Task)
  BY DEF TypeOK
<1>1. ASSUME NEW t \in Task, EnqueuePush(t) PROVE Fifo'
  <2>1. <<t>> \in Seq(Task)
    OBVIOUS
  <2>2. enqueued \in Seq(Task)
    BY DEF TypeOK
  <2>3. enqueued' = enqueued \o <<t>> /\ tasks_' = tasks_ \o <<t>> /\ started' = started
    BY <1>0, <1>1, <2>2, AppendIsConcat DEF EnqueuePush
  <2>4. (started \o tasks_) \o <<t>> = started \o (tasks_ \o <<t>>)
    BY <1>0, <2>1, ConcatAssociative
  <2> QED
    BY <2>3, <2>4 DEF Fifo
<1>2. ASSUME NEW w \in Worker, Pop(w) PROVE Fifo'
  BY <1>0, <1>2, MoveHead DEF Pop, Fifo
<1>3. CASE UNCHANGED <<tasks_, enqueued, started>>
  BY <1>3 DEF Fifo
<1> QED
  BY <1>1, <1>2, <1>3 DEF Next, vars, Start, StopStore, OwnerStep, EnqueueNotify, StopNotify,
     StopJoin, WorkerStep, Acquire, Wait, Break, Ran, Exit, SpuriousWakeup

\* A step that touches no history and empties no more than the hands of workers
\* that do not run keeps HeldByOne.
LEMMA NextHeld ==
    PoolInv /\ [Next]_vars => EnqueuedOnce' /\ HeldByOne'
<1> SUFFICES ASSUME PoolInv, [Next]_vars PROVE EnqueuedOnce' /\ HeldByOne'
  OBVIOUS
<1> USE DEF PoolInv, TypeOK, EnqueuedOnce, HeldByOne
<1>1. ASSUME NEW t \in Task, EnqueuePush(t) PROVE EnqueuedOnce' /\ HeldByOne'
  <2>1. /\ DOMAIN enqueued' = 1 .. Len(enqueued) + 1
        /\ \A i \in 1 .. Len(enqueued) : enqueued'[i] = enqueued[i]
        /\ enqueued'[Len(enqueued) + 1] = t
    BY <1>1 DEF EnqueuePush
  <2>2. \A i \in 1 .. Len(enqueued) : enqueued[i] # t
    BY <1>1 DEF EnqueuePush, RangeOf
  <2>3. EnqueuedOnce'
    BY <2>1, <2>2
  <2>4. UNCHANGED <<pc, task, started>>
    BY <1>1 DEF EnqueuePush
  <2>5. HeldByOne'
    BY <2>4
  <2> QED
    BY <2>3, <2>5
<1>2. ASSUME NEW w \in Worker, Pop(w) PROVE EnqueuedOnce' /\ HeldByOne'
  <2> DEFINE h == Head(tasks_)
  <2>1. tasks_ # <<>> /\ h \in Task /\ h = tasks_[1] /\ started' = Append(started, h)
    BY <1>2 DEF Pop
  <2>2. /\ Len(enqueued) = Len(started) + Len(tasks_)
        /\ Len(tasks_) > 0
        /\ \A i \in 1 .. Len(started) : enqueued[i] = started[i]
        /\ enqueued[Len(started) + 1] = h
    BY <2>1, ConcatProperties DEF Fifo
  <2>3. h \notin RangeOf(started)
    <3> SUFFICES ASSUME NEW i \in 1 .. Len(started), started[i] = h PROVE FALSE
      BY DEF RangeOf
    <3>1. i \in DOMAIN enqueued /\ Len(started) + 1 \in DOMAIN enqueued
      BY <2>2
    <3>2. enqueued[i] = enqueued[Len(started) + 1]
      BY <2>2
    <3> QED
      BY <3>1, <3>2
  <2>4. RangeOf(started') = RangeOf(started) \union {h}
    BY <2>1, RangeOfAppend
  <2>5. task' = [task EXCEPT ![w] = {h}] /\ pc' = [pc EXCEPT ![w] = "running"]
        /\ UNCHANGED enqueued
    BY <1>2 DEF Pop
  <2>6. \A v \in Worker : h \notin task[v]
    BY <2>3
  <2>7. EnqueuedOnce'
    BY <2>5
  <2>8. \A v \in Worker : pc'[v] # "running" => task'[v] = {}
    BY <2>5
  <2>9. \A v \in Worker : task'[v] = {} \/ \E t \in RangeOf(started') : task'[v] = {t}
    BY <2>4, <2>5
  <2>10. \A v, u \in Worker : v # u => task'[v] \intersect task'[u] = {}
    BY <2>5, <2>6
  <2> QED
    BY <2>7, <2>8, <2>9, <2>10
<1>3. CASE Start
  BY <1>3 DEF Start, Here
<1>4. CASE OwnerStep
  <2>1. CASE EnqueueNotify
    BY <2>1 DEF EnqueueNotify, Here
  <2>2. CASE StopNotify
    BY <2>2 DEF StopNotify
  <2>3. CASE StopJoin
    BY <2>3 DEF StopJoin, workers_, Here
  <2> QED
    BY <1>4, <2>1, <2>2, <2>3 DEF OwnerStep
<1>5. ASSUME NEW w \in Worker, WorkerStep(w), ~Pop(w) PROVE EnqueuedOnce' /\ HeldByOne'
  BY <1>5 DEF WorkerStep, Acquire, Wait, Break, Ran, Exit
<1>6. ASSUME NEW w \in Worker, SpuriousWakeup(w) PROVE EnqueuedOnce' /\ HeldByOne'
  BY <1>6 DEF SpuriousWakeup
<1>7. CASE StopStore \/ UNCHANGED vars
  BY <1>7 DEF StopStore, vars
<1> QED
  BY <1>1, <1>2, <1>3, <1>4, <1>5, <1>6, <1>7 DEF Next

\* The inductive invariant holds in every reachable state.
THEOREM PoolInvariant == Spec => []PoolInv
<1>1. PoolInv /\ [Next]_vars => PoolInv'
  BY NextTypeOK, NextMutexOwner, NextStop, NextFifo, NextHeld DEF PoolInv
<1> QED
  BY <1>1, InitPoolInv, PTL DEF Spec

\* Type correctness.
THEOREM TypeCorrect == Spec => []TypeOK
BY PoolInvariant, PTL DEF PoolInv

\* No interleaving of enqueue(), workers, stop() and restarts loses, doubles or
\* reorders a task (threadpool.h enqueue(), Worker::operator()).
THEOREM FifoHolds == Spec => []Fifo
BY PoolInvariant, PTL DEF PoolInv

\* After stop() returned no thread of the pool exists (ThreadPool::stop()).
THEOREM QuietWhenStoppedHolds == Spec => []QuietWhenStopped
BY PoolInvariant, PTL DEF PoolInv

-----------------------------------------------------------------------------
(* No task waits while workers sleep *)

LEMMA LookingFinite ==
    /\ IsFiniteSet(Looking)
    /\ Cardinality(Looking) \in Nat
<1>1. Looking \in SUBSET Worker
  BY DEF Looking, Here
<1> QED
  BY <1>1, FS_Subset, FS_CardinalityType, PoolAssumption

LEMMA LookingFiniteNext ==
    /\ IsFiniteSet(Looking')
    /\ Cardinality(Looking') \in Nat
<1>1. Looking' \in SUBSET Worker
  BY DEF Looking, Here
<1> QED
  BY <1>1, FS_Subset, FS_CardinalityType, PoolAssumption

\* A push raises the demand and its notification the supply; a pop lowers both;
\* a worker goes to sleep only on an empty deque, and leaves only once stop_ is set.
LEMMA NextWorkConserving ==
    PoolInv /\ WorkConserving /\ [Next]_vars => WorkConserving'
<1> SUFFICES ASSUME PoolInv, WorkConserving, [Next]_vars,
                    ~stop_', Here("waiting")' # {}
             PROVE  Len(tasks_') <= Cardinality(Looking') + (IF owner' = "notify_one" THEN 1 ELSE 0)
  BY DEF WorkConserving
<1> DEFINE looking  == Cardinality(Looking)
           spare    == IF owner = "notify_one" THEN 1 ELSE 0
           looking_ == Cardinality(Looking')
           spare_   == IF owner' = "notify_one" THEN 1 ELSE 0
<1>0. /\ looking \in Nat /\ looking_ \in Nat /\ spare \in Nat /\ spare_ \in Nat
      /\ Len(tasks_) \in Nat
  <2>1. tasks_ \in Seq(Task)
    BY DEF PoolInv, TypeOK
  <2> QED
    BY <2>1, LookingFinite, LookingFiniteNext
<1>a. pc \in [Worker -> WorkerPC]
  BY DEF PoolInv, TypeOK
<1>b. ~stop_ /\ Here("waiting") # {} => Len(tasks_) <= looking + spare
  BY DEF WorkConserving
<1> HIDE DEF looking, looking_
<1>1. CASE Start
  <2>1. /\ Here("waiting")' = Here("waiting")
        /\ Looking \subseteq Looking'
        /\ owner = "idle" /\ UNCHANGED <<owner, tasks_>>
    BY <1>1, <1>a DEF Start, Here, Looking
  <2>2. ~stop_
    BY <2>1 DEF PoolInv, QuietWhenStopped, workers_, Here
  <2>3. looking <= looking_
    BY <2>1, FS_Subset, LookingFiniteNext DEF looking, looking_
  <2> QED
    BY <1>0, <1>b, <2>1, <2>2, <2>3 DEF looking_
<1>2. ASSUME NEW t \in Task, EnqueuePush(t) PROVE Len(tasks_') <= looking_ + spare_
  <2>1. /\ Here("waiting")' = Here("waiting") /\ Looking' = Looking
        /\ owner = "idle" /\ owner' = "notify_one" /\ stop_' = stop_
    BY <1>2 DEF EnqueuePush, Here, Looking
  <2>2. Len(tasks_') = Len(tasks_) + 1
    <3>1. tasks_ \in Seq(Task)
      BY DEF PoolInv, TypeOK
    <3> QED
      BY <1>2, <3>1, AppendProperties DEF EnqueuePush
  <2>3. looking_ = looking /\ spare = 0 /\ spare_ = 1
    BY <2>1 DEF looking, looking_
  <2> QED
    BY <1>0, <1>b, <2>1, <2>2, <2>3
<1>3. CASE EnqueueNotify
  <2>1. owner = "notify_one" /\ owner' = "idle" /\ UNCHANGED <<stop_, tasks_>>
    BY <1>3 DEF EnqueueNotify
  <2>2. PICK w \in Here("waiting") : pc' = [pc EXCEPT ![w] = "woken"]
    BY <1>3, <1>a DEF EnqueueNotify, Here
  <2>3. Looking' = Looking \union {w} /\ w \notin Looking
    BY <1>a, <2>2 DEF Looking, Here
  <2>4. looking_ = looking + 1
    BY <2>3, FS_AddElement, LookingFinite DEF looking, looking_
  <2> QED
    BY <1>0, <1>b, <2>1, <2>2, <2>4 DEF looking_
<1>4. ASSUME NEW w \in Worker, Acquire(w) PROVE Len(tasks_') <= looking_ + spare_
  <2>1. /\ Here("waiting")' = Here("waiting") /\ Looking' = Looking
        /\ UNCHANGED <<stop_, tasks_, owner>>
    BY <1>4, <1>a DEF Acquire, Here, Looking
  <2> QED
    BY <1>0, <1>b, <2>1 DEF looking, looking_
<1>5. ASSUME NEW w \in Worker, Wait(w) PROVE Len(tasks_') <= looking_ + spare_
  <2>1. Len(tasks_') = 0
    BY <1>5 DEF Wait
  <2> QED
    BY <1>0, <2>1
<1>6. ASSUME NEW w \in Worker, SpuriousWakeup(w) PROVE Len(tasks_') <= looking_ + spare_
  <2>1. /\ w \in Here("waiting") /\ Looking' = Looking \union {w} /\ w \notin Looking
        /\ UNCHANGED <<stop_, tasks_, owner>>
    BY <1>6, <1>a DEF SpuriousWakeup, Here, Looking
  <2>2. looking_ = looking + 1
    BY <2>1, FS_AddElement, LookingFinite DEF looking, looking_
  <2> QED
    BY <1>0, <1>b, <2>1, <2>2
<1>7. ASSUME NEW w \in Worker, Pop(w) PROVE Len(tasks_') <= looking_ + spare_
  <2>1. /\ Here("waiting")' = Here("waiting")
        /\ Looking' = Looking \ {w} /\ w \in Looking
        /\ UNCHANGED <<stop_, owner>>
    BY <1>7, <1>a DEF Pop, Here, Looking
  <2>2. looking_ = looking - 1
    BY <2>1, FS_RemoveElement, LookingFinite DEF looking, looking_
  <2>3. Len(tasks_') = Len(tasks_) - 1
    <3>1. tasks_ \in Seq(Task)
      BY DEF PoolInv, TypeOK
    <3> QED
      BY <1>7, <3>1, HeadTailProperties DEF Pop
  <2> QED
    BY <1>0, <1>b, <2>1, <2>2, <2>3
<1>8. ASSUME NEW w \in Worker, Ran(w) PROVE Len(tasks_') <= looking_ + spare_
  <2>1. /\ Here("waiting")' = Here("waiting")
        /\ Looking' = Looking \union {w} /\ w \notin Looking
        /\ UNCHANGED <<stop_, tasks_, owner>>
    BY <1>8, <1>a DEF Ran, Here, Looking
  <2>2. looking_ = looking + 1
    BY <2>1, FS_AddElement, LookingFinite DEF looking, looking_
  <2> QED
    BY <1>0, <1>b, <2>1, <2>2
<1>9. ASSUME NEW w \in Worker, Exit(w) PROVE Len(tasks_') <= looking_ + spare_
  <2>1. /\ Here("waiting")' = Here("waiting") /\ Looking' = Looking
        /\ UNCHANGED <<stop_, tasks_, owner>>
    BY <1>9, <1>a DEF Exit, Here, Looking
  <2> QED
    BY <1>0, <1>b, <2>1 DEF looking, looking_
<1>10. ASSUME NEW w \in Worker, Break(w) PROVE FALSE
  BY <1>10 DEF Break, PoolInv, LeavingSawStop
<1>11. CASE StopStore \/ StopNotify
  BY <1>11 DEF StopStore, StopNotify, PoolInv, LeavingSawStop
<1>12. CASE StopJoin
  BY <1>12 DEF StopJoin, Here
<1>13. CASE UNCHANGED vars
  <2>1. /\ Here("waiting")' = Here("waiting") /\ Looking' = Looking
        /\ UNCHANGED <<stop_, tasks_, owner>>
    BY <1>13 DEF vars, Here, Looking
  <2> QED
    BY <1>0, <1>b, <2>1 DEF looking, looking_
<1> QED
  BY <1>1, <1>2, <1>3, <1>4, <1>5, <1>6, <1>7, <1>8, <1>9, <1>10, <1>11, <1>12, <1>13
     DEF Next, OwnerStep, WorkerStep, looking_

\* While the pool is up a worker sleeps only if every queued task has another
\* worker on its way to it (enqueue(), Worker::operator()).
THEOREM WorkConservingHolds == Spec => []WorkConserving
<1>1. Init => WorkConserving
  BY DEF Init, WorkConserving, Here
<1> QED
  BY <1>1, NextWorkConserving, PoolInvariant, PTL DEF Spec

-----------------------------------------------------------------------------
(* ThreadPool implements Executor *)

\* the refinement mapping of Executes
InFlight == UNION {task[w] : w \in Worker}
IsOpen == ~(stop_ /\ owner \in {"idle", "notify_one"})

LEMMA RefinesInit == Init => Executes!ExecutorInit
<1> SUFFICES ASSUME Init PROVE Executes!ExecutorInit
  OBVIOUS
<1>1. InFlight = {}
  BY DEF Init, InFlight
<1>2. IsOpen = TRUE
  BY DEF Init, IsOpen
<1> QED
  BY <1>1, <1>2 DEF Init, Executes!ExecutorInit, InFlight, IsOpen

LEMMA RefinesNext ==
    PoolInv /\ [Next]_vars => [Executes!ExecutorNext]_(Executes!executorVars)
<1> SUFFICES ASSUME PoolInv, [Next]_vars
             PROVE  \/ Executes!ExecutorNext
                    \/ UNCHANGED <<tasks_, InFlight, IsOpen>>
  BY DEF Executes!executorVars, InFlight, IsOpen
<1> DEFINE Goal == Executes!ExecutorNext \/ UNCHANGED <<tasks_, InFlight, IsOpen>>
<1>0. task \in [Worker -> SUBSET Task]
  BY DEF PoolInv, TypeOK
<1>1. CASE Start
  <2>1. UNCHANGED <<tasks_, InFlight>> /\ IsOpen'
    BY <1>1 DEF Start, InFlight, IsOpen
  <2> QED
    BY <2>1 DEF Executes!ExecutorNext, Executes!Open, InFlight, IsOpen
<1>2. ASSUME NEW t \in Task, EnqueuePush(t) PROVE Goal
  <2>1. tasks_' = Append(tasks_, t) /\ UNCHANGED <<InFlight, IsOpen>>
    BY <1>2 DEF EnqueuePush, InFlight, IsOpen
  <2> QED
    BY <2>1 DEF Executes!ExecutorNext, Executes!Submit, InFlight, IsOpen
<1>3. CASE EnqueueNotify \/ StopNotify \/ UNCHANGED vars
  BY <1>3 DEF EnqueueNotify, StopNotify, vars, InFlight, IsOpen, PoolInv, LeavingSawStop
<1>4. CASE StopStore
  BY <1>4 DEF StopStore, InFlight, IsOpen
<1>5. CASE StopJoin
  <2>1. InFlight = {}
    BY <1>5 DEF StopJoin, InFlight, workers_, Here, PoolInv, HeldByOne
  <2>2. UNCHANGED <<tasks_, InFlight>> /\ ~IsOpen'
    BY <1>5 DEF StopJoin, InFlight, IsOpen, PoolInv, LeavingSawStop
  <2> QED
    BY <2>1, <2>2 DEF Executes!ExecutorNext, Executes!Close, InFlight, IsOpen
<1>6. ASSUME NEW w \in Worker, Pop(w) PROVE Goal
  <2>1. tasks_ # <<>> /\ tasks_' = Tail(tasks_) /\ IsOpen' = IsOpen
    BY <1>6 DEF Pop, IsOpen
  <2>2. IsOpen
    BY <1>6 DEF Pop, IsOpen, PoolInv, QuietWhenStopped, workers_, Here
  <2>3. InFlight' = InFlight \union {Head(tasks_)}
    BY <1>0, <1>6 DEF Pop, InFlight, PoolInv, HeldByOne
  <2> QED
    BY <2>1, <2>2, <2>3 DEF Executes!ExecutorNext, Executes!Begin, InFlight, IsOpen
<1>7. ASSUME NEW w \in Worker, Ran(w) PROVE Goal
  <2>1. UNCHANGED <<tasks_, IsOpen>>
    BY <1>7 DEF Ran, IsOpen
  <2>2. InFlight' = InFlight \ task[w]
    BY <1>0, <1>7 DEF Ran, InFlight, PoolInv, HeldByOne
  <2>3. task[w] = {} \/ \E t \in Task : task[w] = {t} /\ t \in InFlight
    BY <1>0 DEF PoolInv, HeldByOne, InFlight
  <2> QED
    BY <2>1, <2>2, <2>3 DEF Executes!ExecutorNext, Executes!Finish, InFlight, IsOpen
<1>8. ASSUME NEW w \in Worker,
             Acquire(w) \/ Wait(w) \/ Break(w) \/ Exit(w) \/ SpuriousWakeup(w)
      PROVE  Goal
  BY <1>8 DEF Acquire, Wait, Break, Exit, SpuriousWakeup, InFlight, IsOpen
<1> QED
  BY <1>1, <1>2, <1>3, <1>4, <1>5, <1>6, <1>7, <1>8 DEF Next, OwnerStep, WorkerStep

\* With its lock, its condition variable and its threads ThreadPool does only
\* what an Executor does: FIFO, at most once, nothing in flight after stop().
THEOREM Refinement == Spec => ExecutorSpec
<1> QED
  BY RefinesInit, RefinesNext, PoolInvariant, PTL DEF Spec, ExecutorSpec, Executes!ExecutorSpec

=============================================================================
