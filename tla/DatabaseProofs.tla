--------------------------- MODULE DatabaseProofs ---------------------------
(***************************************************************************)
(* Proofs about RedisBus for every set of subscriptions and any number of  *)
(* listeners and messages, and about Databases for every set of commands,  *)
(* calls, statements and connections, and every reply of redis.            *)
(*                                                                         *)
(* RedisBus: a message is on its way through the inbox of a listener, then *)
(* a tick, then an observer.  ToldOnce holds because these three are in    *)
(* order and follow each other (TicksInOrder, InboxesInOrder), and because *)
(* only the listener that was made last ever listens (LastListens): redis  *)
(* may have queued the same messages for one before it too.                *)
(*                                                                         *)
(* Databases: a reply is a sequence of tokens that is one value.  What is  *)
(* open in the parser counts the elements that the rest of the reply has   *)
(* (Follows), and the rest is what is in the buffer and then what is in    *)
(* the stream (Cut): so that nothing is open exactly when all of it is     *)
(* parsed and the connection is empty again, but for the line that ends an *)
(* empty string (Spilt): the parser that finds one sees nothing else       *)
(* (Doomed).  A transaction is where the state of its call and of its      *)
(* closure say (TxInv), and a connection has one user (MysqlConns,         *)
(* SqliteInv), whose task finds it there (TaskInv).                        *)
(***************************************************************************)
EXTENDS RedisBus, Databases, SequenceTheorems, FiniteSetTheorems, WellFoundedInduction, TLAPS

(* RedisBus *)

TickType == [op : {"insert", "erase"}, id : Id] \union [op : {"deliver"}, to : SUBSET Id, m : Nat]

BusType ==
    /\ listeners_ \subseteq Listener /\ subscriptions_ \subseteq Id
    /\ ticks \in Seq(TickType)
    /\ made \in 0 .. MaxListeners /\ timers \in Nat /\ made + timers <= MaxListeners
    /\ conn \in [Listener -> {"none", "connecting", "writing", "asking", "answered",
                              "listening", "failed", "closed"}]
    /\ inbox \in [Listener -> Seq(Nat)]
    /\ published \in Nat
    /\ got \in [Id -> Seq(Nat)]

\* Only the last listener is there, only that one listens, and what was not answered or not
\* made has nothing queued.
LastListens ==
    /\ listeners_ \subseteq {made}
    /\ \A g \in Listener :
          /\ conn[g] = "listening" => g = made /\ g \in listeners_
          /\ g > made => conn[g] = "none"
          /\ conn[g] \in {"none", "connecting", "writing", "asking"} => inbox[g] = <<>>

\* What the observers were told, what the ticks will tell them, what the last listener will.
TicksInOrder ==
    /\ \A j, k \in DOMAIN ticks :
          ticks[j].op = "deliver" /\ ticks[k].op = "deliver" /\ j < k => ticks[j].m < ticks[k].m
    /\ \A k \in DOMAIN ticks : ticks[k].op = "deliver" =>
          /\ ticks[k].m <= published
          /\ \A i \in Id : \A j \in DOMAIN got[i] : got[i][j] < ticks[k].m
    /\ \A i \in Id : \A j \in DOMAIN got[i] : got[i][j] <= published

Queues(g) == g = made /\ conn[g] \in {"answered", "listening"}

InboxesInOrder ==
    \A g \in Listener :
        /\ \A j, k \in DOMAIN inbox[g] : j < k => inbox[g][j] < inbox[g][k]
        /\ \A j \in DOMAIN inbox[g] :
              /\ inbox[g][j] <= published
              /\ Queues(g) =>
                    /\ \A k \in DOMAIN ticks : ticks[k].op = "deliver" => ticks[k].m < inbox[g][j]
                    /\ \A i \in Id : \A k \in DOMAIN got[i] : got[i][k] < inbox[g][j]

Order == ToldOnce /\ TicksInOrder /\ InboxesInOrder

BusInv == BusType /\ Order /\ (Works => LastListens)

-----------------------------------------------------------------------------
\* Nothing is queued at first.
LEMMA InitBus == Init => BusInv
<1> SUFFICES ASSUME Init PROVE BusInv
  OBVIOUS
<1>1. BusType
  BY BusAssumption DEF Init, BusType, Listener
<1>2. Order
  BY DEF Init, Order, ToldOnce, TicksInOrder, InboxesInOrder
<1>3. LastListens
  BY DEF Init, LastListens
<1> QED
  BY <1>1, <1>2, <1>3 DEF BusInv

\* A step that moves no message
LEMMA OrderKept ==
    ASSUME BusType, Order, UNCHANGED <<got, published, inbox>>,
           \/ ticks' = ticks
           \/ \E op \in {"insert", "erase"}, i \in Id : ticks' = Append(ticks, [op |-> op, id |-> i]),
           \A g \in Listener : Queues(g)' => Queues(g) \/ inbox[g] = <<>>
    PROVE  Order'
<1>1. \A k \in DOMAIN ticks' :
          ticks'[k].op = "deliver" => k \in DOMAIN ticks /\ ticks'[k] = ticks[k]
  <2>1. ASSUME NEW op \in {"insert", "erase"}, NEW i \in Id, ticks' = Append(ticks, [op |-> op, id |-> i]),
               NEW k \in DOMAIN ticks', ticks'[k].op = "deliver"
        PROVE  k \in DOMAIN ticks /\ ticks'[k] = ticks[k]
    <3>1. ticks \in Seq(TickType) /\ Len(ticks) \in Nat
      BY DEF BusType
    <3>2. /\ DOMAIN ticks' = 1 .. Len(ticks) + 1 /\ ticks'[Len(ticks) + 1] = [op |-> op, id |-> i]
          /\ \A n \in 1 .. Len(ticks) : n \in DOMAIN ticks /\ ticks'[n] = ticks[n]
      BY <2>1, <3>1
    <3> QED
      BY <2>1, <3>1, <3>2
  <2> QED
    BY <2>1
<1>2. ToldOnce'
  BY DEF Order, ToldOnce
<1>3. TicksInOrder'
  BY <1>1 DEF Order, TicksInOrder
<1>4. ASSUME NEW g \in Listener
      PROVE  /\ \A j, k \in DOMAIN inbox'[g] : j < k => inbox'[g][j] < inbox'[g][k]
             /\ \A j \in DOMAIN inbox'[g] :
                   /\ inbox'[g][j] <= published'
                   /\ Queues(g)' =>
                         /\ \A k \in DOMAIN ticks' : ticks'[k].op = "deliver" => ticks'[k].m < inbox'[g][j]
                         /\ \A i \in Id : \A k \in DOMAIN got'[i] : got'[i][k] < inbox'[g][j]
  <2>1. CASE inbox[g] = <<>>
    BY <2>1
  <2>2. CASE inbox[g] # <<>>
    BY <1>1, <1>4, <2>2 DEF Order, InboxesInOrder
  <2> QED
    BY <2>1, <2>2
<1> QED
  BY <1>2, <1>3, <1>4 DEF Order, InboxesInOrder

\* The subscriber of the topic is replaced.
LEMMA SubscribeKeeps ==
    ASSUME BusType, LastListens, made < MaxListeners, RedisSubscribe
    PROVE  /\ made' = made + 1 /\ listeners_' \subseteq Listener
           /\ conn' \in [Listener -> {"none", "connecting", "writing", "asking", "answered",
                                      "listening", "failed", "closed"}]
           /\ LastListens'
           /\ \A g \in Listener : ~Queues(g)'
<1>1. made \in Nat /\ made + 1 \in Listener /\ made' = made + 1 /\ listeners_' = {made + 1} /\ inbox' = inbox
  BY BusAssumption DEF BusType, RedisSubscribe, Listener
<1>2. \A g \in Listener :
          conn'[g] = IF g = made + 1 THEN "connecting"
                     ELSE IF g \in listeners_ /\ conn[g] = "listening" THEN "closed" ELSE conn[g]
  BY <1>1 DEF RedisSubscribe, Deleted
<1>3. conn' \in [Listener -> {"none", "connecting", "writing", "asking", "answered",
                               "listening", "failed", "closed"}]
  BY DEF RedisSubscribe, Deleted, BusType
<1>4. ASSUME NEW g \in Listener
      PROVE  /\ conn'[g] # "listening"
             /\ g > made' => conn'[g] = "none"
             /\ conn'[g] \in {"none", "connecting", "writing", "asking"} => inbox'[g] = <<>>
             /\ ~Queues(g)'
  <2>1. g \in Nat
    BY <1>4 DEF Listener
  <2> QED
    BY <1>1, <1>2, <1>4, <2>1 DEF LastListens, Queues
<1> QED
  BY <1>1, <1>3, <1>4 DEF LastListens

-----------------------------------------------------------------------------
(* The calls, and the retry *)

\* A tick is queued.
LEMMA TicksType ==
    ASSUME BusType, NEW op \in {"insert", "erase"}, NEW i \in Id, ticks' = Append(ticks, [op |-> op, id |-> i])
    PROVE  ticks' \in Seq(TickType)
<1>1. [op |-> op, id |-> i] \in TickType
  BY DEF TickType
<1> QED
  BY <1>1 DEF BusType

\* The calls of the program, and the retry, queue ticks.
LEMMA ProgramKeeps ==
    ASSUME BusInv, Program \/ Retry
    PROVE  BusInv'
<1>0. BusType /\ Order /\ LastListens
  BY DEF BusInv, Program, Subscribe, Unsubscribe, Clear, Retry
<1>1. ASSUME NEW i \in Id, Subscribe(i) PROVE BusInv'
  <2>1. /\ ticks' = Append(ticks, [op |-> "insert", id |-> i])
        /\ UNCHANGED <<subscriptions_, timers, published, got, flaw>>
    BY <1>1 DEF Subscribe
  <2>2. CASE listeners_ = {}
    <3>1. RedisSubscribe /\ inbox' = inbox /\ made + timers < MaxListeners
      BY <1>1, <2>2 DEF Subscribe, Room, RedisSubscribe
    <3>2. made < MaxListeners
      BY <1>0, <3>1, BusAssumption DEF BusType
    <3>3. Order'
      BY <1>0, <2>1, <3>1, <3>2, SubscribeKeeps, OrderKept
    <3>4. BusType'
      BY <1>0, <2>1, <3>1, <3>2, TicksType, SubscribeKeeps, BusAssumption DEF BusType
    <3> QED
      BY <1>0, <3>1, <3>2, <3>3, <3>4, SubscribeKeeps DEF BusInv
  <2>3. CASE listeners_ # {}
    <3>1. UNCHANGED <<made, conn, inbox, listeners_>>
      BY <1>1, <2>3 DEF Subscribe, network
    <3>2. Order'
      BY <1>0, <2>1, <3>1, OrderKept DEF Queues
    <3>3. BusType' /\ LastListens'
      BY <1>0, <2>1, <3>1, TicksType DEF BusType, LastListens
    <3> QED
      BY <3>2, <3>3 DEF BusInv
  <2> QED
    BY <2>2, <2>3
<1>2. ASSUME NEW i \in Id, Unsubscribe(i) PROVE BusInv'
  <2>1. /\ ticks' = Append(ticks, [op |-> "erase", id |-> i])
        /\ UNCHANGED <<subscriptions_, listeners_, timers, made, conn, inbox, published, got, flaw>>
    BY <1>2 DEF Unsubscribe, network, history
  <2>2. Order'
    BY <1>0, <2>1, OrderKept DEF Queues
  <2>3. BusType' /\ LastListens'
    BY <1>0, <2>1, TicksType DEF BusType, LastListens
  <2> QED
    BY <2>2, <2>3 DEF BusInv
<1>3. ASSUME Clear PROVE BusInv'
  <2>1. /\ subscriptions_' = {} /\ listeners_' = {} /\ conn' = Deleted
        /\ UNCHANGED <<ticks, timers, made, inbox, published, got, flaw>>
    BY <1>3 DEF Clear
  <2>2. \A g \in Listener :
            conn'[g] = IF g \in listeners_ /\ conn[g] = "listening" THEN "closed" ELSE conn[g]
    BY <2>1 DEF Deleted
  <2>3. conn' \in [Listener -> {"none", "connecting", "writing", "asking", "answered",
                                 "listening", "failed", "closed"}]
    BY <1>0, <2>1 DEF Deleted, BusType
  <2>4. Order'
    BY <1>0, <2>1, <2>2, OrderKept DEF Queues
  <2>5. BusType'
    BY <1>0, <2>1, <2>3 DEF BusType
  <2>6. LastListens'
    BY <1>0, <2>1, <2>2 DEF LastListens
  <2> QED
    BY <2>4, <2>5, <2>6 DEF BusInv
<1>4. ASSUME Retry PROVE BusInv'
  <2>1. /\ timers > 0 /\ timers' = timers - 1 /\ RedisSubscribe /\ inbox' = inbox
        /\ UNCHANGED <<subscriptions_, ticks, published, got, flaw>>
    BY <1>4 DEF Retry, RedisSubscribe, history
  <2>2. made < MaxListeners
    BY <1>0, <2>1, BusAssumption DEF BusType
  <2>3. Order'
    BY <1>0, <2>1, <2>2, SubscribeKeeps, OrderKept
  <2>4. BusType'
    BY <1>0, <2>1, <2>2, SubscribeKeeps, BusAssumption DEF BusType
  <2> QED
    BY <1>0, <2>1, <2>2, <2>3, <2>4, SubscribeKeeps DEF BusInv
<1> QED
  BY <1>1, <1>2, <1>3, <1>4 DEF Program

-----------------------------------------------------------------------------
(* The loop *)

\* The tick that runs goes, the others move up.
LEMMA TickGone ==
    ASSUME BusType, ticks # <<>>, ticks' = Tail(ticks)
    PROVE  /\ ticks' \in Seq(TickType)
           /\ 1 \in DOMAIN ticks /\ Head(ticks) = ticks[1]
           /\ DOMAIN ticks' \subseteq Nat \ {0} /\ DOMAIN ticks \subseteq Nat
           /\ \A k \in DOMAIN ticks' : k + 1 \in DOMAIN ticks /\ ticks'[k] = ticks[k + 1]
BY DEF BusType

\* A tick runs.
LEMMA TickKeeps ==
    ASSUME BusInv, Tick
    PROVE  BusInv'
<1>0. BusType /\ Order /\ LastListens
  BY DEF BusInv, Tick
<1>1. /\ ticks # <<>> /\ ticks' = Tail(ticks)
      /\ UNCHANGED <<timers, published>>
  BY DEF Tick
<1>2. /\ ticks' \in Seq(TickType)
      /\ 1 \in DOMAIN ticks /\ Head(ticks) = ticks[1]
      /\ DOMAIN ticks' \subseteq Nat \ {0} /\ DOMAIN ticks \subseteq Nat
      /\ \A k \in DOMAIN ticks' : k + 1 \in DOMAIN ticks /\ ticks'[k] = ticks[k + 1]
  BY <1>0, <1>1, TickGone
<1>3. \A j, k \in DOMAIN ticks' :
          ticks'[j].op = "deliver" /\ ticks'[k].op = "deliver" /\ j < k => ticks'[j].m < ticks'[k].m
  <2> SUFFICES ASSUME NEW j \in DOMAIN ticks', NEW k \in DOMAIN ticks',
                      ticks'[j].op = "deliver", ticks'[k].op = "deliver", j < k
               PROVE  ticks'[j].m < ticks'[k].m
    OBVIOUS
  <2>1. j + 1 < k + 1 /\ j + 1 \in DOMAIN ticks /\ k + 1 \in DOMAIN ticks
    BY <1>2
  <2> QED
    BY <1>0, <1>2, <2>1 DEF Order, TicksInOrder
<1>4. ASSUME NEW i \in Id, Insert(i) \/ Erase(i) PROVE BusInv'
  <2>1. /\ got' = got /\ inbox' = inbox /\ made' = made
        /\ subscriptions_' \subseteq Id /\ listeners_' \subseteq listeners_
        /\ flaw' = flaw \/ flaw' # "none"
    BY <1>0, <1>4 DEF Insert, Erase, network, BusType
  <2>2. \A g \in Listener :
            \/ conn'[g] = conn[g] /\ (g \in listeners_ => g \in listeners_' \/ conn[g] \notin Connected)
            \/ conn'[g] = "closed" /\ g \in listeners_
    BY <1>4 DEF Insert, Erase, network
  <2>3. conn' \in [Listener -> {"none", "connecting", "writing", "asking", "answered",
                                 "listening", "failed", "closed"}]
    BY <1>0, <1>4 DEF Insert, Erase, network, BusType
  <2>4. BusType'
    <3>1. listeners_' \subseteq Listener
      BY <1>0, <2>1 DEF BusType
    <3>2. /\ made' \in 0 .. MaxListeners /\ timers' \in Nat /\ made' + timers' <= MaxListeners
          /\ inbox' \in [Listener -> Seq(Nat)] /\ published' \in Nat /\ got' \in [Id -> Seq(Nat)]
      BY <1>0, <1>1, <2>1 DEF BusType
    <3> QED
      BY <1>2, <2>1, <2>3, <3>1, <3>2 DEF BusType
  <2>5. LastListens'
    <3>1. made \in Nat /\ \A g \in Listener : g \in listeners_ => ~(g > made)
      BY <1>0, BusAssumption DEF LastListens, BusType
    <3> QED
      BY <1>0, <2>1, <2>2, <3>1 DEF LastListens, Connected
  <2>6. ToldOnce' /\ TicksInOrder'
    BY <1>0, <1>1, <1>2, <1>3, <2>1 DEF Order, ToldOnce, TicksInOrder
  <2>7. \A g \in Listener : Queues(g)' => Queues(g)
    BY <2>1, <2>2 DEF Queues
  <2>8. InboxesInOrder'
    BY <1>0, <1>1, <1>2, <2>1, <2>7 DEF Order, InboxesInOrder
  <2> QED
    BY <2>4, <2>5, <2>6, <2>8 DEF BusInv, Order
<1>5. ASSUME NEW to, NEW m, Deliver(to, m), Head(ticks).op = "deliver",
             to = Head(ticks).to, m = Head(ticks).m
      PROVE  BusInv'
  <2>1. UNCHANGED <<subscriptions_, listeners_, made, conn, inbox, flaw>>
    BY <1>5 DEF Deliver, network
  <2>2. m \in Nat /\ m <= published /\ published \in Nat
    <3>1. ticks[1] \in TickType
      BY <1>0, <1>2 DEF BusType
    <3> QED
      BY <1>0, <1>2, <1>5, <3>1 DEF TickType, Order, TicksInOrder, BusType
  <2>3. ASSUME NEW i \in Id
        PROVE  /\ got'[i] \in Seq(Nat)
               /\ \A j \in DOMAIN got'[i] : (j \in DOMAIN got[i] /\ got'[i][j] = got[i][j])
                                             \/ got'[i][j] = m
               /\ \A j, k \in DOMAIN got'[i] : j < k => got'[i][j] < got'[i][k]
    <3>1. got[i] \in Seq(Nat) /\ Len(got[i]) \in Nat
      BY <1>0, <2>3 DEF BusType
    <3>2. /\ \A j \in DOMAIN got[i] : got[i][j] < m
          /\ \A j, k \in DOMAIN got[i] : j < k => got[i][j] < got[i][k]
      BY <1>0, <1>2, <1>5, <2>3 DEF Order, TicksInOrder, ToldOnce
    <3>3. CASE got'[i] = got[i]
      BY <3>1, <3>2, <3>3
    <3>4. CASE got'[i] = Append(got[i], m)
      <4>1. /\ DOMAIN got'[i] = 1 .. Len(got[i]) + 1 /\ got'[i][Len(got[i]) + 1] = m
            /\ \A j \in 1 .. Len(got[i]) : j \in DOMAIN got[i] /\ got'[i][j] = got[i][j]
            /\ got'[i] \in Seq(Nat)
        BY <2>2, <3>1, <3>4
      <4>2. ASSUME NEW j \in DOMAIN got'[i], NEW k \in DOMAIN got'[i], j < k
            PROVE  got'[i][j] < got'[i][k]
        <5>1. j \in 1 .. Len(got[i])
          BY <3>1, <4>1, <4>2
        <5>2. CASE k = Len(got[i]) + 1
          BY <3>2, <4>1, <5>1, <5>2
        <5>3. CASE k # Len(got[i]) + 1
          <6>1. k \in 1 .. Len(got[i])
            BY <3>1, <4>1, <4>2, <5>3
          <6> QED
            BY <3>2, <4>1, <4>2, <5>1, <6>1
        <5> QED
          BY <5>2, <5>3
      <4>3. ASSUME NEW j \in DOMAIN got'[i]
            PROVE  (j \in DOMAIN got[i] /\ got'[i][j] = got[i][j]) \/ got'[i][j] = m
        <5>1. j = Len(got[i]) + 1 \/ j \in 1 .. Len(got[i])
          BY <3>1, <4>1, <4>3
        <5> QED
          BY <4>1, <5>1
      <4> QED
        BY <4>1, <4>2, <4>3
    <3> QED
      BY <1>5, <2>3, <3>3, <3>4 DEF Deliver
  <2>4. BusType'
    <3>1. got' \in [Id -> Seq(Nat)]
      BY <1>5, <2>3 DEF Deliver
    <3> QED
      BY <1>0, <1>1, <1>2, <2>1, <3>1 DEF BusType
  <2>5. LastListens'
    BY <1>0, <2>1 DEF LastListens
  <2>6. ToldOnce'
    BY <2>3 DEF ToldOnce
  <2>7. ASSUME NEW k \in DOMAIN ticks', ticks'[k].op = "deliver"
        PROVE  /\ ticks'[k].m <= published /\ m < ticks'[k].m
               /\ \A i \in Id : \A j \in DOMAIN got[i] : got[i][j] < ticks'[k].m
    <3>1. k + 1 \in DOMAIN ticks /\ 1 < k + 1 /\ ticks'[k] = ticks[k + 1]
      BY <1>2, <2>7
    <3> QED
      BY <1>0, <1>2, <1>5, <2>7, <3>1 DEF Order, TicksInOrder
  <2>8. TicksInOrder'
    <3>1. \A k \in DOMAIN ticks' : ticks'[k].op = "deliver" =>
              ticks'[k].m <= published /\ \A i \in Id : \A j \in DOMAIN got'[i] : got'[i][j] < ticks'[k].m
      BY <2>3, <2>7
    <3>2. \A i \in Id : \A j \in DOMAIN got'[i] : got'[i][j] <= published
      BY <1>0, <2>2, <2>3 DEF Order, TicksInOrder
    <3> QED
      BY <1>1, <1>3, <3>1, <3>2 DEF TicksInOrder
  <2>9. InboxesInOrder'
    <3> SUFFICES ASSUME NEW g \in Listener, NEW n \in DOMAIN inbox[g], Queues(g)
                 PROVE  /\ \A k \in DOMAIN ticks' : ticks'[k].op = "deliver" => ticks'[k].m < inbox[g][n]
                        /\ \A i \in Id : \A k \in DOMAIN got'[i] : got'[i][k] < inbox[g][n]
      BY <1>0, <1>1, <2>1 DEF Order, InboxesInOrder, Queues
    <3>1. /\ \A k \in DOMAIN ticks : ticks[k].op = "deliver" => ticks[k].m < inbox[g][n]
          /\ \A i \in Id : \A k \in DOMAIN got[i] : got[i][k] < inbox[g][n]
      BY <1>0 DEF Order, InboxesInOrder
    <3> QED
      BY <1>2, <1>5, <2>3, <3>1
  <2> QED
    BY <2>4, <2>5, <2>6, <2>8, <2>9 DEF BusInv, Order
<1>6. Head(ticks) \in TickType
  <2>1. ticks[1] \in TickType
    BY <1>0, <1>2 DEF BusType
  <2> QED
    BY <1>2, <2>1
<1> QED
  BY <1>4, <1>5, <1>6 DEF Tick, TickType

-----------------------------------------------------------------------------
(* A subscriber *)

\* It connects, asks, is answered or refused, or fails.
LEMMA GoesKeeps ==
    ASSUME BusInv, NEW g \in Listener,
           Connects(g) \/ Written(g) \/ Answers(g) \/ Refuses(g) \/ Fails(g)
    PROVE  BusInv'
<1>0. BusType /\ Order /\ LastListens
  BY DEF BusInv, Connects, Written, Answers, Refuses, Fails, Goes
<1>1. /\ UNCHANGED <<subscriptions_, listeners_, ticks, made, inbox, published, got>>
      /\ timers' = timers \/ (timers' = timers + 1 /\ Room)
  BY DEF Connects, Written, Answers, Refuses, Fails, bus, network, history
<1>2. \/ conn' = conn
      \/ conn' = [conn EXCEPT ![g] = "writing"] /\ conn[g] = "connecting"
      \/ conn' = [conn EXCEPT ![g] = "asking"] /\ conn[g] = "writing"
      \/ conn' = [conn EXCEPT ![g] = "answered"] /\ conn[g] = "asking"
      \/ conn' = [conn EXCEPT ![g] = "failed"] /\ conn[g] # "none"
  BY DEF Connects, Written, Answers, Refuses, Fails, Goes, network
<1>3. conn' \in [Listener -> {"none", "connecting", "writing", "asking", "answered",
                               "listening", "failed", "closed"}]
  BY <1>0, <1>2 DEF BusType
<1>4. \A h \in Listener :
          \/ conn'[h] = conn[h]
          \/ conn[h] # "none" /\ inbox[h] = <<>> /\ conn'[h] \in {"writing", "asking", "answered"}
          \/ conn[h] # "none" /\ conn'[h] = "failed"
  BY <1>0, <1>2 DEF BusType, LastListens
<1>5. Order'
  <2>1. \A h \in Listener : Queues(h)' => Queues(h) \/ inbox[h] = <<>>
    BY <1>1, <1>4 DEF Queues
  <2> QED
    BY <1>0, <1>1, <2>1, OrderKept
<1>6. BusType'
  <2>1. timers' \in Nat /\ made + timers' <= MaxListeners
    BY <1>0, <1>1, BusAssumption DEF BusType, Room
  <2> QED
    BY <1>0, <1>1, <1>3, <2>1 DEF BusType
<1>7. LastListens'
  BY <1>0, <1>1, <1>4 DEF LastListens
<1> QED
  BY <1>5, <1>6, <1>7 DEF BusInv

\* The reply is read: what came along with it is lost, the rest stays as it is.
LEMMA SubscribedKeeps ==
    ASSUME BusInv, NEW g \in Listener, Subscribed(g)
    PROVE  BusInv'
<1>0. BusType /\ Order /\ LastListens
  BY DEF BusInv, Subscribed, Goes
<1>1. /\ UNCHANGED <<subscriptions_, listeners_, ticks, timers, made, published, got>>
      /\ conn[g] = "answered" /\ conn' = [conn EXCEPT ![g] = "listening"]
      /\ Works' => g \in listeners_
  BY DEF Subscribed, Goes, Uses, bus, history, Works
<1>2. PICK n \in 0 .. Len(inbox[g]) : inbox' = [inbox EXCEPT ![g] = SubSeq(@, n + 1, Len(@))]
  BY DEF Subscribed
<1>3. /\ inbox'[g] \in Seq(Nat)
      /\ n \in Nat /\ DOMAIN inbox[g] \subseteq Nat /\ DOMAIN inbox'[g] \subseteq Nat
      /\ \A j \in DOMAIN inbox'[g] : j + n \in DOMAIN inbox[g] /\ inbox'[g][j] = inbox[g][j + n]
  <2>1. inbox[g] \in Seq(Nat) /\ Len(inbox[g]) \in Nat /\ n \in Nat
    BY <1>0, <1>2 DEF BusType
  <2>2. inbox'[g] = SubSeq(inbox[g], n + 1, Len(inbox[g]))
    BY <1>0, <1>2 DEF BusType
  <2>3. /\ SubSeq(inbox[g], n + 1, Len(inbox[g])) \in Seq(Nat)
        /\ DOMAIN SubSeq(inbox[g], n + 1, Len(inbox[g])) = 1 .. Len(inbox[g]) - n
        /\ \A j \in 1 .. Len(inbox[g]) - n : SubSeq(inbox[g], n + 1, Len(inbox[g]))[j] = inbox[g][j + n]
    BY <1>2, <2>1, SubSeqProperties
  <2> QED
    BY <1>2, <2>1, <2>2, <2>3
<1>4. \A h \in Listener : h # g => inbox'[h] = inbox[h] /\ conn'[h] = conn[h]
  BY <1>0, <1>1, <1>2 DEF BusType
<1>5. inbox' \in [Listener -> Seq(Nat)]
  BY <1>0, <1>2, <1>3 DEF BusType
<1>6. BusType'
  BY <1>0, <1>1, <1>5 DEF BusType
<1>7. ToldOnce' /\ TicksInOrder'
  BY <1>0, <1>1 DEF Order, ToldOnce, TicksInOrder
<1>8. InboxesInOrder'
  <2>1. ASSUME NEW j \in DOMAIN inbox'[g], NEW k \in DOMAIN inbox'[g], j < k
        PROVE  inbox'[g][j] < inbox'[g][k]
    <3>1. j + n < k + n
      BY <1>3, <2>1
    <3> QED
      BY <1>0, <1>3, <2>1, <3>1 DEF Order, InboxesInOrder
  <2>2. Queues(g)' => Queues(g)
    BY <1>1 DEF Queues
  <2>3. ASSUME NEW j \in DOMAIN inbox'[g]
        PROVE  /\ inbox'[g][j] <= published
               /\ Queues(g)' =>
                     /\ \A k \in DOMAIN ticks : ticks[k].op = "deliver" => ticks[k].m < inbox'[g][j]
                     /\ \A i \in Id : \A k \in DOMAIN got[i] : got[i][k] < inbox'[g][j]
    BY <1>0, <1>3, <2>2, <2>3 DEF Order, InboxesInOrder
  <2>4. \A h \in Listener : h # g => (Queues(h)' <=> Queues(h))
    BY <1>1, <1>4 DEF Queues
  <2> QED
    BY <1>0, <1>1, <1>4, <2>1, <2>3, <2>4 DEF Order, InboxesInOrder
<1>9. Works' => LastListens'
  <2> SUFFICES ASSUME Works' PROVE LastListens'
    OBVIOUS
  <2>1. g = made /\ g \in listeners_ /\ conn'[g] = "listening"
    BY <1>0, <1>1 DEF LastListens, BusType
  <2> QED
    BY <1>0, <1>1, <1>4, <2>1 DEF LastListens, BusType, Listener
<1> QED
  BY <1>6, <1>7, <1>8, <1>9 DEF BusInv, Order

\* A message goes from the inbox of the last listener to the ticks.
LEMMA ListenKeeps ==
    ASSUME BusInv, NEW g \in Listener, Listen(g)
    PROVE  BusInv'
<1>0. BusType /\ Order /\ LastListens
  BY DEF BusInv, Listen
<1>1. /\ UNCHANGED <<subscriptions_, listeners_, timers, made, conn, published, got>>
      /\ conn[g] = "listening" /\ inbox[g] # <<>>
      /\ inbox' = [inbox EXCEPT ![g] = Tail(@)]
      /\ ticks' = Append(ticks, [op |-> "deliver", to |-> subscriptions_, m |-> Head(inbox[g])])
  BY DEF Listen, bus, history
<1>2. /\ inbox[g] \in Seq(Nat) /\ inbox'[g] \in Seq(Nat)
      /\ DOMAIN inbox[g] \subseteq Nat /\ DOMAIN inbox'[g] \subseteq Nat \ {0}
      /\ 1 \in DOMAIN inbox[g] /\ Head(inbox[g]) = inbox[g][1] /\ inbox[g][1] \in Nat
      /\ \A j \in DOMAIN inbox'[g] : j + 1 \in DOMAIN inbox[g] /\ inbox'[g][j] = inbox[g][j + 1]
  <2>1. inbox[g] \in Seq(Nat) /\ inbox[g] # <<>> /\ inbox'[g] = Tail(inbox[g])
    BY <1>0, <1>1 DEF BusType
  <2>2. /\ Len(inbox[g]) \in Nat \ {0} /\ DOMAIN inbox[g] = 1 .. Len(inbox[g])
        /\ Head(inbox[g]) = inbox[g][1]
    BY <2>1
  <2>3. /\ inbox'[g] \in Seq(Nat) /\ DOMAIN inbox'[g] = 1 .. Len(inbox[g]) - 1
        /\ \A j \in 1 .. Len(inbox[g]) - 1 : inbox'[g][j] = inbox[g][j + 1]
    BY <2>1, <2>2
  <2>4. inbox[g][1] \in Nat
    BY <2>1, <2>2
  <2> QED
    BY <2>1, <2>2, <2>3, <2>4
<1>3. \A h \in Listener : h # g => inbox'[h] = inbox[h]
  BY <1>0, <1>1 DEF BusType
<1>4. g = made /\ Queues(g) /\ inbox[g][1] <= published
  BY <1>0, <1>1, <1>2 DEF LastListens, Queues, Order, InboxesInOrder
<1>5. /\ ticks \in Seq(TickType) /\ Len(ticks) \in Nat /\ DOMAIN ticks = 1 .. Len(ticks)
      /\ ticks' \in Seq(TickType) /\ DOMAIN ticks' = 1 .. Len(ticks) + 1
      /\ ticks'[Len(ticks) + 1].op = "deliver" /\ ticks'[Len(ticks) + 1].m = inbox[g][1]
      /\ \A k \in 1 .. Len(ticks) : ticks'[k] = ticks[k]
  <2>1. [op |-> "deliver", to |-> subscriptions_, m |-> Head(inbox[g])] \in TickType
    BY <1>0, <1>2 DEF TickType, BusType
  <2>2. ticks \in Seq(TickType)
    BY <1>0 DEF BusType
  <2> QED
    BY <1>1, <1>2, <2>1, <2>2
<1>6. BusType'
  <2>1. inbox' \in [Listener -> Seq(Nat)]
    BY <1>0, <1>1, <1>2 DEF BusType
  <2> QED
    BY <1>0, <1>1, <1>5, <2>1 DEF BusType
<1>7. ToldOnce'
  BY <1>0, <1>1 DEF Order, ToldOnce
\* every tick and all that was told is older than what the listener has queued
<1>8. /\ \A k \in 1 .. Len(ticks) : ticks[k].op = "deliver" =>
            \A j \in DOMAIN inbox[g] : ticks[k].m < inbox[g][j]
      /\ \A i \in Id : \A k \in DOMAIN got[i] : \A j \in DOMAIN inbox[g] : got[i][k] < inbox[g][j]
      /\ \A j, k \in DOMAIN inbox[g] : j < k => inbox[g][j] < inbox[g][k]
  BY <1>0, <1>4, <1>5 DEF Order, InboxesInOrder
<1>9. TicksInOrder'
  <2>1. ASSUME NEW j \in DOMAIN ticks', NEW k \in DOMAIN ticks',
               ticks'[j].op = "deliver", ticks'[k].op = "deliver", j < k
        PROVE  ticks'[j].m < ticks'[k].m
    <3>1. j \in 1 .. Len(ticks)
      BY <1>5, <2>1
    <3>2. CASE k = Len(ticks) + 1
      BY <1>2, <1>5, <1>8, <2>1, <3>1, <3>2
    <3>3. CASE k # Len(ticks) + 1
      <4>1. k \in 1 .. Len(ticks)
        BY <1>5, <2>1, <3>3
      <4> QED
        BY <1>0, <1>5, <2>1, <3>1, <4>1 DEF Order, TicksInOrder
    <3> QED
      BY <3>2, <3>3
  <2>2. ASSUME NEW k \in DOMAIN ticks', ticks'[k].op = "deliver"
        PROVE  /\ ticks'[k].m <= published
               /\ \A i \in Id : \A j \in DOMAIN got[i] : got[i][j] < ticks'[k].m
    <3>1. CASE k = Len(ticks) + 1
      BY <1>2, <1>4, <1>5, <1>8, <3>1
    <3>2. CASE k # Len(ticks) + 1
      <4>1. k \in 1 .. Len(ticks)
        BY <1>5, <2>2, <3>2
      <4> QED
        BY <1>0, <1>5, <2>2, <4>1 DEF Order, TicksInOrder
    <3> QED
      BY <3>1, <3>2
  <2>3. \A i \in Id : \A j \in DOMAIN got[i] : got[i][j] <= published
    BY <1>0 DEF Order, TicksInOrder
  <2> QED
    BY <1>1, <2>1, <2>2, <2>3 DEF TicksInOrder
<1>10. InboxesInOrder'
  <2>1. ASSUME NEW j \in DOMAIN inbox'[g], NEW k \in DOMAIN inbox'[g], j < k
        PROVE  inbox'[g][j] < inbox'[g][k]
    <3>1. j + 1 < k + 1
      BY <1>2, <2>1
    <3> QED
      BY <1>2, <1>8, <2>1, <3>1
  <2>2. ASSUME NEW j \in DOMAIN inbox'[g]
        PROVE  /\ inbox'[g][j] <= published
               /\ \A k \in DOMAIN ticks' : ticks'[k].op = "deliver" => ticks'[k].m < inbox'[g][j]
               /\ \A i \in Id : \A k \in DOMAIN got[i] : got[i][k] < inbox'[g][j]
    <3>1. j + 1 \in DOMAIN inbox[g] /\ 1 < j + 1 /\ inbox'[g][j] = inbox[g][j + 1]
      BY <1>2, <2>2
    <3>2. inbox'[g][j] <= published
      BY <1>0, <3>1 DEF Order, InboxesInOrder
    <3>3. ASSUME NEW k \in DOMAIN ticks', ticks'[k].op = "deliver"
          PROVE  ticks'[k].m < inbox'[g][j]
      <4>1. k = Len(ticks) + 1 \/ k \in 1 .. Len(ticks)
        BY <1>5, <3>3
      <4> QED
        BY <1>2, <1>5, <1>8, <3>1, <3>3, <4>1
    <3> QED
      BY <1>8, <3>1, <3>2, <3>3
  <2>3. \A h \in Listener : h # g => ~Queues(h)
    BY <1>4 DEF Queues
  <2> QED
    BY <1>0, <1>1, <1>3, <2>1, <2>2, <2>3 DEF Order, InboxesInOrder, Queues
<1>11. LastListens'
  BY <1>0, <1>1, <1>3 DEF LastListens
<1> QED
  BY <1>6, <1>7, <1>9, <1>10, <1>11 DEF BusInv, Order

\* A new message is newer than all that are queued.
LEMMA PublishKeeps ==
    ASSUME BusInv, Publish
    PROVE  BusInv'
<1>0. BusType /\ Order /\ LastListens
  BY DEF BusInv, Publish
<1>1. /\ UNCHANGED <<subscriptions_, listeners_, ticks, timers, made, conn, got, flaw>>
      /\ published' = published + 1 /\ published \in Nat
      /\ inbox' = [g \in Listener |-> IF conn[g] \in {"answered", "listening"}
                                      THEN Append(inbox[g], published') ELSE inbox[g]]
  BY <1>0 DEF Publish, bus, BusType
<1>2. ASSUME NEW g \in Listener
      PROVE  /\ inbox'[g] \in Seq(Nat)
             /\ \A j, k \in DOMAIN inbox'[g] : j < k => inbox'[g][j] < inbox'[g][k]
             /\ \A j \in DOMAIN inbox'[g] : \/ j \in DOMAIN inbox[g] /\ inbox'[g][j] = inbox[g][j]
                                            \/ inbox'[g][j] = published + 1
  <2>1. inbox[g] \in Seq(Nat) /\ Len(inbox[g]) \in Nat
    BY <1>0 DEF BusType
  <2>2. /\ \A j, k \in DOMAIN inbox[g] : j < k => inbox[g][j] < inbox[g][k]
        /\ \A j \in DOMAIN inbox[g] : inbox[g][j] \in Nat /\ inbox[g][j] < published + 1
    BY <1>0, <1>1, <2>1 DEF Order, InboxesInOrder
  <2>3. CASE inbox'[g] = inbox[g]
    BY <2>1, <2>2, <2>3
  <2>4. CASE inbox'[g] = Append(inbox[g], published + 1)
    <3>1. /\ inbox'[g] \in Seq(Nat) /\ DOMAIN inbox'[g] = 1 .. Len(inbox[g]) + 1
          /\ inbox'[g][Len(inbox[g]) + 1] = published + 1
          /\ \A j \in 1 .. Len(inbox[g]) : j \in DOMAIN inbox[g] /\ inbox'[g][j] = inbox[g][j]
      BY <1>1, <2>1, <2>4
    <3>2. \A j \in DOMAIN inbox'[g] : j = Len(inbox[g]) + 1 \/ j \in 1 .. Len(inbox[g])
      BY <2>1, <3>1
    <3>3. ASSUME NEW j \in DOMAIN inbox'[g], NEW k \in DOMAIN inbox'[g], j < k
          PROVE  inbox'[g][j] < inbox'[g][k]
      <4>1. j \in 1 .. Len(inbox[g])
        BY <2>1, <3>1, <3>3
      <4> QED
        BY <2>2, <3>1, <3>2, <3>3, <4>1
    <3> QED
      BY <3>1, <3>2, <3>3
  <2> QED
    BY <1>1, <2>3, <2>4
<1>3. BusType'
  BY <1>0, <1>1, <1>2 DEF BusType
<1>4. ToldOnce'
  BY <1>0, <1>1 DEF Order, ToldOnce
<1>5. /\ \A k \in DOMAIN ticks : ticks[k].op = "deliver" =>
            ticks[k].m \in Nat /\ ticks[k].m <= published
      /\ \A i \in Id : \A j \in DOMAIN got[i] : got[i][j] \in Nat /\ got[i][j] <= published
  <2>1. \A k \in DOMAIN ticks : ticks[k] \in TickType
    BY <1>0 DEF BusType
  <2>2. \A i \in Id : \A j \in DOMAIN got[i] : got[i][j] \in Nat
    BY <1>0 DEF BusType
  <2> QED
    BY <1>0, <2>1, <2>2 DEF Order, TicksInOrder, TickType
<1>6. TicksInOrder'
  BY <1>0, <1>1, <1>5 DEF Order, TicksInOrder
<1>7. InboxesInOrder'
  <2> SUFFICES ASSUME NEW g \in Listener, NEW j \in DOMAIN inbox'[g]
               PROVE  /\ inbox'[g][j] <= published + 1
                      /\ Queues(g) =>
                            /\ \A k \in DOMAIN ticks : ticks[k].op = "deliver" => ticks[k].m < inbox'[g][j]
                            /\ \A i \in Id : \A k \in DOMAIN got[i] : got[i][k] < inbox'[g][j]
    BY <1>1, <1>2 DEF InboxesInOrder, Queues
  <2>1. CASE inbox'[g][j] = published + 1
    BY <1>1, <1>5, <2>1
  <2>2. CASE j \in DOMAIN inbox[g] /\ inbox'[g][j] = inbox[g][j]
    <3>1. inbox[g][j] \in Nat
      BY <1>0, <2>2 DEF BusType
    <3> QED
      BY <1>0, <1>1, <2>2, <3>1 DEF Order, InboxesInOrder
  <2> QED
    BY <1>2, <2>1, <2>2
<1>8. LastListens'
  BY <1>0, <1>1 DEF LastListens
<1> QED
  BY <1>3, <1>4, <1>6, <1>7, <1>8 DEF BusInv, Order

-----------------------------------------------------------------------------
\* Every step keeps it.
LEMMA NextBus == BusInv /\ [Next]_vars => BusInv'
<1> SUFFICES ASSUME BusInv, [Next]_vars PROVE BusInv'
  OBVIOUS
<1>1. CASE Program \/ Retry
  BY <1>1, ProgramKeeps
<1>2. CASE Tick
  BY <1>2, TickKeeps
<1>3. ASSUME NEW g \in Listener, Proceeds(g) \/ Refuses(g) \/ Fails(g) PROVE BusInv'
  BY <1>3, GoesKeeps, SubscribedKeeps, ListenKeeps DEF Proceeds
<1>4. CASE Publish
  BY <1>4, PublishKeeps
<1>5. CASE UNCHANGED vars
  <2>1. UNCHANGED <<subscriptions_, listeners_, ticks, timers, made, conn, inbox, published, got, flaw>>
    BY <1>5 DEF vars, bus, network, history
  <2>2. BusType' /\ ToldOnce' /\ TicksInOrder'
    BY <2>1 DEF BusInv, BusType, Order, ToldOnce, TicksInOrder
  <2>3. InboxesInOrder'
    BY <2>1 DEF BusInv, Order, InboxesInOrder, Queues
  <2>4. Works' => LastListens'
    BY <2>1 DEF BusInv, Works, LastListens
  <2> QED
    BY <2>2, <2>3, <2>4 DEF BusInv, Order
<1> QED
  BY <1>1, <1>2, <1>3, <1>4, <1>5 DEF Next

\* BusInv is an invariant of every behaviour.
THEOREM BusInvariant == Spec => []BusInv
<1> QED
  BY InitBus, NextBus, PTL DEF Spec

\* notified() (reproweb/json/redisbus.h) tells no observer of a message twice or out of
\* order, however many listeners were lost, replaced and dropped between two messages.
THEOREM ToldOnceHolds == Spec => []ToldOnce
<1>1. BusInv => ToldOnce
  BY DEF BusInv, Order
<1> QED
  BY <1>1, BusInvariant, PTL

-----------------------------------------------------------------------------
(* Numbers *)

\* Any numbers have a least one.
LEMMA LeastNumber ==
    ASSUME NEW T \in SUBSET Nat, T # {}
    PROVE  \E x \in T : \A y \in T : x <= y
<1>1. IsWellFoundedOn(OpToRel(<, Nat), Nat)
  BY NatLessThanWellFounded
<1>2. PICK x \in T : \A y \in T : ~ (<<y, x>> \in OpToRel(<, Nat))
  BY <1>1, WFMin
<1>3. \A y \in T : ~(y < x)
  BY <1>2 DEF OpToRel
<1> QED
  BY <1>3

-----------------------------------------------------------------------------
(* Databases: sqlite *)

\* The handle of a connection is with one statement, or idle, or closed.
SqliteInv ==
    /\ sqlite3_ \in [Stm -> SUBSET Con] /\ life \in [Stm -> {"new", "refused", "alive", "gone"}]
    /\ \A s \in Stm : life[s] = "new" => sqlite3_[s] = {}
    /\ \A s \in Stm : sqlite3_[s] = {} \/ \E k \in Con : sqlite3_[s] = {k}
    /\ \A s, t \in Stm : s # t => sqlite3_[s] \intersect sqlite3_[t] = {}
    /\ used_ = UNION {sqlite3_[s] : s \in Stm}
    /\ used_ \intersect unused_ = {}
    /\ unused_ \subseteq Con /\ IsFiniteSet(unused_) /\ Cardinality(unused_) <= Capacity

\* SqlitePool has FiniteSets of its own.
LEMMA SqliteCardinality == \A S : Sqlite!Cardinality(S) = Cardinality(S)
BY DEF Sqlite!Cardinality, Cardinality, Sqlite!IsFiniteSet, IsFiniteSet

\* The lowest of the idle addresses is one connection.
LEMMA OneLowest ==
    ASSUME NEW S, S \subseteq Con, S # {}
    PROVE  \E k \in S : Sqlite!Lowest(S) = {k}
<1>1. S \in SUBSET Nat
  BY DatabaseAssumption
<1>2. PICK k \in S : \A l \in S : k <= l
  BY <1>1, LeastNumber
<1>3. \A m \in S : (\A l \in S : m <= l) => m = k
  BY <1>1, <1>2
<1> QED
  BY <1>2, <1>3 DEF Sqlite!Lowest

\* A statement goes, and its connection with it, if that is one too many.
LEMMA EndsKeeps ==
    ASSUME SqliteInv, NEW s \in Stm, NEW held \in BOOLEAN, Sqlite!Ends(s, held)
    PROVE  SqliteInv'
<1>1. CASE held
  BY <1>1 DEF Sqlite!Ends, SqliteInv
<1>2. CASE ~held
  <2> DEFINE mine == sqlite3_[s]
             rest == unused_ \union mine
  <2>1. /\ life' = [life EXCEPT ![s] = "gone"]
        /\ sqlite3_' = [sqlite3_ EXCEPT ![s] = {}]
        /\ used_' = used_ \ mine
        /\ unused_' = IF Cardinality(rest) > Capacity THEN rest \ Sqlite!Lowest(rest) ELSE rest
    BY <1>2, SqliteCardinality DEF Sqlite!Ends
  <2>2. mine = {} \/ \E k \in Con : mine = {k}
    BY DEF SqliteInv
  <2>3. mine \subseteq used_ /\ \A t \in Stm : t # s => mine \intersect sqlite3_[t] = {}
    BY DEF SqliteInv
  <2>4. /\ rest \subseteq Con /\ IsFiniteSet(rest) /\ Cardinality(rest) \in Nat
        /\ Cardinality(rest) <= Capacity + 1
    <3>1. IsFiniteSet(unused_) /\ unused_ \subseteq Con /\ Cardinality(unused_) <= Capacity
          /\ Cardinality(unused_) \in Nat /\ Capacity \in Nat
      BY FS_CardinalityType, DatabaseAssumption DEF SqliteInv
    <3>2. CASE mine = {}
      <4>1. rest = unused_
        BY <3>2
      <4> QED
        BY <3>1, <4>1
    <3>3. ASSUME NEW k \in Con, mine = {k} PROVE <2>4
      <4>1. rest = unused_ \union {k}
        BY <3>3
      <4>2. IsFiniteSet(rest) /\ (Cardinality(rest) = Cardinality(unused_) \/ Cardinality(rest) = Cardinality(unused_) + 1)
        BY <3>1, <4>1, FS_AddElement
      <4> QED
        BY <3>1, <4>1, <4>2
    <3> QED
      BY <2>2, <3>2, <3>3
  <2>5. /\ unused_' \subseteq rest /\ IsFiniteSet(unused_') /\ Cardinality(unused_') <= Capacity
    <3>1. CASE Cardinality(rest) > Capacity
      <4>1. Capacity \in Nat
        BY DatabaseAssumption
      <4>2. rest # {}
        BY <3>1, <4>1, FS_EmptySet
      <4>3. PICK k \in rest : Sqlite!Lowest(rest) = {k}
        BY <2>4, <4>2, OneLowest
      <4>4. IsFiniteSet(rest \ {k}) /\ Cardinality(rest \ {k}) = Cardinality(rest) - 1
        BY <2>4, FS_RemoveElement
      <4>5. unused_' = rest \ {k}
        BY <2>1, <3>1, <4>3
      <4> HIDE DEF rest
      <4> QED
        BY <2>4, <4>1, <4>4, <4>5
    <3>2. CASE ~(Cardinality(rest) > Capacity)
      <4>1. Capacity \in Nat
        BY DatabaseAssumption
      <4> HIDE DEF rest
      <4> QED
        BY <2>1, <2>4, <3>2, <4>1
    <3> QED
      BY <3>1, <3>2
  <2>6. used_' = UNION {sqlite3_'[t] : t \in Stm}
    <3>1. used_ = UNION {sqlite3_[t] : t \in Stm} /\ sqlite3_ \in [Stm -> SUBSET Con]
      BY DEF SqliteInv
    <3> HIDE DEF mine
    <3>2. \A k : k \in used_' <=> \E t \in Stm : k \in sqlite3_'[t]
      BY <2>1, <2>3, <3>1 DEF mine
    <3> QED
      BY <3>2
  <2>7. used_' \intersect unused_' = {}
    BY <2>1, <2>5 DEF SqliteInv
  <2>8. unused_' \subseteq Con
    BY <2>4, <2>5
  <2> HIDE DEF rest, mine
  <2> QED
    BY <2>1, <2>5, <2>6, <2>7, <2>8 DEF SqliteInv
<1> QED
  BY <1>1, <1>2

\* A statement takes an idle connection, or opens one, or there is none.
LEMMA CreateKeeps ==
    ASSUME SqliteInv, NEW s \in Stm, Sqlite!Create(s)
    PROVE  SqliteInv'
<1>1. life[s] = "new" /\ sqlite3_[s] = {}
  BY DEF Sqlite!Create, SqliteInv
<1>2. CASE /\ life' = [life EXCEPT ![s] = "refused"]
           /\ UNCHANGED <<used_, unused_, sqlite3_>>
  BY <1>2 DEF SqliteInv
<1>3. ASSUME NEW k, k \in (IF unused_ # {} THEN Sqlite!Lowest(unused_) ELSE Con \ used_),
             used_' = used_ \union {k}, unused_' = unused_ \ {k},
             sqlite3_' = [sqlite3_ EXCEPT ![s] = {k}], life' = [life EXCEPT ![s] = "alive"]
      PROVE  SqliteInv'
  <2>1. k \in Con /\ k \notin used_
    BY <1>3 DEF SqliteInv, Sqlite!Lowest
  <2>2. IsFiniteSet(unused_') /\ Cardinality(unused_') <= Capacity
    <3>1. Cardinality(unused_) \in Nat /\ Capacity \in Nat
      BY FS_CardinalityType, DatabaseAssumption DEF SqliteInv
    <3>2. CASE k \in unused_
      <4>1. IsFiniteSet(unused_ \ {k}) /\ Cardinality(unused_ \ {k}) = Cardinality(unused_) - 1
        BY <3>2, FS_RemoveElement DEF SqliteInv
      <4> QED
        BY <1>3, <3>1, <4>1 DEF SqliteInv
    <3>3. CASE k \notin unused_
      <4>1. unused_' = unused_
        BY <1>3, <3>3
      <4> QED
        BY <4>1 DEF SqliteInv
    <3> QED
      BY <3>2, <3>3
  <2>3. used_' = UNION {sqlite3_'[t] : t \in Stm}
    <3>1. used_ = UNION {sqlite3_[t] : t \in Stm} /\ sqlite3_ \in [Stm -> SUBSET Con]
      BY DEF SqliteInv
    <3>2. \A l : l \in used_' <=> \E t \in Stm : l \in sqlite3_'[t]
      BY <1>1, <1>3, <3>1
    <3> QED
      BY <3>2
  <2>4. \A t \in Stm : k \notin sqlite3_[t]
    BY <2>1 DEF SqliteInv
  <2> QED
    BY <1>3, <2>1, <2>2, <2>3, <2>4 DEF SqliteInv
<1> QED
  BY <1>2, <1>3 DEF Sqlite!Create

\* Nothing has been opened at first.
LEMMA InitSqlite == DbInit => SqliteInv
<1> SUFFICES ASSUME DbInit PROVE SqliteInv
  OBVIOUS
<1>1. IsFiniteSet({}) /\ Cardinality({}) = 0 /\ Capacity \in Nat
  BY FS_EmptySet, DatabaseAssumption
<1> QED
  BY <1>1 DEF DbInit, Sqlite!Init, SqliteInv

\* Every step keeps it.
LEMMA NextSqlite == SqliteInv /\ [DbNext]_dbVars => SqliteInv'
<1> SUFFICES ASSUME SqliteInv, [DbNext]_dbVars PROVE SqliteInv'
  OBVIOUS
<1>1. CASE UNCHANGED sqlite
  BY <1>1 DEF SqliteInv, sqlite
<1>2. CASE Sqlite!Next
  <2>1. PICK s \in Stm : Sqlite!Create(s) \/ Sqlite!Exec(s) \/ Sqlite!Proceeds(s) \/ Sqlite!Drop(s)
    BY <1>2 DEF Sqlite!Next
  <2>2. UNCHANGED <<life, sqlite3_, used_, unused_>> => SqliteInv'
    BY DEF SqliteInv
  <2>4. CASE Sqlite!Create(s)
    BY <2>4, CreateKeeps
  <2>5. CASE Sqlite!Resolved(s)
    <3>1. (s \in program \union self_) \in BOOLEAN /\ Sqlite!Ends(s, s \in program \union self_)
      BY <2>5 DEF Sqlite!Resolved
    <3> QED
      BY <3>1, EndsKeeps
  <2>6. CASE Sqlite!Reject(s)
    <3>1. (s \in program) \in BOOLEAN /\ Sqlite!Ends(s, s \in program)
      BY <2>6 DEF Sqlite!Reject
    <3> QED
      BY <3>1, EndsKeeps
  <2>7. CASE Sqlite!Drop(s)
    <3>1. (s \in self_ \union inside) \in BOOLEAN /\ Sqlite!Ends(s, s \in self_ \union inside)
      BY <2>7 DEF Sqlite!Drop
    <3> QED
      BY <3>1, EndsKeeps
  <2>8. CASE Sqlite!Exec(s) \/ Sqlite!Run(s) \/ Sqlite!Resolve(s) \/ Sqlite!Breaks(s)
    <3>1. UNCHANGED <<life, sqlite3_, used_, unused_>>
      BY <2>8 DEF Sqlite!Exec, Sqlite!Run, Sqlite!Resolve, Sqlite!Breaks
    <3> QED
      BY <3>1, <2>2
  <2> QED
    BY <2>1, <2>4, <2>5, <2>6, <2>7, <2>8 DEF Sqlite!Proceeds
<1>3. UNCHANGED sqlite \/ Sqlite!Next
  BY DEF DbNext, ByRedis, ByMysql, BySqlite, dbVars
<1> QED
  BY <1>1, <1>2, <1>3

\* It is what Exclusive says, and more.
LEMMA SqliteExclusive == SqliteInv => Sqlite!Exclusive
BY SqliteCardinality DEF SqliteInv, Sqlite!Exclusive

\* The tasks of a statement that was never called twice at a time: there is one or none, and
\* with one the statement holds itself.
TaskInv ==
    /\ posted \in [Stm -> Nat] /\ ran \in [Stm -> Nat] /\ execs \in [Stm -> Nat] /\ settled \in [Stm -> Nat]
    /\ life \in [Stm -> {"new", "refused", "alive", "gone"}] /\ DOMAIN sqlite3_ = Stm
    /\ \A s \in Stm : s \in program => life[s] = "alive"
    /\ \A s \in Stm : life[s] = "alive" => sqlite3_[s] # {}
    /\ \A s \in Stm \ twice :
          /\ posted[s] + ran[s] = IF s \in self_ THEN 1 ELSE 0
          /\ settled[s] + posted[s] + ran[s] = execs[s]
          /\ s \in self_ => life[s] = "alive"
    /\ broken => twice # {}

\* Who ends is gone, and only s ends.
LEMMA EndsLeaves ==
    ASSUME TaskInv, NEW s \in Stm, NEW held \in BOOLEAN, Sqlite!Ends(s, held)
    PROVE  /\ life' \in [Stm -> {"new", "refused", "alive", "gone"}] /\ DOMAIN sqlite3_' = Stm
           /\ \A t \in Stm : t # s \/ held => life'[t] = life[t] /\ sqlite3_'[t] = sqlite3_[t]
           /\ \A t \in Stm : life'[t] = "alive" => sqlite3_'[t] # {}
<1>1. CASE held
  BY <1>1 DEF Sqlite!Ends, TaskInv
<1>2. CASE ~held
  <2>1. life' = [life EXCEPT ![s] = "gone"] /\ sqlite3_' = [sqlite3_ EXCEPT ![s] = {}]
    BY <1>2 DEF Sqlite!Ends
  <2> QED
    BY <1>2, <2>1 DEF TaskInv
<1> QED
  BY <1>1, <1>2

\* Every step keeps it.
LEMMA NextTask == TaskInv /\ [DbNext]_dbVars => TaskInv'
<1> SUFFICES ASSUME TaskInv, [DbNext]_dbVars PROVE TaskInv'
  OBVIOUS
<1>1. CASE UNCHANGED sqlite
  BY <1>1 DEF TaskInv, sqlite
<1>2. CASE Sqlite!Next
  <2>1. PICK s \in Stm : Sqlite!Create(s) \/ Sqlite!Exec(s) \/ Sqlite!Proceeds(s) \/ Sqlite!Drop(s)
    BY <1>2 DEF Sqlite!Next
  <2>2. CASE Sqlite!Create(s)
    <3>1. life[s] = "new"
          /\ UNCHANGED <<self_, posted, ran, execs, settled, broken, twice>>
      BY <2>2 DEF Sqlite!Create
    <3>2. CASE life' = [life EXCEPT ![s] = "refused"] /\ UNCHANGED <<sqlite3_, program>>
      BY <3>1, <3>2 DEF TaskInv
    <3>3. ASSUME NEW k, sqlite3_' = [sqlite3_ EXCEPT ![s] = {k}],
                 life' = [life EXCEPT ![s] = "alive"], program' = program \union {s}
          PROVE  TaskInv'
      BY <3>1, <3>3 DEF TaskInv
    <3> QED
      BY <2>2, <3>2, <3>3 DEF Sqlite!Create
  <2>3. CASE Sqlite!Exec(s)
    <3>1. /\ s \in program
          /\ self_' = self_ \union {s}
          /\ posted' = [posted EXCEPT ![s] = @ + 1]
          /\ execs' = [execs EXCEPT ![s] = @ + 1]
          /\ twice' = IF settled[s] = execs[s] THEN twice ELSE twice \union {s}
          /\ UNCHANGED <<life, program, sqlite3_, ran, settled, broken>>
      BY <2>3 DEF Sqlite!Exec
    <3>2. \A t \in Stm \ twice' : t \in Stm \ twice
      BY <3>1
    <3>3. ASSUME NEW t \in Stm \ twice'
          PROVE  /\ posted'[t] + ran'[t] = IF t \in self_' THEN 1 ELSE 0
                 /\ settled'[t] + posted'[t] + ran'[t] = execs'[t]
                 /\ t \in self_' => life'[t] = "alive"
      <4>1. CASE t # s
        BY <3>1, <3>2, <3>3, <4>1 DEF TaskInv
      <4>2. CASE t = s
        <5>1. settled[s] = execs[s] /\ s \notin twice
          BY <3>1, <3>2, <3>3, <4>2
        <5>2. posted[s] \in Nat /\ ran[s] \in Nat /\ settled[s] \in Nat /\ execs[s] \in Nat
          BY DEF TaskInv
        <5>3. settled[s] + posted[s] + ran[s] = execs[s]
          BY <5>1 DEF TaskInv
        <5>4. posted[s] = 0 /\ ran[s] = 0
          BY ONLY <5>1, <5>2, <5>3
        <5>5. posted'[s] = 1 /\ ran'[s] = 0 /\ settled'[s] = settled[s] /\ execs'[s] = execs[s] + 1
          BY <3>1, <5>4 DEF TaskInv
        <5>6. life'[s] = "alive" /\ s \in self_'
          BY <3>1 DEF TaskInv
        <5> QED
          BY <4>2, <5>1, <5>2, <5>5, <5>6
      <4> QED
        BY <4>1, <4>2
    <3> QED
      BY <3>1, <3>3 DEF TaskInv
  <2>4. CASE Sqlite!Run(s)
    <3>1. /\ posted[s] > 0 /\ posted' = [posted EXCEPT ![s] = @ - 1]
          /\ UNCHANGED <<life, program, self_, sqlite3_, execs, settled, twice>>
      BY <2>4 DEF Sqlite!Run
    <3>2. CASE life[s] = "alive"
      <4>1. ran' = [ran EXCEPT ![s] = @ + 1] /\ UNCHANGED broken
        BY <2>4, <3>2 DEF Sqlite!Run
      <4> QED
        BY <3>1, <4>1 DEF TaskInv
    <3>3. CASE life[s] # "alive"
      <4>1. broken' = TRUE /\ UNCHANGED ran
        BY <2>4, <3>3 DEF Sqlite!Run
      <4>2. s \in twice
        BY <3>1, <3>3 DEF TaskInv
      <4> QED
        BY <3>1, <4>1, <4>2 DEF TaskInv
    <3> QED
      BY <3>2, <3>3
  <2>5. CASE Sqlite!Resolve(s)
    <3>1. /\ ran[s] > 0 /\ ran' = [ran EXCEPT ![s] = @ - 1]
          /\ self_' = self_ \ {s} /\ settled' = [settled EXCEPT ![s] = @ + 1]
          /\ UNCHANGED <<life, program, sqlite3_, posted, execs, broken, twice>>
      BY <2>5 DEF Sqlite!Resolve, Sqlite!Back
    <3> QED
      BY <3>1 DEF TaskInv
  <2>6. CASE Sqlite!Resolved(s)
    <3>1. /\ (s \in program \union self_) \in BOOLEAN /\ Sqlite!Ends(s, s \in program \union self_)
          /\ UNCHANGED <<program, self_, posted, ran, execs, settled, broken, twice>>
      BY <2>6 DEF Sqlite!Resolved
    <3>2. /\ life' \in [Stm -> {"new", "refused", "alive", "gone"}] /\ DOMAIN sqlite3_' = Stm
          /\ \A t \in Stm : t # s \/ s \in program \union self_ => life'[t] = life[t] /\ sqlite3_'[t] = sqlite3_[t]
          /\ \A t \in Stm : life'[t] = "alive" => sqlite3_'[t] # {}
      BY <3>1, EndsLeaves
    <3> QED
      BY <3>1, <3>2 DEF TaskInv
  <2>7. CASE Sqlite!Reject(s)
    <3>1. /\ ran[s] > 0 /\ ran' = [ran EXCEPT ![s] = @ - 1]
          /\ self_' = self_ \ {s} /\ settled' = [settled EXCEPT ![s] = @ + 1]
          /\ (s \in program) \in BOOLEAN /\ Sqlite!Ends(s, s \in program)
          /\ UNCHANGED <<program, posted, execs, broken, twice>>
      BY <2>7 DEF Sqlite!Reject, Sqlite!Back
    <3>2. /\ life' \in [Stm -> {"new", "refused", "alive", "gone"}] /\ DOMAIN sqlite3_' = Stm
          /\ \A t \in Stm : t # s \/ s \in program => life'[t] = life[t] /\ sqlite3_'[t] = sqlite3_[t]
          /\ \A t \in Stm : life'[t] = "alive" => sqlite3_'[t] # {}
      BY <3>1, EndsLeaves
    <3>3. ASSUME NEW t \in Stm \ twice'
          PROVE  /\ posted'[t] + ran'[t] = IF t \in self_' THEN 1 ELSE 0
                 /\ settled'[t] + posted'[t] + ran'[t] = execs'[t]
                 /\ t \in self_' => life'[t] = "alive"
      <4>1. CASE t # s
        BY <3>1, <3>2, <4>1 DEF TaskInv
      <4>2. CASE t = s
        BY <3>1, <4>2 DEF TaskInv
      <4> QED
        BY <4>1, <4>2
    <3>4. /\ posted' \in [Stm -> Nat] /\ ran' \in [Stm -> Nat]
          /\ execs' \in [Stm -> Nat] /\ settled' \in [Stm -> Nat]
      BY <3>1 DEF TaskInv
    <3>5. \A t \in Stm : t \in program' => life'[t] = "alive"
      BY <3>1, <3>2 DEF TaskInv
    <3> QED
      BY <3>1, <3>2, <3>3, <3>4, <3>5 DEF TaskInv
  <2>8. CASE Sqlite!Breaks(s)
    <3>1. /\ ran[s] > 0 /\ life[s] = "gone" /\ ran' = [ran EXCEPT ![s] = @ - 1] /\ broken' = TRUE
          /\ UNCHANGED <<life, program, self_, sqlite3_, posted, execs, settled, twice>>
      BY <2>8 DEF Sqlite!Breaks, Sqlite!Back
    <3>2. s \in twice
      BY <3>1 DEF TaskInv
    <3> QED
      BY <3>1, <3>2 DEF TaskInv
  <2>9. CASE Sqlite!Drop(s)
    <3>1. /\ (s \in self_ \union inside) \in BOOLEAN /\ Sqlite!Ends(s, s \in self_ \union inside)
          /\ program' = program \ {s}
          /\ UNCHANGED <<self_, posted, ran, execs, settled, broken, twice>>
      BY <2>9 DEF Sqlite!Drop
    <3>2. /\ life' \in [Stm -> {"new", "refused", "alive", "gone"}] /\ DOMAIN sqlite3_' = Stm
          /\ \A t \in Stm : t # s \/ s \in self_ => life'[t] = life[t] /\ sqlite3_'[t] = sqlite3_[t]
          /\ \A t \in Stm : life'[t] = "alive" => sqlite3_'[t] # {}
      BY <3>1, EndsLeaves
    <3> QED
      BY <3>1, <3>2 DEF TaskInv
  <2> QED
    BY <2>1, <2>2, <2>3, <2>4, <2>5, <2>6, <2>7, <2>8, <2>9 DEF Sqlite!Proceeds
<1>3. UNCHANGED sqlite \/ Sqlite!Next
  BY DEF DbNext, ByRedis, ByMysql, BySqlite, dbVars
<1> QED
  BY <1>1, <1>2, <1>3

\* Nothing is called at first, and it is what TaskOwns says.
LEMMA SqliteTasks == (DbInit => TaskInv) /\ (TaskInv => Sqlite!TaskOwns)
<1>1. ASSUME DbInit PROVE TaskInv
  BY <1>1 DEF DbInit, Sqlite!Init, TaskInv
<1>2. ASSUME TaskInv PROVE Sqlite!TaskOwns
  BY <1>2 DEF TaskInv, Sqlite!TaskOwns
<1> QED
  BY <1>1, <1>2

-----------------------------------------------------------------------------
(* Databases: mysql *)

\* Every part of the state has its type.
MysqlTypes ==
    /\ kind \in [Call -> {"tx", "execute"}]
    /\ call \in [Call -> Mysql!Calls]
    /\ copies \in [Call -> Nat]
    /\ unused \subseteq Conn /\ marked \subseteq Conn /\ inTx \subseteq Conn
    /\ waiting \in Seq(Call)
    /\ pend \in [Conn -> SUBSET Call]

\* A connection has one user at most, or is idle and clean; what is written and not committed
\* is the writer's own, who has the connection.
MysqlConns ==
    /\ \A c, d \in Call : c # d /\ call[c].con # NoConn => call[c].con # call[d].con
    /\ \A k \in unused : k \notin inTx /\ k \notin marked /\ \A c \in Call : call[c].con # k
    /\ \A k \in inTx \union marked : \E c \in Call : call[c].con = k
    /\ \A k \in Conn : \A c \in pend[k] : kind[c] = "tx" /\ call[c].con = k /\ k \in inTx

\* Nobody waits twice, and whoever waits has no connection yet.
MysqlWaiters ==
    /\ \A i, j \in DOMAIN waiting : waiting[i] = waiting[j] => i = j
    /\ \A i \in DOMAIN waiting : call[waiting[i]].pc = "waiting"

\* How far a call is tells where its connection, its transaction and what it wrote are.
CallInv(c) ==
    LET x == call[c]
        k == call[c].con
    IN  /\ x.pc \in {"new", "waiting", "connecting"} =>
              k = NoConn /\ x.job = "none" /\ copies[c] = 0 /\ c \notin db /\ ~x.held
        /\ copies[c] > 0 \/ x.job \in {"queued", "ok"} \/ x.held => k \in Conn
        /\ x.job # "none" => x.pc \in {"start", "work", "commit", "rollback"}

\* A transaction: what its closure has done, on the worker or not at all, is what the connection and
\* the tables show.  One that cannot be rolled back has its connection marked.
TxInv(c) ==
    LET x == call[c]
        k == call[c].con
    IN  kind[c] = "tx" =>
        /\ x.pc \in {"start", "fun", "work", "commit", "rollback"} => x.held
        /\ x.pc \in {"start", "work", "commit", "rollback"} => x.job # "none"
        /\ x.job = "bad" => k \in marked
        /\ x.pc \in {"start", "fun", "work"} => c \notin db
        /\ x.pc = "start" /\ x.job = "queued" => k \notin inTx
        /\ x.pc = "start" /\ x.job = "ok" => k \in inTx
        /\ x.pc = "fun" => k \in inTx
        /\ x.pc = "work" /\ x.job = "queued" => k \in inTx
        /\ x.pc = "work" /\ x.job = "ok" => c \in pend[k]
        /\ x.pc = "commit" /\ x.job = "queued" => c \in pend[k] /\ c \notin db
        /\ x.pc = "commit" /\ x.job = "ok" => c \in db /\ k \notin inTx
        /\ x.pc = "commit" /\ x.job = "bad" => c \notin db \/ k \notin up
        /\ x.pc = "rollback" /\ x.job = "queued" => c \notin db \/ k \notin up
        /\ x.pc = "rollback" /\ x.job = "ok" => c \notin db /\ k \notin inTx
        /\ x.pc \in {"committed", "resolved"} => c \in db
        /\ x.pc = "rejected" => c \notin db /\ k \notin inTx
        /\ x.pc \in {"committed", "resolved", "rejected", "forgotten"} =>
              ~x.held /\ (k \in inTx => k \in marked)

\* A statement of its own: it is in the tables when it is answered, or its connection was lost.
ExecuteInv(c) ==
    LET x == call[c]
        k == call[c].con
    IN  kind[c] = "execute" =>
        /\ x.pc \in {"new", "waiting", "connecting", "work", "resolved", "rejected"}
        /\ x.pc = "work" => x.job # "none" /\ ~x.held
        /\ x.job = "queued" => c \notin db
        /\ x.job = "ok" => c \in db
        /\ x.job = "bad" => (c \in db => c \in unsure) /\ (k # NoConn => k \in marked)
        /\ x.pc = "resolved" => c \in db
        /\ x.pc = "rejected" => (c \in db => c \in unsure)
        /\ k \notin inTx

\* The invariant of MysqlTx
MysqlInv ==
    /\ MysqlTypes /\ MysqlConns /\ MysqlWaiters
    /\ \A c \in Call : CallInv(c) /\ TxInv(c) /\ ExecuteInv(c)

-----------------------------------------------------------------------------
\* No call has begun.
LEMMA InitMysql == DbInit => MysqlInv
BY DatabaseAssumption DEF DbInit, Mysql!Init, MysqlInv, MysqlTypes, MysqlConns, MysqlWaiters, CallInv, TxInv, ExecuteInv,
   Mysql!Calls

\* What another call does on its own connection leaves those that it does not touch as they were.
LEMMA MysqlFrame ==
    ASSUME MysqlInv, NEW c \in Call, NEW k, call' \in [Call -> Mysql!Calls], copies' \in [Call -> Nat],
           kind' = kind, NEW d \in Call, d # c, call'[d] = call[d], copies'[d] = copies[d], call[d].con # k,
           pend' \in [Conn -> SUBSET Call],
           \A l : l # k => (l \in inTx' <=> l \in inTx) /\ (l \in marked' <=> l \in marked)
                            /\ (l \in up' <=> l \in up),
           \A l \in Conn : l # k => pend'[l] = pend[l],
           d \in db' <=> d \in db, d \in unsure => d \in unsure'
    PROVE  CallInv(d)' /\ TxInv(d)' /\ ExecuteInv(d)'
<1>1. CallInv(d) /\ TxInv(d) /\ ExecuteInv(d) /\ call[d].con \in Conn \union {NoConn}
  BY DEF MysqlInv, MysqlTypes, Mysql!Calls
<1>2. CallInv(d)'
  BY <1>1 DEF CallInv
<1>3. kind[d] = "tx" /\ call[d].pc = "work" /\ call[d].job = "ok" => d \in pend'[call[d].con]
  BY <1>1 DEF CallInv, TxInv
<1>4. kind[d] = "tx" /\ call[d].pc = "commit" /\ call[d].job = "queued" => d \in pend'[call[d].con]
  BY <1>1 DEF CallInv, TxInv
<1>5. TxInv(d)'
  BY <1>1, <1>3, <1>4 DEF TxInv
<1>6. ExecuteInv(d)'
  BY <1>1 DEF ExecuteInv
<1> QED
  BY <1>2, <1>5, <1>6

\* A call goes on with the connection that it has, if any.
LEMMA CallStep ==
    ASSUME MysqlInv, NEW c \in Call, NEW x \in Mysql!Calls, x.con = call[c].con,
           call[c].pc # "waiting", x.pc # "waiting",
           call' = [call EXCEPT ![c] = x],
           copies' \in [Call -> Nat], \A d \in Call : d # c => copies'[d] = copies[d],
           UNCHANGED <<kind, unused, waiting>>,
           pend' \in [Conn -> SUBSET Call], inTx' \subseteq Conn, marked' \subseteq Conn,
           \A l : l # x.con => (l \in inTx' <=> l \in inTx) /\ (l \in marked' <=> l \in marked)
                            /\ (l \in up' <=> l \in up),
           \A l \in Conn : l # x.con => pend'[l] = pend[l],
           \A d \in Call : d # c => ((d \in db' <=> d \in db) /\ (d \in unsure => d \in unsure')),
           x.con \in Conn => \A d \in pend'[x.con] : d = c /\ kind[c] = "tx" /\ x.con \in inTx',
           CallInv(c)', TxInv(c)', ExecuteInv(c)'
    PROVE  MysqlInv'
<1>1. MysqlTypes'
  BY DEF MysqlInv, MysqlTypes
<1>2. \A d \in Call : call'[d].con = call[d].con
  BY DEF MysqlInv, MysqlTypes
<1>3. x.con \in Conn \union {NoConn} /\ NoConn \notin Conn
  BY DatabaseAssumption DEF Mysql!Calls
<1>4. MysqlConns'
  <2>1. \A d, e \in Call : d # e /\ call'[d].con # NoConn => call'[d].con # call'[e].con
    BY <1>2 DEF MysqlInv, MysqlConns
  <2>2. \A k \in unused' : k \notin inTx' /\ k \notin marked' /\ \A d \in Call : call'[d].con # k
    BY <1>2 DEF MysqlInv, MysqlConns
  <2>3. \A k \in inTx' \union marked' : \E d \in Call : call'[d].con = k
    BY <1>2 DEF MysqlInv, MysqlConns
  <2>4. \A k \in Conn : \A d \in pend'[k] : kind[d] = "tx" /\ call'[d].con = k /\ k \in inTx'
    <3>1. TAKE k \in Conn
    <3>2. CASE k = x.con
      BY <1>2, <3>2
    <3>3. CASE k # x.con
      BY <1>2, <3>3 DEF MysqlInv, MysqlConns, MysqlTypes
    <3> QED
      BY <3>2, <3>3
  <2> QED
    BY <2>1, <2>2, <2>3, <2>4 DEF MysqlConns
<1>5. MysqlWaiters'
  BY DEF MysqlInv, MysqlTypes, MysqlWaiters
<1>6. ASSUME NEW d \in Call, d # c PROVE CallInv(d)' /\ TxInv(d)' /\ ExecuteInv(d)'
  <2>1. CASE call[d].con = x.con
    <3>1. x.con = NoConn
      BY <1>6, <2>1 DEF MysqlInv, MysqlConns
    <3>2. NoConn \notin inTx /\ NoConn \notin marked /\ NoConn \notin inTx' /\ NoConn \notin marked'
      BY <1>3 DEF MysqlInv, MysqlTypes
    <3>3. CallInv(d) /\ TxInv(d) /\ ExecuteInv(d) /\ call'[d] = call[d]
      BY <1>6 DEF MysqlInv, MysqlTypes
    <3>4. call[d].job = "none" \/ kind[d] = "execute"
      BY <1>3, <3>1, <3>2, <3>3, <2>1 DEF CallInv, TxInv, MysqlInv, MysqlTypes, Mysql!Calls
    <3>5. CallInv(d)'
      BY <1>6, <3>3 DEF CallInv
    <3>6. TxInv(d)'
      BY <1>3, <1>6, <2>1, <3>1, <3>2, <3>3, <3>4 DEF TxInv, CallInv, MysqlInv, MysqlTypes, Mysql!Calls
    <3>7. ExecuteInv(d)'
      BY <1>6, <2>1, <3>1, <3>2, <3>3 DEF ExecuteInv
    <3> QED
      BY <3>5, <3>6, <3>7
  <2>2. CASE call[d].con # x.con
    <3>1. call' \in [Call -> Mysql!Calls] /\ call'[d] = call[d]
      BY <1>1, <1>6 DEF MysqlTypes, MysqlInv
    <3> QED
      BY <1>6, <2>2, <3>1, MysqlFrame
  <2> QED
    BY <2>1, <2>2
<1> QED
  BY <1>1, <1>4, <1>5, <1>6 DEF MysqlInv

\* A call that has no connection any more: what is left to say of it.
Left(c, y) ==
    /\ y \in Mysql!Calls /\ y.con = NoConn /\ y.job \in {"none", "bad"} /\ ~y.held
    /\ kind[c] = "tx" =>
          /\ y.job = "none" /\ y.pc \in {"committed", "resolved", "rejected", "forgotten"}
          /\ y.pc \in {"committed", "resolved"} => c \in db
          /\ y.pc = "rejected" => c \notin db
    /\ kind[c] = "execute" =>
          /\ y.pc \in {"work", "resolved", "rejected"}
          /\ y.pc = "work" <=> y.job = "bad"
          /\ y.pc = "resolved" => c \in db
          /\ y.pc # "resolved" => (c \in db => c \in unsure)

\* It holds of a call that is over.
LEMMA LeftNext ==
    ASSUME NEW c \in Call, NEW y, Left(c, y), UNCHANGED <<kind, db, unsure>>, kind[c] \in {"tx", "execute"},
           copies'[c] = 0, call'[c] = y, NoConn \notin inTx'
    PROVE  CallInv(c)' /\ TxInv(c)' /\ ExecuteInv(c)'
BY DEF Left, CallInv, TxInv, ExecuteInv, Mysql!Calls

\* A connection is granted to a call that waited, or came with it.
LEMMA GrantedNext ==
    ASSUME NEW c \in Call, NEW k \in Conn, kind' = kind, kind[c] \in {"tx", "execute"}, copies'[c] = 0, c \notin db',
           k \notin inTx', call'[c] = Mysql!Granted(c, k)
    PROVE  CallInv(c)' /\ TxInv(c)' /\ ExecuteInv(c)'
<1>1. CASE kind[c] = "tx"
  <2>1. call'[c] = [pc |-> "start", job |-> "queued", con |-> k, held |-> TRUE]
    BY <1>1 DEF Mysql!Granted
  <2>2. call'[c].pc = "start" /\ call'[c].job = "queued" /\ call'[c].con = k /\ call'[c].held = TRUE
    BY <2>1
  <2> QED
    BY <1>1, <2>2 DEF CallInv, TxInv, ExecuteInv
<1>2. CASE kind[c] = "execute"
  <2>1. call'[c] = [pc |-> "work", job |-> "queued", con |-> k, held |-> FALSE]
    BY <1>2 DEF Mysql!Granted
  <2>2. call'[c].pc = "work" /\ call'[c].job = "queued" /\ call'[c].con = k /\ call'[c].held = FALSE
    BY <2>1
  <2> QED
    BY <1>2, <2>2 DEF CallInv, TxInv, ExecuteInv
<1> QED
  BY <1>1, <1>2

\* A call that is granted a connection has a record of its type.
LEMMA GrantedType ==
    ASSUME NEW c \in Call, NEW k \in Conn, kind[c] \in {"tx", "execute"}
    PROVE  Mysql!Granted(c, k) \in Mysql!Calls /\ Mysql!Granted(c, k).con = k
           /\ Mysql!Granted(c, k).pc \in {"start", "work"}
BY DEF Mysql!Granted, Mysql!Calls

\* Who has waited longest is a call that waits; the others stay as they are.
LEMMA Waiter ==
    ASSUME MysqlInv, waiting # <<>>
    PROVE  /\ Head(waiting) \in Call /\ call[Head(waiting)].pc = "waiting"
           /\ Tail(waiting) \in Seq(Call)
           /\ DOMAIN Tail(waiting) = 1 .. Len(waiting) - 1
           /\ \A i \in DOMAIN Tail(waiting) :
                 i + 1 \in DOMAIN waiting /\ Tail(waiting)[i] = waiting[i + 1] /\ waiting[i + 1] # Head(waiting)
<1>1. waiting \in Seq(Call)
  BY DEF MysqlInv, MysqlTypes
<1>2. Head(waiting) = waiting[1] /\ 1 \in DOMAIN waiting /\ Len(waiting) \in Nat /\ DOMAIN waiting = 1 .. Len(waiting)
  BY <1>1
<1>3. Tail(waiting) \in Seq(Call) /\ Len(Tail(waiting)) = Len(waiting) - 1
      /\ \A i \in 1 .. Len(waiting) - 1 : Tail(waiting)[i] = waiting[i + 1]
  BY <1>1
<1>4. DOMAIN Tail(waiting) = 1 .. Len(waiting) - 1
  BY <1>3
<1>5. \A i \in 1 .. Len(waiting) - 1 : i + 1 \in DOMAIN waiting /\ i + 1 # 1
  BY <1>2
<1> QED
  BY <1>1, <1>2, <1>3, <1>4, <1>5 DEF MysqlInv, MysqlWaiters

\* The last reference to the connection of c goes: the connection is closed, becomes idle, or goes to
\* who has waited longest; nobody finds a transaction on it.
LEMMA CollectKeeps ==
    ASSUME MysqlInv, NEW c \in Call, NEW y, call[c].con # NoConn, call[c].pc # "waiting",
           call[c].con \in inTx => call[c].con \in marked,
           Mysql!Collect(call[c].con, [call EXCEPT ![c] = y]),
           UNCHANGED <<kind, up, db, unsure>>,
           copies' \in [Call -> Nat], \A d \in Call : d # c => copies'[d] = copies[d], copies'[c] = 0,
           Left(c, y)
    PROVE  MysqlInv'
<1> DEFINE k == call[c].con
           cs == [call EXCEPT ![c] = y]
<1>1. /\ k \in Conn /\ NoConn \notin Conn /\ cs \in [Call -> Mysql!Calls] /\ cs[c] = y
      /\ \A d \in Call : d # c => cs[d] = call[d] /\ call[d].con # k
      /\ kind[c] \in {"tx", "execute"} /\ y.con = NoConn /\ y.pc # "waiting"
      /\ call \in [Call -> Mysql!Calls] /\ NoConn \notin inTx
  BY DatabaseAssumption DEF MysqlInv, MysqlTypes, MysqlConns, Left, Mysql!Calls
<1>2. \A d \in Call : cs[d].con # k
  BY <1>1
<1>3. \A i \in DOMAIN waiting : waiting[i] \in Call /\ waiting[i] # c
  BY DEF MysqlInv, MysqlTypes, MysqlWaiters
<1>4. CASE k \in marked
  <2>1. /\ marked' = marked \ {k} /\ inTx' = inTx \ {k} /\ pend' = [pend EXCEPT ![k] = {}] /\ call' = cs
        /\ unused' = unused /\ waiting' = waiting
    BY <1>4 DEF Mysql!Collect
  <2>2. MysqlTypes'
    BY <1>1, <2>1 DEF MysqlInv, MysqlTypes
  <2>3. MysqlConns'
    <3>1. \A d, e \in Call : d # e /\ call'[d].con # NoConn => call'[d].con # call'[e].con
      BY <1>1, <2>1 DEF MysqlInv, MysqlConns
    <3>2. \A l \in unused' : l \notin inTx' /\ l \notin marked' /\ \A d \in Call : call'[d].con # l
      BY <1>1, <2>1 DEF MysqlInv, MysqlConns, MysqlTypes
    <3>3. \A l \in inTx' \union marked' : \E d \in Call : call'[d].con = l
      BY <1>1, <2>1 DEF MysqlInv, MysqlConns
    <3>4. \A l \in Conn : \A d \in pend'[l] : kind[d] = "tx" /\ call'[d].con = l /\ l \in inTx'
      BY <1>1, <2>1 DEF MysqlInv, MysqlConns, MysqlTypes
    <3> QED
      BY <3>1, <3>2, <3>3, <3>4 DEF MysqlConns
  <2>4. MysqlWaiters'
    BY <1>1, <1>3, <2>1 DEF MysqlInv, MysqlWaiters
  <2>5. CallInv(c)' /\ TxInv(c)' /\ ExecuteInv(c)'
    BY <1>1, <2>1, LeftNext
  <2>6. ASSUME NEW d \in Call, d # c PROVE CallInv(d)' /\ TxInv(d)' /\ ExecuteInv(d)'
    <3>1. pend' \in [Conn -> SUBSET Call] /\ call'[d] = call[d] /\ call[d].con # k /\ call' \in [Call -> Mysql!Calls]
      BY <1>1, <2>1, <2>2, <2>6 DEF MysqlTypes
    <3>2. \A l : l # k => (l \in inTx' <=> l \in inTx) /\ (l \in marked' <=> l \in marked) /\ (l \in up' <=> l \in up)
      BY <2>1
    <3>3. \A l \in Conn : l # k => pend'[l] = pend[l]
      BY <2>1 DEF MysqlInv, MysqlTypes
    <3> QED
      BY <2>6, <3>1, <3>2, <3>3, MysqlFrame
  <2> QED
    BY <2>2, <2>3, <2>4, <2>5, <2>6 DEF MysqlInv
<1>5. CASE k \notin marked /\ waiting = <<>>
  <2>1. /\ unused' = unused \union {k} /\ call' = cs /\ UNCHANGED <<marked, inTx, pend, waiting>>
    BY <1>5 DEF Mysql!Collect
  <2>2. MysqlTypes'
    BY <1>1, <2>1 DEF MysqlInv, MysqlTypes
  <2>3. MysqlConns'
    <3>1. \A d, e \in Call : d # e /\ call'[d].con # NoConn => call'[d].con # call'[e].con
      BY <1>1, <2>1 DEF MysqlInv, MysqlConns
    <3>2. \A l \in unused' : l \notin inTx' /\ l \notin marked' /\ \A d \in Call : call'[d].con # l
      BY <1>1, <1>2, <1>5, <2>1 DEF MysqlInv, MysqlConns, MysqlTypes
    <3>3. \A l \in inTx' \union marked' : \E d \in Call : call'[d].con = l
      BY <1>1, <1>5, <2>1 DEF MysqlInv, MysqlConns
    <3>4. \A l \in Conn : \A d \in pend'[l] : kind[d] = "tx" /\ call'[d].con = l /\ l \in inTx'
      BY <1>1, <1>5, <2>1 DEF MysqlInv, MysqlConns, MysqlTypes
    <3> QED
      BY <3>1, <3>2, <3>3, <3>4 DEF MysqlConns
  <2>4. MysqlWaiters'
    BY <1>1, <1>3, <2>1 DEF MysqlInv, MysqlWaiters
  <2>5. CallInv(c)' /\ TxInv(c)' /\ ExecuteInv(c)'
    BY <1>1, <2>1, LeftNext
  <2>6. ASSUME NEW d \in Call, d # c PROVE CallInv(d)' /\ TxInv(d)' /\ ExecuteInv(d)'
    <3>1. pend' \in [Conn -> SUBSET Call] /\ call'[d] = call[d] /\ call[d].con # k /\ call' \in [Call -> Mysql!Calls]
      BY <1>1, <2>1, <2>2, <2>6 DEF MysqlTypes
    <3> QED
      BY <2>1, <2>6, <3>1, MysqlFrame
  <2> QED
    BY <2>2, <2>3, <2>4, <2>5, <2>6 DEF MysqlInv
<1>6. CASE k \notin marked /\ waiting # <<>>
  <2>0. PICK w \in Call : w = Head(waiting)
    BY <1>6, Waiter
  <2>1. /\ call' = [cs EXCEPT ![w] = Mysql!Granted(w, k)] /\ waiting' = Tail(waiting)
        /\ UNCHANGED <<unused, marked, inTx, pend>>
    BY <1>6, <2>0 DEF Mysql!Collect
  <2>2. w \in Call /\ call[w].pc = "waiting" /\ w # c
    BY <1>6, <2>0, Waiter
  <2>3. kind[w] \in {"tx", "execute"} /\ copies'[w] = 0 /\ w \notin db /\ call[w].con = NoConn
    BY <2>2 DEF MysqlInv, MysqlTypes, CallInv
  <2>4. Mysql!Granted(w, k) \in Mysql!Calls /\ Mysql!Granted(w, k).con = k /\ Mysql!Granted(w, k).pc \in {"start", "work"}
    BY <1>1, <2>2, <2>3, GrantedType
  <2>5. /\ call' \in [Call -> Mysql!Calls] /\ call'[w] = Mysql!Granted(w, k) /\ call'[c] = y
        /\ \A d \in Call : d # c /\ d # w => call'[d] = call[d]
    <3> HIDE DEF cs
    <3> QED
      BY <1>1, <2>1, <2>2, <2>4
  <2>6. MysqlTypes'
    BY <1>1, <1>6, <2>0, <2>1, <2>5, Waiter DEF MysqlInv, MysqlTypes
  <2>7. MysqlConns'
    <3>1. \A d \in Call : call'[d].con = k <=> d = w
      BY <1>1, <2>4, <2>5
    <3>2. \A d \in Call : d # w => call'[d].con = NoConn \/ (d # c /\ call'[d].con = call[d].con)
      BY <1>1, <2>5
    <3> HIDE DEF k, cs
    <3>3. \A d, e \in Call : d # e /\ call'[d].con # NoConn => call'[d].con # call'[e].con
      BY <3>1, <3>2 DEF MysqlInv, MysqlConns
    <3>4. \A l \in unused' : l # k
      BY <2>1 DEF MysqlInv, MysqlConns, k
    <3>5. \A l \in unused' : l \notin inTx' /\ l \notin marked' /\ \A d \in Call : call'[d].con # l
      <4>1. TAKE l \in unused'
      <4>2. l \in unused /\ l # k /\ l # NoConn
        BY <1>1, <2>1, <3>4 DEF MysqlInv, MysqlTypes
      <4> QED
        BY <2>1, <3>1, <3>2, <4>2 DEF MysqlInv, MysqlConns
    <3>6. \A l \in inTx' \union marked' : \E d \in Call : call'[d].con = l
      <4>1. TAKE l \in inTx' \union marked'
      <4>2. PICK d \in Call : call[d].con = l
        BY <2>1 DEF MysqlInv, MysqlConns
      <4>3. l # k /\ l \in Conn
        BY <1>1, <1>6, <2>1 DEF k, MysqlInv, MysqlTypes
      <4>4. d # c /\ d # w
        BY <1>1, <2>1, <2>3, <4>1, <4>2, <4>3 DEF k, MysqlInv, MysqlTypes
      <4> QED
        BY <2>1, <2>5, <4>2, <4>4
    <3>7. \A l \in Conn : \A d \in pend'[l] : kind[d] = "tx" /\ call'[d].con = l /\ l \in inTx'
      <4>1. TAKE l \in Conn
      <4>2. TAKE d \in pend'[l]
      <4>3. d \in Call /\ kind[d] = "tx" /\ call[d].con = l /\ l \in inTx
        BY <2>1, <4>2 DEF MysqlInv, MysqlConns, MysqlTypes
      <4>4. d # c /\ d # w
        BY <1>1, <1>6, <2>3, <4>3 DEF k, MysqlInv, MysqlTypes
      <4> QED
        BY <2>1, <2>5, <4>3, <4>4
    <3> QED
      BY <2>1, <3>3, <3>5, <3>6, <3>7 DEF MysqlConns
  <2>8. MysqlWaiters'
    <3>1. \A i, j \in DOMAIN waiting' : waiting'[i] = waiting'[j] => i = j
      BY <1>6, <2>1, Waiter DEF MysqlInv, MysqlWaiters
    <3>2. \A i \in DOMAIN waiting' : call'[waiting'[i]].pc = "waiting"
      <4>1. TAKE i \in DOMAIN waiting'
      <4>2. i + 1 \in DOMAIN waiting /\ waiting'[i] = waiting[i + 1] /\ waiting[i + 1] # w
        BY <1>6, <2>0, <2>1, Waiter
      <4> QED
        BY <1>3, <2>5, <4>2 DEF MysqlInv, MysqlWaiters
    <3> QED
      BY <3>1, <3>2 DEF MysqlWaiters
  <2>9. CallInv(c)' /\ TxInv(c)' /\ ExecuteInv(c)'
    BY <1>1, <2>1, <2>5, LeftNext
  <2>10. CallInv(w)' /\ TxInv(w)' /\ ExecuteInv(w)'
    <3>1. k \notin inTx' /\ w \notin db' /\ kind' = kind
      BY <1>6, <2>1, <2>3
    <3> HIDE DEF k
    <3> QED
      BY <1>1, <2>2, <2>3, <2>5, <3>1, GrantedNext
  <2>11. ASSUME NEW d \in Call, d # c, d # w PROVE CallInv(d)' /\ TxInv(d)' /\ ExecuteInv(d)'
    <3>1. pend' \in [Conn -> SUBSET Call] /\ call'[d] = call[d] /\ call[d].con # k
      BY <1>1, <2>1, <2>5, <2>6, <2>11 DEF MysqlTypes
    <3> QED
      BY <2>1, <2>5, <2>11, <3>1, MysqlFrame
  <2> QED
    BY <2>6, <2>7, <2>8, <2>9, <2>10, <2>11 DEF MysqlInv
<1> QED
  BY <1>4, <1>5, <1>6

\* A call gets a connection that nobody has.
LEMMA GrantKeeps ==
    ASSUME MysqlInv, NEW c \in Call, NEW k \in Conn, call[c].pc \in {"new", "connecting"},
           \A d \in Call : call[d].con # k, k \notin inTx, k \notin marked,
           call' = [call EXCEPT ![c] = Mysql!Granted(c, k)], unused' = unused \ {k},
           UNCHANGED <<kind, copies, marked, waiting, inTx, pend, db, unsure>>,
           \A l : l # k => (l \in up' <=> l \in up)
    PROVE  MysqlInv'
<1>1. /\ NoConn \notin Conn /\ kind[c] \in {"tx", "execute"} /\ call[c].con = NoConn
      /\ copies[c] = 0 /\ c \notin db
  BY DatabaseAssumption DEF MysqlInv, MysqlTypes, CallInv
<1>2. Mysql!Granted(c, k) \in Mysql!Calls /\ Mysql!Granted(c, k).con = k /\ Mysql!Granted(c, k).pc \in {"start", "work"}
  BY <1>1, GrantedType
<1>3. /\ call' \in [Call -> Mysql!Calls] /\ call'[c] = Mysql!Granted(c, k)
      /\ \A d \in Call : d # c => call'[d] = call[d]
  BY <1>2 DEF MysqlInv, MysqlTypes
<1>4. MysqlTypes'
  BY <1>3 DEF MysqlInv, MysqlTypes
<1>5. MysqlConns'
  <2>1. \A d, e \in Call : d # e /\ call'[d].con # NoConn => call'[d].con # call'[e].con
    BY <1>2, <1>3 DEF MysqlInv, MysqlConns
  <2>2. \A l \in unused' : l \notin inTx' /\ l \notin marked' /\ \A d \in Call : call'[d].con # l
    BY <1>2, <1>3 DEF MysqlInv, MysqlConns
  <2>3. \A l \in inTx' \union marked' : \E d \in Call : call'[d].con = l
    BY <1>1, <1>3 DEF MysqlInv, MysqlConns, MysqlTypes
  <2>4. \A l \in Conn : \A d \in pend'[l] : kind'[d] = "tx" /\ call'[d].con = l /\ l \in inTx'
    BY <1>1, <1>3 DEF MysqlInv, MysqlConns, MysqlTypes
  <2> QED
    BY <2>1, <2>2, <2>3, <2>4 DEF MysqlConns
<1>6. MysqlWaiters'
  BY <1>3 DEF MysqlInv, MysqlTypes, MysqlWaiters
<1>7. CallInv(c)' /\ TxInv(c)' /\ ExecuteInv(c)'
  BY <1>1, <1>3, GrantedNext
<1>8. ASSUME NEW d \in Call, d # c PROVE CallInv(d)' /\ TxInv(d)' /\ ExecuteInv(d)'
  <2>1. call'[d] = call[d] /\ pend' \in [Conn -> SUBSET Call] /\ copies' \in [Call -> Nat]
    BY <1>3, <1>4, <1>8 DEF MysqlTypes
  <2> QED
    BY <1>3, <1>8, <2>1, MysqlFrame
<1> QED
  BY <1>4, <1>5, <1>6, <1>7, <1>8 DEF MysqlInv

\* A call gets a connection, or waits, or opens one.
LEMMA GetKeeps ==
    ASSUME MysqlInv, NEW c \in Call, Mysql!Get(c)
    PROVE  MysqlInv'
<1>1. call[c].pc = "new" /\ UNCHANGED <<kind, copies, marked, up, inTx, pend, db, unsure>>
  BY DEF Mysql!Get, Mysql!At, Mysql!server
<1>2. ASSUME NEW k \in unused, unused' = unused \ {k}, call' = [call EXCEPT ![c] = Mysql!Granted(c, k)], waiting' = waiting
      PROVE  MysqlInv'
  <2>1. k \in Conn /\ k \notin inTx /\ k \notin marked /\ \A d \in Call : call[d].con # k
    BY DEF MysqlInv, MysqlTypes, MysqlConns
  <2> QED
    BY <1>1, <1>2, <2>1, GrantKeeps
<1>3. ASSUME NEW s \in {"connecting", "waiting"}, call' = [call EXCEPT ![c].pc = s], unused' = unused,
             waiting' = IF s = "waiting" THEN Append(waiting, c) ELSE waiting
      PROVE  MysqlInv'
  <2>1. /\ call' \in [Call -> Mysql!Calls] /\ call'[c] = [call[c] EXCEPT !.pc = s]
        /\ \A d \in Call : d # c => call'[d] = call[d]
    BY <1>3 DEF MysqlInv, MysqlTypes, Mysql!Calls
  <2>2. /\ call'[c].pc = s /\ call'[c].con = call[c].con /\ call'[c].job = call[c].job /\ call'[c].held = call[c].held
        /\ \A d \in Call : call'[d].con = call[d].con
    <3>1. call[c] \in Mysql!Calls
      BY DEF MysqlInv, MysqlTypes
    <3>2. call'[c].pc = s /\ call'[c].con = call[c].con /\ call'[c].job = call[c].job /\ call'[c].held = call[c].held
      BY <2>1, <3>1 DEF Mysql!Calls
    <3> QED
      BY <2>1, <3>2
  <2>3. waiting \in Seq(Call) /\ waiting' \in Seq(Call)
        /\ \A i \in DOMAIN waiting' : i \notin DOMAIN waiting => i = Len(waiting) + 1 /\ waiting'[i] = c /\ s = "waiting"
    BY <1>3 DEF MysqlInv, MysqlTypes
  <2>4. \A i \in DOMAIN waiting : waiting'[i] = waiting[i] /\ waiting[i] \in Call /\ waiting[i] # c
    BY <1>1, <1>3, <2>3 DEF MysqlInv, MysqlWaiters
  <2>5. MysqlTypes'
    BY <1>1, <1>3, <2>1, <2>3 DEF MysqlInv, MysqlTypes
  <2>6. MysqlConns'
    <3>1. \A d, e \in Call : d # e /\ call'[d].con # NoConn => call'[d].con # call'[e].con
      BY <2>2 DEF MysqlInv, MysqlConns
    <3>2. \A l \in unused' : l \notin inTx' /\ l \notin marked' /\ \A d \in Call : call'[d].con # l
      BY <1>1, <1>3, <2>2 DEF MysqlInv, MysqlConns
    <3>3. \A l \in inTx' \union marked' : \E d \in Call : call'[d].con = l
      BY <1>1, <2>2 DEF MysqlInv, MysqlConns
    <3>4. \A l \in Conn : \A d \in pend'[l] : kind'[d] = "tx" /\ call'[d].con = l /\ l \in inTx'
      BY <1>1, <2>2 DEF MysqlInv, MysqlConns, MysqlTypes
    <3> QED
      BY <3>1, <3>2, <3>3, <3>4 DEF MysqlConns
  <2>7. MysqlWaiters'
    <3>1. \A i, j \in DOMAIN waiting' : waiting'[i] = waiting'[j] => i = j
      BY <2>3, <2>4 DEF MysqlInv, MysqlWaiters
    <3>2. \A i \in DOMAIN waiting' : call'[waiting'[i]].pc = "waiting"
      <4>1. TAKE i \in DOMAIN waiting'
      <4>2. CASE i \in DOMAIN waiting
        BY <2>1, <2>4, <4>2 DEF MysqlInv, MysqlWaiters
      <4>3. CASE i \notin DOMAIN waiting
        BY <2>2, <2>3, <4>3
      <4> QED
        BY <4>2, <4>3
    <3> QED
      BY <3>1, <3>2 DEF MysqlWaiters
  <2>8. CallInv(c)' /\ TxInv(c)' /\ ExecuteInv(c)'
    <3>1. CallInv(c) /\ TxInv(c) /\ ExecuteInv(c) /\ call[c].con = NoConn /\ NoConn \notin inTx
      BY <1>1, DatabaseAssumption DEF MysqlInv, MysqlTypes, CallInv
    <3> QED
      BY <1>1, <2>2, <3>1 DEF CallInv, TxInv, ExecuteInv
  <2>9. ASSUME NEW d \in Call, d # c PROVE CallInv(d)' /\ TxInv(d)' /\ ExecuteInv(d)'
    <3>1. CallInv(d) /\ TxInv(d) /\ ExecuteInv(d) /\ call'[d] = call[d]
      BY <2>1, <2>9 DEF MysqlInv
    <3> QED
      BY <1>1, <3>1 DEF CallInv, TxInv, ExecuteInv
  <2> QED
    BY <2>5, <2>6, <2>7, <2>8, <2>9 DEF MysqlInv
<1> QED
  BY <1>2, <1>3 DEF Mysql!Get

\* A connection is there.
LEMMA ConnectsKeeps ==
    ASSUME MysqlInv, NEW c \in Call, Mysql!Connects(c)
    PROVE  MysqlInv'
<1>1. PICK k \in Conn \ (unused \union Mysql!InUse) :
         call' = [call EXCEPT ![c] = Mysql!Granted(c, k)] /\ up' = up \union {k}
  BY DEF Mysql!Connects
<1>2. call[c].pc = "connecting" /\ UNCHANGED <<kind, copies, unused, marked, waiting, inTx, pend, db, unsure>>
  BY DEF Mysql!Connects, Mysql!At, Mysql!pool
<1>3. k \in Conn /\ k \notin unused /\ \A d \in Call : call[d].con # k
  BY <1>1, DatabaseAssumption DEF Mysql!InUse
<1>4. k \notin inTx /\ k \notin marked
  BY <1>3 DEF MysqlInv, MysqlConns
<1>5. unused' = unused \ {k}
  BY <1>2, <1>3
<1> QED
  BY <1>1, <1>2, <1>3, <1>4, <1>5, GrantKeeps

\* A call is in state x now, which may be the end of its connection.
LEMMA BecomesKeeps ==
    ASSUME MysqlInv, NEW c \in Call, NEW x \in Mysql!Calls, x.con = call[c].con,
           call[c].pc # "waiting", x.pc # "waiting",
           Mysql!Becomes(c, x),
           Mysql!OnlyCopies(x) =>
               Left(c, [x EXCEPT !.con = NoConn]) /\ (x.con \in inTx => x.con \in marked),
           call'[c] = x /\ UNCHANGED <<kind, copies, unused, marked, waiting, up, inTx, pend, db, unsure>>
               => CallInv(c)' /\ TxInv(c)' /\ ExecuteInv(c)'
    PROVE  MysqlInv'
<1>1. UNCHANGED <<kind, copies, up, db, unsure>>
  BY DEF Mysql!Becomes
<1>2. CASE copies[c] = 0 /\ Mysql!OnlyCopies(x) /\ call[c].con # NoConn
  <2>1. Mysql!Collect(call[c].con, [call EXCEPT ![c] = [x EXCEPT !.con = NoConn]])
    BY <1>2 DEF Mysql!Becomes
  <2>2. copies' \in [Call -> Nat] /\ copies'[c] = 0 /\ \A d \in Call : d # c => copies'[d] = copies[d]
    BY <1>1, <1>2 DEF MysqlInv, MysqlTypes
  <2> QED
    BY <1>1, <1>2, <2>1, <2>2, CollectKeeps
<1>3. CASE ~(copies[c] = 0 /\ Mysql!OnlyCopies(x) /\ call[c].con # NoConn)
  <2>1. call' = [call EXCEPT ![c] = x] /\ UNCHANGED <<unused, marked, waiting, inTx, pend>>
    BY <1>3 DEF Mysql!Becomes, Mysql!pool
  <2>2. call'[c] = x
    BY <2>1 DEF MysqlInv, MysqlTypes
  <2>3. CallInv(c)' /\ TxInv(c)' /\ ExecuteInv(c)'
    BY <1>1, <2>1, <2>2
  <2>4. x.con \in Conn => \A d \in pend'[x.con] : d = c /\ kind[c] = "tx" /\ x.con \in inTx'
    <3>1. NoConn \notin Conn
      BY DatabaseAssumption
    <3> QED
      BY <2>1, <3>1 DEF MysqlInv, MysqlConns, MysqlTypes
  <2>5. /\ copies' \in [Call -> Nat] /\ pend' \in [Conn -> SUBSET Call] /\ inTx' \subseteq Conn /\ marked' \subseteq Conn
    BY <1>1, <2>1 DEF MysqlInv, MysqlTypes
  <2> QED
    BY <1>1, <2>1, <2>3, <2>4, <2>5, CallStep
<1> QED
  BY <1>2, <1>3

\* What a call may be at, and its closure
Pcs == {"new", "waiting", "connecting", "start", "fun", "work", "commit", "rollback", "committed",
        "resolved", "rejected", "forgotten"}
Jobs == {"none", "queued", "ok", "bad"}

\* The fields of a record, one by one
LEMMA PcField ==
    ASSUME NEW x \in Mysql!Calls, NEW s \in Pcs
    PROVE  /\ [x EXCEPT !.pc = s] \in Mysql!Calls
           /\ [x EXCEPT !.pc = s].pc = s
           /\ [x EXCEPT !.pc = s].job = x.job
           /\ [x EXCEPT !.pc = s].held = x.held
           /\ [x EXCEPT !.pc = s].con = x.con
BY DEF Mysql!Calls, Pcs

\* The same for its closure
LEMMA JobField ==
    ASSUME NEW x \in Mysql!Calls, NEW j \in Jobs
    PROVE  /\ [x EXCEPT !.job = j] \in Mysql!Calls
           /\ [x EXCEPT !.job = j].pc = x.pc
           /\ [x EXCEPT !.job = j].job = j
           /\ [x EXCEPT !.job = j].held = x.held
           /\ [x EXCEPT !.job = j].con = x.con
BY DEF Mysql!Calls, Jobs

\* The same for its connection
LEMMA ConField ==
    ASSUME NEW x \in Mysql!Calls
    PROVE  /\ [x EXCEPT !.con = NoConn] \in Mysql!Calls
           /\ [x EXCEPT !.con = NoConn].pc = x.pc
           /\ [x EXCEPT !.con = NoConn].job = x.job
           /\ [x EXCEPT !.con = NoConn].held = x.held
           /\ [x EXCEPT !.con = NoConn].con = NoConn
BY DEF Mysql!Calls

\* The records of a call that goes on
Moved(x, s, j) == [x EXCEPT !.pc = s, !.job = j]
Ended(x, s) == [x EXCEPT !.pc = s, !.job = "none", !.held = FALSE]
Taken(x, s) == [x EXCEPT !.pc = s, !.job = "none", !.held = TRUE]

\* The record of a call that goes on
LEMMA TwoFields ==
    ASSUME NEW x \in Mysql!Calls, NEW s \in Pcs, NEW j \in Jobs
    PROVE  LET y == Moved(x, s, j) IN y \in Mysql!Calls /\ y.pc = s /\ y.job = j /\ y.held = x.held /\ y.con = x.con
<1>1. PICK y : y = [x EXCEPT !.pc = s]
  OBVIOUS
<1>2. y \in Mysql!Calls /\ y.pc = s /\ y.job = x.job /\ y.held = x.held /\ y.con = x.con
  BY <1>1, PcField
<1>3. Moved(x, s, j) = [y EXCEPT !.job = j]
  BY <1>1 DEF Moved
<1> QED
  BY <1>2, <1>3, JobField

\* The record of a call that is over
LEMMA EndedFields ==
    ASSUME NEW x \in Mysql!Calls, NEW s \in Pcs
    PROVE  LET y == Ended(x, s) IN y \in Mysql!Calls /\ y.pc = s /\ y.job = "none" /\ ~y.held /\ y.con = x.con
<1>1. PICK y : y = Moved(x, s, "none")
  OBVIOUS
<1>2. y \in Mysql!Calls /\ y.pc = s /\ y.job = "none" /\ y.con = x.con
  BY <1>1, TwoFields DEF Jobs
<1>3. Ended(x, s) = [y EXCEPT !.held = FALSE]
  BY <1>1 DEF Ended, Moved
<1>4. /\ [y EXCEPT !.held = FALSE] \in Mysql!Calls
      /\ [y EXCEPT !.held = FALSE].pc = y.pc
      /\ [y EXCEPT !.held = FALSE].job = y.job
      /\ ~[y EXCEPT !.held = FALSE].held
      /\ [y EXCEPT !.held = FALSE].con = y.con
  BY <1>2 DEF Mysql!Calls
<1> QED
  BY <1>2, <1>3, <1>4

\* The record of a call whose function runs
LEMMA TakenFields ==
    ASSUME NEW x \in Mysql!Calls, NEW s \in Pcs
    PROVE  LET y == Taken(x, s) IN y \in Mysql!Calls /\ y.pc = s /\ y.job = "none" /\ y.held /\ y.con = x.con
<1>1. PICK y : y = Moved(x, s, "none")
  OBVIOUS
<1>2. y \in Mysql!Calls /\ y.pc = s /\ y.job = "none" /\ y.con = x.con
  BY <1>1, TwoFields DEF Jobs
<1>3. Taken(x, s) = [y EXCEPT !.held = TRUE]
  BY <1>1 DEF Taken, Moved
<1>4. /\ [y EXCEPT !.held = TRUE] \in Mysql!Calls
      /\ [y EXCEPT !.held = TRUE].pc = y.pc
      /\ [y EXCEPT !.held = TRUE].job = y.job
      /\ [y EXCEPT !.held = TRUE].held
      /\ [y EXCEPT !.held = TRUE].con = y.con
  BY <1>2 DEF Mysql!Calls
<1> QED
  BY <1>2, <1>3, <1>4

\* The closures of the loop are gone.
LEMMA FinishKeeps ==
    ASSUME MysqlInv, NEW c \in Call, NEW s \in {"committed", "resolved", "rejected", "forgotten"},
           call[c].pc \notin {"waiting", "new", "connecting"},
           Mysql!Finish(c, s),
           kind[c] = "execute" => s \in {"resolved", "rejected"},
           s \in {"committed", "resolved"} => c \in db,
           s = "rejected" => (c \in db => kind[c] = "execute" /\ c \in unsure),
           call[c].con \in inTx => call[c].con \in marked /\ s # "rejected"
    PROVE  MysqlInv'
<1>1. call[c] \in Mysql!Calls /\ kind[c] \in {"tx", "execute"} /\ CallInv(c) /\ TxInv(c) /\ ExecuteInv(c)
  BY DEF MysqlInv, MysqlTypes
<1>0. s \in Pcs
  BY DEF Pcs
<1>2. PICK x : x = Ended(call[c], s)
  OBVIOUS
<1>3. x \in Mysql!Calls /\ x.pc = s /\ x.job = "none" /\ x.con = call[c].con /\ ~x.held
  BY <1>0, <1>1, <1>2, EndedFields
<1>4. Left(c, [x EXCEPT !.con = NoConn])
  <2>1. PICK y : y = [x EXCEPT !.con = NoConn]
    OBVIOUS
  <2>2. y \in Mysql!Calls /\ y.pc = s /\ y.job = "none" /\ ~y.held /\ y.con = NoConn
    BY <1>3, <2>1, ConField
  <2>3. Left(c, y)
    BY <2>2 DEF Left
  <2> QED
    BY <2>1, <2>3
<1>5. Mysql!Becomes(c, x)
  BY <1>2 DEF Mysql!Finish, Ended
<1>6. ASSUME call'[c] = x, UNCHANGED <<kind, copies, unused, marked, waiting, up, inTx, pend, db, unsure>>
      PROVE  CallInv(c)' /\ TxInv(c)' /\ ExecuteInv(c)'
  BY <1>1, <1>3, <1>6 DEF CallInv, TxInv, ExecuteInv
<1>7. x.con \in inTx => x.con \in marked
  BY <1>3
<1>8. x.pc # "waiting"
  BY <1>3
<1> QED
  BY <1>3, <1>4, <1>5, <1>6, <1>7, <1>8, BecomesKeeps

\* What the invariant says of one call
LEMMA CallFacts ==
    ASSUME MysqlInv, NEW c \in Call
    PROVE  /\ call[c] \in Mysql!Calls /\ call[c].pc \in Pcs /\ call[c].job \in Jobs
           /\ call[c].con \in Conn \union {NoConn} /\ kind[c] \in {"tx", "execute"}
           /\ CallInv(c) /\ TxInv(c) /\ ExecuteInv(c) /\ NoConn \notin Conn /\ NoConn \notin inTx
BY DatabaseAssumption DEF MysqlInv, MysqlTypes, Mysql!Calls, Pcs, Jobs

\* A connection cannot be made.
LEMMA ConnectFailsKeeps ==
    ASSUME MysqlInv, NEW c \in Call, Mysql!ConnectFails(c)
    PROVE  MysqlInv'
<1>1. call[c].pc = "connecting" /\ UNCHANGED <<kind, copies, unused, marked, waiting, up, inTx, pend, db, unsure>>
  BY DEF Mysql!ConnectFails, Mysql!At, Mysql!pool, Mysql!server
<1>2. PICK x : x = [call[c] EXCEPT !.pc = "rejected"]
  OBVIOUS
<1>3. x \in Mysql!Calls /\ x.pc = "rejected" /\ x.job = call[c].job /\ x.held = call[c].held /\ x.con = call[c].con
  BY <1>2, CallFacts, PcField DEF Pcs
<1>4. call' = [call EXCEPT ![c] = x] /\ call'[c] = x
  BY <1>2 DEF Mysql!ConnectFails, MysqlInv, MysqlTypes
<1>5. CallInv(c)' /\ TxInv(c)' /\ ExecuteInv(c)'
  BY <1>1, <1>3, <1>4, CallFacts DEF CallInv, TxInv, ExecuteInv
<1>6. /\ copies' \in [Call -> Nat] /\ pend' \in [Conn -> SUBSET Call] /\ inTx' \subseteq Conn /\ marked' \subseteq Conn
      /\ x.con \notin Conn /\ x.pc # "waiting"
  BY <1>1, <1>3, CallFacts DEF MysqlInv, MysqlTypes, CallInv
<1> QED
  BY <1>1, <1>3, <1>4, <1>5, <1>6, CallStep

\* A closure went well, and the loop goes on from it.
LEMMA SucceededKeeps ==
    ASSUME MysqlInv, NEW c \in Call, Mysql!Succeeded(c)
    PROVE  MysqlInv'
<1>1. call[c].job = "ok" /\ call[c].pc \in {"start", "work", "commit", "rollback"}
  BY CallFacts DEF Mysql!Succeeded, CallInv
<1>2. CASE call[c].pc = "start"
  <2>1. Mysql!Becomes(c, Moved(call[c], "fun", "none"))
    BY <1>2 DEF Mysql!Succeeded, Moved
  <2>2. kind[c] = "tx" /\ call[c].held
    BY <1>2, CallFacts DEF TxInv, ExecuteInv
  <2>3. PICK x : x = Moved(call[c], "fun", "none")
    OBVIOUS
  <2>4. x \in Mysql!Calls /\ x.pc = "fun" /\ x.job = "none" /\ x.held = call[c].held /\ x.con = call[c].con
    BY <2>3, CallFacts, TwoFields DEF Pcs, Jobs
  <2>5. ASSUME call'[c] = x, UNCHANGED <<kind, copies, unused, marked, waiting, up, inTx, pend, db, unsure>>
        PROVE  CallInv(c)' /\ TxInv(c)' /\ ExecuteInv(c)'
    BY <1>1, <1>2, <2>2, <2>4, <2>5, CallFacts DEF CallInv, TxInv, ExecuteInv
  <2>6. ~Mysql!OnlyCopies(x)
    BY <2>2, <2>4 DEF Mysql!OnlyCopies
  <2>7. call[c].pc # "waiting" /\ x.pc # "waiting" /\ Mysql!Becomes(c, x)
    BY <1>1, <1>2, <2>1, <2>3, <2>4
  <2> QED
    BY <2>4, <2>5, <2>6, <2>7, BecomesKeeps
<1>3. ASSUME call[c].pc = "work", kind[c] = "tx", NEW s \in {"commit", "rollback"}, Mysql!Post(c, s)
      PROVE  MysqlInv'
  <2>1. Mysql!Becomes(c, Moved(call[c], s, "queued"))
    BY <1>3 DEF Mysql!Post, Moved
  <2>2. call[c].held /\ c \in pend[call[c].con] /\ c \notin db /\ call[c].con \in Conn
    BY <1>1, <1>3, CallFacts DEF CallInv, TxInv
  <2>3. PICK x : x = Moved(call[c], s, "queued")
    OBVIOUS
  <2>4. x \in Mysql!Calls /\ x.pc = s /\ x.job = "queued" /\ x.held = call[c].held /\ x.con = call[c].con
    BY <2>3, CallFacts, TwoFields DEF Pcs, Jobs
  <2>5. ASSUME call'[c] = x, UNCHANGED <<kind, copies, unused, marked, waiting, up, inTx, pend, db, unsure>>
        PROVE  CallInv(c)' /\ TxInv(c)' /\ ExecuteInv(c)'
    BY <1>1, <1>3, <2>2, <2>4, <2>5, CallFacts DEF CallInv, TxInv, ExecuteInv
  <2>6. ~Mysql!OnlyCopies(x)
    BY <2>2, <2>4 DEF Mysql!OnlyCopies
  <2>7. call[c].pc # "waiting" /\ x.pc # "waiting" /\ Mysql!Becomes(c, x)
    BY <1>1, <1>3, <2>1, <2>3, <2>4
  <2> QED
    BY <2>4, <2>5, <2>6, <2>7, BecomesKeeps
<1>4. CASE call[c].pc = "work" /\ kind[c] = "execute"
  <2>1. Mysql!Becomes(c, Taken(call[c], "resolved"))
    BY <1>4 DEF Mysql!Succeeded, Taken
  <2>2. PICK x : x = Taken(call[c], "resolved")
    OBVIOUS
  <2>3. x \in Mysql!Calls /\ x.pc = "resolved" /\ x.job = "none" /\ x.held /\ x.con = call[c].con
    BY <2>2, CallFacts, TakenFields DEF Pcs
  <2>4. ASSUME call'[c] = x, UNCHANGED <<kind, copies, unused, marked, waiting, up, inTx, pend, db, unsure>>
        PROVE  CallInv(c)' /\ TxInv(c)' /\ ExecuteInv(c)'
    BY <1>1, <1>4, <2>3, <2>4, CallFacts DEF CallInv, TxInv, ExecuteInv
  <2>5. ~Mysql!OnlyCopies(x)
    BY <2>3 DEF Mysql!OnlyCopies
  <2>6. call[c].pc # "waiting" /\ x.pc # "waiting" /\ Mysql!Becomes(c, x)
    BY <1>4, <2>1, <2>2, <2>3
  <2> QED
    BY <2>3, <2>4, <2>5, <2>6, BecomesKeeps
<1>5. CASE call[c].pc = "commit"
  <2>1. Mysql!Finish(c, "committed")
    BY <1>5 DEF Mysql!Succeeded
  <2>2. c \in db /\ call[c].con \notin inTx /\ kind[c] = "tx"
    BY <1>1, <1>5, CallFacts DEF TxInv, ExecuteInv
  <2> QED
    BY <1>5, <2>1, <2>2, FinishKeeps
<1>6. CASE call[c].pc = "rollback"
  <2>1. Mysql!Finish(c, "rejected")
    BY <1>6 DEF Mysql!Succeeded
  <2>2. c \notin db /\ call[c].con \notin inTx /\ kind[c] = "tx"
    BY <1>1, <1>6, CallFacts DEF TxInv, ExecuteInv
  <2> QED
    BY <1>6, <2>1, <2>2, FinishKeeps
<1>7. call[c].pc = "work" /\ kind[c] = "tx" => Mysql!Post(c, "commit") \/ Mysql!Post(c, "rollback")
  BY DEF Mysql!Succeeded
<1> QED
  BY <1>1, <1>2, <1>3, <1>4, <1>5, <1>6, <1>7, CallFacts

\* A closure failed, and the loop goes on from it.
LEMMA FailedKeeps ==
    ASSUME MysqlInv, NEW c \in Call, Mysql!Failed(c)
    PROVE  MysqlInv'
<1>1. call[c].job = "bad" /\ call[c].pc \in {"start", "work", "commit", "rollback"}
  BY CallFacts DEF Mysql!Failed, CallInv
<1>2. CASE kind[c] = "execute"
  <2>1. Mysql!Finish(c, "rejected")
    BY <1>2 DEF Mysql!Failed
  <2>2. (c \in db => c \in unsure) /\ call[c].con \notin inTx
    BY <1>1, <1>2, CallFacts DEF ExecuteInv
  <2> QED
    BY <1>1, <1>2, <2>1, <2>2, FinishKeeps
<1>3. CASE kind[c] = "tx" /\ call[c].pc = "rollback"
  <2>1. Mysql!Finish(c, "forgotten")
    BY <1>3 DEF Mysql!Failed
  <2>2. call[c].con \in marked
    BY <1>1, <1>3, CallFacts DEF TxInv
  <2> QED
    BY <1>3, <2>1, <2>2, FinishKeeps
<1>4. CASE kind[c] = "tx" /\ call[c].pc # "rollback"
  <2>1. Mysql!Becomes(c, Moved(call[c], "rollback", "queued"))
    BY <1>4 DEF Mysql!Failed, Mysql!Post, Moved
  <2>2. call[c].held /\ (c \notin db \/ call[c].con \notin up)
    BY <1>1, <1>4, CallFacts DEF TxInv
  <2>3. PICK x : x = Moved(call[c], "rollback", "queued")
    OBVIOUS
  <2>4. x \in Mysql!Calls /\ x.pc = "rollback" /\ x.job = "queued" /\ x.held = call[c].held /\ x.con = call[c].con
    BY <2>3, CallFacts, TwoFields DEF Pcs, Jobs
  <2>5. ASSUME call'[c] = x, UNCHANGED <<kind, copies, unused, marked, waiting, up, inTx, pend, db, unsure>>
        PROVE  CallInv(c)' /\ TxInv(c)' /\ ExecuteInv(c)'
    BY <1>1, <1>4, <2>2, <2>4, <2>5, CallFacts DEF CallInv, TxInv, ExecuteInv
  <2>6. ~Mysql!OnlyCopies(x)
    BY <2>2, <2>4 DEF Mysql!OnlyCopies
  <2>7. call[c].pc # "waiting" /\ x.pc # "waiting" /\ Mysql!Becomes(c, x)
    BY <1>1, <1>4, <2>1, <2>3, <2>4
  <2> QED
    BY <2>4, <2>5, <2>6, <2>7, BecomesKeeps
<1> QED
  BY <1>2, <1>3, <1>4, CallFacts

\* The function of tx() is over: COMMIT, or ROLLBACK.
LEMMA FunKeeps ==
    ASSUME MysqlInv, NEW c \in Call, Mysql!FunExecutes(c) \/ Mysql!FunThrows(c)
    PROVE  MysqlInv'
<1>0. PICK s \in {"work", "rollback"} : Mysql!Post(c, s)
  BY DEF Mysql!FunExecutes, Mysql!FunThrows
<1>8. call[c].pc = "fun"
  BY DEF Mysql!FunExecutes, Mysql!FunThrows, Mysql!At
<1>1. Mysql!Becomes(c, Moved(call[c], s, "queued"))
  BY <1>0 DEF Mysql!Post, Moved
<1>2. kind[c] = "tx" /\ call[c].held /\ c \notin db /\ call[c].con \in inTx
  BY <1>8, CallFacts DEF TxInv, ExecuteInv
<1>3. PICK x : x = Moved(call[c], s, "queued")
  OBVIOUS
<1>4. x \in Mysql!Calls /\ x.pc = s /\ x.job = "queued" /\ x.held = call[c].held /\ x.con = call[c].con
  BY <1>3, CallFacts, TwoFields DEF Pcs, Jobs
<1>5. ASSUME call'[c] = x, UNCHANGED <<kind, copies, unused, marked, waiting, up, inTx, pend, db, unsure>>
      PROVE  CallInv(c)' /\ TxInv(c)' /\ ExecuteInv(c)'
  BY <1>8, <1>2, <1>4, <1>5, CallFacts DEF CallInv, TxInv, ExecuteInv
<1>6. ~Mysql!OnlyCopies(x)
  BY <1>2, <1>4 DEF Mysql!OnlyCopies
<1>7. call[c].pc # "waiting" /\ x.pc # "waiting" /\ Mysql!Becomes(c, x)
  BY <1>8, <1>1, <1>3, <1>4
<1> QED
  BY <1>4, <1>5, <1>6, <1>7, BecomesKeeps

\* The promise of tx() is resolved after the COMMIT.
LEMMA ResolvesKeeps ==
    ASSUME MysqlInv, NEW c \in Call, Mysql!Resolves(c)
    PROVE  MysqlInv'
<1>1. call[c].pc = "committed" /\ Mysql!Becomes(c, [call[c] EXCEPT !.pc = "resolved"])
  BY DEF Mysql!Resolves, Mysql!At
<1>2. PICK x : x = [call[c] EXCEPT !.pc = "resolved"]
  OBVIOUS
<1>3. x \in Mysql!Calls /\ x.pc = "resolved" /\ x.job = call[c].job /\ x.held = call[c].held /\ x.con = call[c].con
  BY <1>2, CallFacts, PcField DEF Pcs
<1>4. /\ kind[c] = "tx" /\ call[c].job = "none" /\ ~call[c].held /\ c \in db
      /\ (call[c].con \in inTx => call[c].con \in marked)
  BY <1>1, CallFacts DEF CallInv, TxInv, ExecuteInv
<1>5. Left(c, [x EXCEPT !.con = NoConn])
  <2>1. PICK y : y = [x EXCEPT !.con = NoConn]
    OBVIOUS
  <2>2. y \in Mysql!Calls /\ y.pc = "resolved" /\ y.job = "none" /\ ~y.held /\ y.con = NoConn
    BY <1>3, <1>4, <2>1, ConField
  <2>3. Left(c, y)
    BY <1>4, <2>2 DEF Left
  <2> QED
    BY <2>1, <2>3
<1>6. ASSUME call'[c] = x, UNCHANGED <<kind, copies, unused, marked, waiting, up, inTx, pend, db, unsure>>
      PROVE  CallInv(c)' /\ TxInv(c)' /\ ExecuteInv(c)'
  BY <1>1, <1>3, <1>4, <1>6, CallFacts DEF CallInv, TxInv, ExecuteInv
<1>7. /\ x.con \in inTx => x.con \in marked
      /\ call[c].pc # "waiting" /\ x.pc # "waiting" /\ Mysql!Becomes(c, x)
  BY <1>1, <1>2, <1>3, <1>4
<1> QED
  BY <1>3, <1>5, <1>6, <1>7, BecomesKeeps

\* The program lets go of its transaction.
LEMMA DropKeeps ==
    ASSUME MysqlInv, NEW c \in Call, Mysql!Drop(c)
    PROVE  MysqlInv'
<1>1. call[c].pc = "resolved" /\ call[c].held /\ Mysql!Finish(c, "resolved")
  BY DEF Mysql!Drop
<1>2. kind[c] = "execute" /\ c \in db /\ call[c].con \notin inTx
  BY <1>1, CallFacts DEF TxInv, ExecuteInv
<1> QED
  BY <1>1, <1>2, FinishKeeps

\* A worker lets go of its copy of a closure.
LEMMA WorkerKeeps ==
    ASSUME MysqlInv, NEW c \in Call, Mysql!WorkerLetsGo(c)
    PROVE  MysqlInv'
<1>1. /\ copies[c] > 0 /\ copies' = [copies EXCEPT ![c] = @ - 1] /\ UNCHANGED <<kind, up, db, unsure>>
      /\ copies \in [Call -> Nat] /\ call[c].con \in Conn
  BY CallFacts DEF Mysql!WorkerLetsGo, MysqlInv, MysqlTypes, CallInv
<1>2. /\ copies' \in [Call -> Nat] /\ copies'[c] = copies[c] - 1
      /\ \A d \in Call : d # c => copies'[d] = copies[d]
  BY <1>1
<1>3. call[c].pc \notin {"new", "waiting", "connecting"}
  BY <1>1, CallFacts DEF CallInv
<1>4. CASE copies[c] = 1 /\ Mysql!OnlyCopies(call[c])
  <2>1. Mysql!Collect(call[c].con, [call EXCEPT ![c] = [call[c] EXCEPT !.con = NoConn]])
    BY <1>4 DEF Mysql!WorkerLetsGo
  <2>2. PICK y : y = [call[c] EXCEPT !.con = NoConn]
    OBVIOUS
  <2>3. y \in Mysql!Calls /\ y.pc = call[c].pc /\ y.job = call[c].job /\ y.held = call[c].held /\ y.con = NoConn
    BY <2>2, CallFacts, ConField
  <2>4. ~call[c].held /\ call[c].job \in {"none", "bad"}
    BY <1>4, CallFacts DEF Mysql!OnlyCopies, Jobs
  <2>5. Left(c, y)
    <3>1. CASE kind[c] = "tx"
      <4>1. call[c].pc \in {"committed", "resolved", "rejected", "forgotten"} /\ call[c].job = "none"
        BY <1>3, <2>4, <3>1, CallFacts DEF TxInv, CallInv, Pcs
      <4> QED
        BY <2>3, <2>4, <3>1, <4>1, CallFacts DEF TxInv, Left
    <3>2. CASE kind[c] = "execute"
      <4>1. call[c].pc \in {"work", "resolved", "rejected"} /\ (call[c].pc = "work" <=> call[c].job = "bad")
        BY <1>3, <2>4, <3>2, CallFacts DEF ExecuteInv, CallInv
      <4> QED
        BY <2>3, <2>4, <3>2, <4>1, CallFacts DEF ExecuteInv, Left
    <3> QED
      BY <3>1, <3>2, CallFacts
  <2>6. call[c].con \in inTx => call[c].con \in marked
    BY <1>3, <2>4, CallFacts DEF TxInv, ExecuteInv, Pcs
  <2>7. call[c].con # NoConn /\ copies'[c] = 0 /\ Mysql!Collect(call[c].con, [call EXCEPT ![c] = y])
    BY <1>1, <1>2, <1>4, <2>1, <2>2, CallFacts
  <2> QED
    BY <1>1, <1>2, <1>3, <2>5, <2>6, <2>7, CollectKeeps
<1>5. CASE ~(copies[c] = 1 /\ Mysql!OnlyCopies(call[c]))
  <2>1. call' = call /\ UNCHANGED <<unused, marked, waiting, inTx, pend>>
    BY <1>5 DEF Mysql!WorkerLetsGo, Mysql!pool
  <2>2. PICK x \in Mysql!Calls : x = call[c]
    BY CallFacts
  <2>3. call' = [call EXCEPT ![c] = x] /\ call'[c] = x
    BY <2>1, <2>2 DEF MysqlInv, MysqlTypes
  <2>4. CallInv(c)' /\ TxInv(c)' /\ ExecuteInv(c)'
    BY <1>1, <1>3, <2>1, CallFacts DEF CallInv, TxInv, ExecuteInv
  <2>5. /\ pend' \in [Conn -> SUBSET Call] /\ inTx' \subseteq Conn /\ marked' \subseteq Conn
        /\ (x.con \in Conn => \A d \in pend'[x.con] : d = c /\ kind[c] = "tx" /\ x.con \in inTx')
    BY <2>1, <2>2, CallFacts DEF MysqlInv, MysqlTypes, MysqlConns
  <2> QED
    BY <1>1, <1>2, <1>3, <2>1, <2>2, <2>3, <2>4, <2>5, CallStep
<1> QED
  BY <1>4, <1>5

\* What mysql commits is what the call that has the connection wrote.
LEMMA CommittedOwn ==
    ASSUME MysqlInv, NEW c \in Call, call[c].job = "queued"
    PROVE  LET k == call[c].con
               now == Mysql!Committed(c, call[c].pc, k)
           IN  /\ k \in Conn /\ call[c].pc \in {"start", "work", "commit", "rollback"} /\ \A d \in pend[k] : d = c
               /\ kind[c] = "execute" => call[c].pc = "work" /\ now = db \union {c} /\ pend[k] = {}
               /\ kind[c] = "tx" /\ call[c].pc = "commit" => now = db \union {c}
               /\ kind[c] = "tx" /\ call[c].pc # "commit" => now = db
<1> DEFINE k == call[c].con
<1>1. k \in Conn /\ call[c].pc \in {"start", "work", "commit", "rollback"}
  BY CallFacts DEF CallInv
<1>2. \A d \in pend[k] : d = c /\ kind[d] = "tx" /\ k \in inTx
  <2>1. \A d \in pend[k] : d \in Call /\ kind[d] = "tx" /\ call[d].con = k /\ k \in inTx
    BY <1>1 DEF MysqlInv, MysqlConns, MysqlTypes
  <2>2. \A d \in Call : call[d].con = k => d = c
    BY <1>1, CallFacts DEF MysqlInv, MysqlConns
  <2> QED
    BY <2>1, <2>2
<1>3. kind[c] = "execute" => call[c].pc = "work" /\ k \notin inTx /\ pend[k] = {}
  BY <1>1, <1>2, CallFacts DEF ExecuteInv
<1>4. kind[c] = "tx" /\ call[c].pc = "start" => pend[k] = {}
  BY <1>2, CallFacts DEF TxInv
<1>5. kind[c] = "tx" /\ call[c].pc = "commit" => pend[k] = {c}
  BY <1>2, CallFacts DEF TxInv
<1>6. kind[c] = "tx" /\ call[c].pc = "work" => k \in inTx
  BY CallFacts DEF TxInv
<1> HIDE DEF k
<1>7. kind[c] = "execute" => Mysql!Committed(c, call[c].pc, k) = db \union {c}
  BY <1>3 DEF Mysql!Committed
<1>8. kind[c] = "tx" /\ call[c].pc = "commit" => Mysql!Committed(c, call[c].pc, k) = db \union {c}
  BY <1>5 DEF Mysql!Committed
<1>9. kind[c] = "tx" /\ call[c].pc # "commit" => Mysql!Committed(c, call[c].pc, k) = db
  BY <1>1, <1>4, <1>6 DEF Mysql!Committed
<1> QED
  BY <1>1, <1>2, <1>3, <1>7, <1>8, <1>9 DEF k

\* A worker runs a statement of a call: mysql does it, or it fails, or the connection is lost.
LEMMA RunKeeps ==
    ASSUME MysqlInv, NEW c \in Call, Mysql!Run(c)
    PROVE  MysqlInv'
<1> DEFINE k == call[c].con
           s == call[c].pc
           now == Mysql!Committed(c, s, k)
<1>1. /\ call[c].job = "queued" /\ copies' = [copies EXCEPT ![c] = @ + 1]
      /\ UNCHANGED <<kind, unused, waiting>> /\ copies \in [Call -> Nat]
  BY DEF Mysql!Run, MysqlInv, MysqlTypes
<1>2. /\ k \in Conn /\ s \in {"start", "work", "commit", "rollback"} /\ \A d \in pend[k] : d = c
      /\ kind[c] = "execute" => s = "work" /\ now = db \union {c} /\ pend[k] = {}
      /\ kind[c] = "tx" /\ s = "commit" => now = db \union {c}
      /\ kind[c] = "tx" /\ s # "commit" => now = db
  BY <1>1, CommittedOwn
<1>3. copies' \in [Call -> Nat] /\ \A d \in Call : d # c => copies'[d] = copies[d]
  BY <1>1
<1>4. /\ inTx \subseteq Conn /\ marked \subseteq Conn /\ pend \in [Conn -> SUBSET Call] /\ call \in [Call -> Mysql!Calls]
  BY DEF MysqlInv, MysqlTypes
<1>5. CASE k \in up /\ Mysql!Does(c, s, k) /\ call' = [call EXCEPT ![c].job = "ok"] /\ marked' = marked
  <2>1. PICK x : x = [call[c] EXCEPT !.job = "ok"]
    OBVIOUS
  <2>2. x \in Mysql!Calls /\ x.pc = s /\ x.job = "ok" /\ x.held = call[c].held /\ x.con = k
    BY <2>1, CallFacts, JobField DEF Jobs
  <2>3. call' = [call EXCEPT ![c] = x] /\ call'[c] = x
    BY <1>4, <1>5, <2>1
  <2>4. /\ db' = now /\ up' = up /\ unsure' = unsure
        /\ inTx' = CASE s = "start" -> inTx \union {k} [] s = "work" -> inTx [] OTHER -> inTx \ {k}
        /\ pend' = [pend EXCEPT ![k] = IF s = "work" THEN (IF k \in inTx THEN @ \union {c} ELSE @) ELSE {}]
    BY <1>5 DEF Mysql!Does
  <2>5. inTx' \subseteq Conn /\ \A l : l # k => (l \in inTx' <=> l \in inTx)
    BY <1>2, <1>4, <2>4
  <2>6. /\ pend' \in [Conn -> SUBSET Call] /\ \A l \in Conn : l # k => pend'[l] = pend[l]
        /\ pend'[k] = IF s = "work" THEN (IF k \in inTx THEN pend[k] \union {c} ELSE pend[k]) ELSE {}
    BY <1>2, <1>4, <2>4
  <2>7. \A d \in Call : d # c => (d \in db' <=> d \in db)
    BY <1>2, <2>4, CallFacts
  <2>8. \A d \in pend'[k] : d = c /\ kind[c] = "tx" /\ k \in inTx'
    <3>1. CASE kind[c] = "execute"
      BY <1>1, <1>2, <2>6, <3>1, CallFacts DEF ExecuteInv
    <3>2. CASE kind[c] = "tx" /\ s = "work"
      BY <1>1, <1>2, <2>4, <2>6, <3>2, CallFacts DEF TxInv
    <3>3. CASE kind[c] = "tx" /\ s # "work"
      BY <2>6, <3>3
    <3> QED
      BY <3>1, <3>2, <3>3, CallFacts
  <2>9. CallInv(c)'
    BY <1>1, <1>2, <2>2, <2>3, CallFacts DEF CallInv
  <2>10. TxInv(c)'
    <3>1. CASE s = "start"
      BY <1>1, <1>2, <2>2, <2>3, <2>4, <3>1, CallFacts DEF TxInv
    <3>2. CASE s = "work"
      BY <1>1, <1>2, <2>2, <2>3, <2>4, <2>6, <3>2, CallFacts DEF TxInv
    <3>3. CASE s \in {"commit", "rollback"}
      <4>1. k \notin inTx'
        BY <2>4, <3>3
      <4>2. kind[c] = "tx" => (s = "commit" => c \in db') /\ (s = "rollback" => c \notin db')
        BY <1>1, <1>2, <1>5, <2>4, <3>3, CallFacts DEF TxInv
      <4> QED
        BY <1>1, <1>2, <2>2, <2>3, <3>3, <4>1, <4>2, CallFacts DEF TxInv
    <3> QED
      BY <1>2, <3>1, <3>2, <3>3
  <2>11. ExecuteInv(c)'
    BY <1>1, <1>2, <2>2, <2>3, <2>4, CallFacts DEF ExecuteInv
  <2>12. /\ x.pc # "waiting" /\ call[c].pc # "waiting" /\ x.con = call[c].con /\ marked' \subseteq Conn
         /\ \A l : l # k => (l \in inTx' <=> l \in inTx) /\ (l \in marked' <=> l \in marked)
                          /\ (l \in up' <=> l \in up)
         /\ \A d \in Call : d # c => ((d \in db' <=> d \in db) /\ (d \in unsure => d \in unsure'))
    BY <1>2, <1>4, <1>5, <2>2, <2>4, <2>5, <2>7
  <2> HIDE DEF k, s, now
  <2> QED
    BY <1>1, <1>3, <2>2, <2>3, <2>5, <2>6, <2>8, <2>9, <2>10, <2>11, <2>12, CallStep DEF k
<1>6. CASE /\ call' = [call EXCEPT ![c].job = "bad"] /\ marked' = marked \union {k}
           /\ UNCHANGED <<up, inTx, pend, db, unsure>> \/ (k \in up /\ Mysql!Lost(c, s, k))
  <2>1. PICK x : x = [call[c] EXCEPT !.job = "bad"]
    OBVIOUS
  <2>2. x \in Mysql!Calls /\ x.pc = s /\ x.job = "bad" /\ x.held = call[c].held /\ x.con = k
    BY <2>1, CallFacts, JobField DEF Jobs
  <2>3. call' = [call EXCEPT ![c] = x] /\ call'[c] = x
    BY <1>4, <1>6, <2>1
  <2>4. \/ UNCHANGED <<up, inTx, pend, db, unsure>>
        \/ /\ up' = up \ {k} /\ inTx' = inTx \ {k} /\ pend' = [pend EXCEPT ![k] = {}]
           /\ db' \in {db, now} /\ unsure' = unsure \union {c}
    BY <1>6 DEF Mysql!Lost
  <2>5. /\ inTx' \subseteq Conn /\ \A l : l # k => (l \in inTx' <=> l \in inTx) /\ (l \in up' <=> l \in up)
        /\ (k \in inTx' => k \in inTx) /\ (k \in up' => k \in up)
    BY <1>2, <1>4, <2>4
  <2>6. pend' \in [Conn -> SUBSET Call] /\ \A l \in Conn : l # k => pend'[l] = pend[l]
    BY <1>2, <1>4, <2>4
  <2>7. \A d \in Call : d # c => ((d \in db' <=> d \in db) /\ (d \in unsure => d \in unsure'))
    BY <1>2, <2>4, CallFacts
  <2>8. \A d \in pend'[k] : d = c /\ kind[c] = "tx" /\ k \in inTx'
    BY <1>2, <1>4, <2>4 DEF MysqlInv, MysqlConns
  <2>9. CallInv(c)'
    BY <1>1, <1>2, <2>2, <2>3, CallFacts DEF CallInv
  <2>10. kind[c] = "tx" => (c \in db' => (c \in db \/ (s = "commit" /\ k \notin up')))
    BY <1>2, <2>4
  <2>11. TxInv(c)'
    <3>1. kind[c] = "tx" /\ s \in {"start", "work", "commit"} => c \notin db
      BY <1>1, CallFacts DEF TxInv
    <3> QED
      BY <1>1, <1>2, <1>6, <2>2, <2>3, <2>5, <2>10, <3>1, CallFacts DEF TxInv
  <2>12. ExecuteInv(c)'
    BY <1>1, <1>2, <1>6, <2>2, <2>3, <2>4, <2>5, CallFacts DEF ExecuteInv
  <2>13. /\ x.pc # "waiting" /\ call[c].pc # "waiting" /\ x.con = call[c].con
         /\ marked' \subseteq Conn /\ \A l : l # k => (l \in marked' <=> l \in marked)
    BY <1>2, <1>4, <1>6, <2>2
  <2> HIDE DEF k, s, now
  <2> QED
    BY <1>1, <1>3, <2>2, <2>3, <2>5, <2>6, <2>7, <2>8, <2>9, <2>11, <2>12, <2>13, CallStep DEF k
<1> QED
  BY <1>5, <1>6 DEF Mysql!Run, Mysql!server

\* Every step keeps it.
LEMMA NextMysql == MysqlInv /\ [DbNext]_dbVars => MysqlInv'
<1> SUFFICES ASSUME MysqlInv, [DbNext]_dbVars PROVE MysqlInv'
  OBVIOUS
<1>1. ASSUME UNCHANGED mysql PROVE MysqlInv'
  BY <1>1 DEF MysqlInv, MysqlTypes, MysqlConns, MysqlWaiters, CallInv, TxInv, ExecuteInv, mysql
<1>2. ASSUME NEW c \in Call, Mysql!Races(c) PROVE MysqlInv'
  BY <1>2 DEF Mysql!Races, Mysql!calls, Mysql!pool, Mysql!server,
              MysqlInv, MysqlTypes, MysqlConns, MysqlWaiters, CallInv, TxInv, ExecuteInv
<1>3. ASSUME Mysql!Next PROVE MysqlInv'
  BY <1>2, <1>3, GetKeeps, ConnectsKeeps, ConnectFailsKeeps, SucceededKeeps, FailedKeeps, FunKeeps, ResolvesKeeps,
     DropKeeps, RunKeeps, WorkerKeeps DEF Mysql!Next, Mysql!Loop
<1> QED
  BY <1>1, <1>3 DEF DbNext, ByRedis, ByMysql, BySqlite, dbVars

\* It implies what the runs check.
LEMMA MysqlSafe == MysqlInv => TxAtomic /\ Mysql!IdleIsClean
<1> SUFFICES ASSUME MysqlInv PROVE TxAtomic /\ Mysql!IdleIsClean
  OBVIOUS
<1>1. ASSUME NEW c \in Call
      PROVE  /\ call[c].pc = "resolved" => c \in db
             /\ call[c].pc = "rejected" =>
                   /\ c \in db => kind[c] = "execute" /\ c \in unsure
                   /\ \A k \in Conn : c \notin pend[k]
  <2>1. \A k \in Conn : c \in pend[k] => kind[c] = "tx" /\ call[c].con \in inTx
    BY DEF MysqlInv, MysqlConns
  <2> QED
    BY <2>1, CallFacts DEF TxInv, ExecuteInv
<1>2. Mysql!IdleIsClean
  <2>1. \A k \in unused : k \notin Mysql!InUse /\ k \notin inTx /\ k \notin marked
    BY DEF MysqlInv, MysqlConns, Mysql!InUse
  <2> QED
    BY <2>1 DEF Mysql!IdleIsClean
<1> QED
  BY <1>1, <1>2 DEF TxAtomic, Mysql!TxAtomic

\* tx() of repromysql (mysql-async.h) resolves if and only if what its function wrote is committed,
\* whatever fails, is lost or runs on the workers at the same time.
THEOREM TxAtomicHolds == DbSpec => []TxAtomic
<1>1. DbInit => MysqlInv
  BY InitMysql
<1>2. MysqlInv /\ [DbNext]_dbVars => MysqlInv'
  BY NextMysql
<1>3. MysqlInv => TxAtomic
  BY MysqlSafe
<1> QED
  BY <1>1, <1>2, <1>3, PTL DEF DbSpec

-----------------------------------------------------------------------------
(* Databases: redis *)

\* What is not empty and bounded has a greatest number.
LEMMA GreatestNumber ==
    ASSUME NEW n \in Nat, NEW T \in SUBSET (1 .. n), T # {}
    PROVE  Redis!Max(T) \in T /\ \A y \in T : y <= Redis!Max(T)
<1> DEFINE U == {n - i : i \in T}
<1>1. U \in SUBSET Nat /\ U # {}
  <2>1. \A i \in T : n - i \in Nat
    OBVIOUS
  <2>2. PICK i : i \in T
    OBVIOUS
  <2> QED
    BY <2>1, <2>2
<1>2. \A y \in T : n - y \in U
  OBVIOUS
<1>3. \A x \in U : \E m \in T : x = n - m
  OBVIOUS
<1> HIDE DEF U
<1>6. PICK x \in U : \A y \in U : x <= y
  BY <1>1, LeastNumber
<1>7. PICK m \in T : x = n - m
  BY <1>3
<1>4. \A y \in T : n - m <= n - y
  BY <1>2, <1>6, <1>7
<1>5. \A y \in T : m >= y
  BY <1>4
<1> QED
  BY <1>5 DEF Redis!Max

-----------------------------------------------------------------------------
(* The grammar of replies *)

\* how many elements a parser still lacks, when so much is open
Twos(s) == {i \in DOMAIN s : s[i] = 2}
Need(s) == IF s = <<>> THEN 0 ELSE 1 + Cardinality(Twos(s))

\* What is open is counted.
LEMMA TwosFinite ==
    ASSUME NEW s \in Seq({1, 2})
    PROVE  IsFiniteSet(Twos(s)) /\ Cardinality(Twos(s)) \in Nat /\ Twos(s) \subseteq 1 .. Len(s) /\ Need(s) \in Nat
<1>1. DOMAIN s = 1 .. Len(s) /\ Len(s) \in Nat
  OBVIOUS
<1>2. IsFiniteSet(1 .. Len(s))
  BY <1>1, FS_Interval
<1>3. Twos(s) \subseteq 1 .. Len(s)
  BY <1>1 DEF Twos
<1>4. IsFiniteSet(Twos(s)) /\ Cardinality(Twos(s)) \in Nat
  BY <1>2, <1>3, FS_Subset, FS_CardinalityType
<1> QED
  BY <1>3, <1>4 DEF Need

\* An element that is complete is one less to come.
LEMMA ElementNeed ==
    ASSUME NEW s \in Seq({1, 2}), s # <<>>
    PROVE  Redis!ElementDone(s) \in Seq({1, 2}) /\ Need(Redis!ElementDone(s)) + 1 = Need(s)
<1>1. /\ DOMAIN s = 1 .. Len(s) /\ Len(s) \in Nat /\ \A i \in 1 .. Len(s) : s[i] \in {1, 2}
      /\ {i \in DOMAIN s : s[i] > 1} = Twos(s)
  BY DEF Twos
<1>2. IsFiniteSet(Twos(s)) /\ Cardinality(Twos(s)) \in Nat /\ Twos(s) \subseteq 1 .. Len(s)
  BY TwosFinite
<1>3. CASE Twos(s) = {}
  <2>1. Redis!ElementDone(s) = <<>>
    BY <1>1, <1>3 DEF Redis!ElementDone
  <2>2. Cardinality({}) = 0
    BY FS_EmptySet
  <2>3. Need(s) = 1
    BY <1>3, <2>2 DEF Need
  <2> QED
    BY <2>1, <2>3 DEF Need
<1>4. CASE Twos(s) # {}
  <2>1. PICK m : m = Redis!Max(Twos(s))
    OBVIOUS
  <2>2. m \in Twos(s) /\ \A y \in Twos(s) : y <= m
    BY <1>1, <1>2, <1>4, <2>1, GreatestNumber
  <2>3. m \in 1 .. Len(s) /\ s[m] = 2
    BY <1>1, <2>2 DEF Twos
  <2>4. PICK h : h = SubSeq(s, 1, m)
    OBVIOUS
  <2>5. h \in Seq({1, 2}) /\ Len(h) = m /\ \A i \in 1 .. m : h[i] = s[i]
    BY <1>1, <2>3, <2>4
  <2>6. PICK t : t = [h EXCEPT ![m] = @ - 1]
    OBVIOUS
  <2>7. t \in Seq({1, 2}) /\ Len(t) = m /\ t[m] = 1 /\ \A i \in 1 .. m : i # m => t[i] = s[i]
    BY <2>3, <2>5, <2>6
  <2>8. Redis!ElementDone(s) = t
    BY <1>1, <1>4, <2>1, <2>4, <2>6 DEF Redis!ElementDone
  <2>9. Twos(t) = Twos(s) \ {m}
    <3>1. DOMAIN t = 1 .. m /\ m \in Nat
      BY <2>3, <2>7
    <3>2. \A i : i \in Twos(t) <=> i \in Twos(s) /\ i # m
      BY <1>1, <2>2, <2>3, <2>7, <3>1 DEF Twos
    <3> QED
      BY <3>2
  <2>10. Cardinality(Twos(t)) = Cardinality(Twos(s)) - 1
    BY <1>2, <2>2, <2>9, FS_RemoveElement
  <2>11. t # <<>>
    BY <2>3, <2>7
  <2> QED
    BY <1>2, <2>7, <2>8, <2>10, <2>11 DEF Need
<1> QED
  BY <1>3, <1>4

\* An array with n elements is one element, with n to come.
LEMMA ArrayNeed ==
    ASSUME NEW s \in Seq({1, 2}), s # <<>>, NEW n \in {1, 2}
    PROVE  Append(s, n) \in Seq({1, 2}) /\ Need(Append(s, n)) + 1 = Need(s) + n
<1>1. /\ IsFiniteSet(Twos(s)) /\ Cardinality(Twos(s)) \in Nat /\ Twos(s) \subseteq 1 .. Len(s) /\ Len(s) \in Nat
      /\ Append(s, n) \in Seq({1, 2}) /\ Append(s, n) # <<>> /\ DOMAIN Append(s, n) = 1 .. Len(s) + 1
      /\ DOMAIN s = 1 .. Len(s)
      /\ Append(s, n)[Len(s) + 1] = n /\ \A i \in 1 .. Len(s) : Append(s, n)[i] = s[i]
  BY TwosFinite
<1>2. CASE n = 1
  <2>1. \A i : i \in Twos(Append(s, n)) <=> i \in Twos(s)
    BY <1>1, <1>2 DEF Twos
  <2>2. Twos(Append(s, n)) = Twos(s)
    BY <2>1
  <2> QED
    BY <1>1, <1>2, <2>2 DEF Need
<1>3. CASE n = 2
  <2>1. \A i : i \in Twos(Append(s, n)) <=> i \in Twos(s) \/ i = Len(s) + 1
    BY <1>1, <1>3 DEF Twos
  <2>2. Twos(Append(s, n)) = Twos(s) \union {Len(s) + 1}
    BY <2>1
  <2>3. Len(s) + 1 \notin Twos(s)
    BY <1>1
  <2>4. Cardinality(Twos(Append(s, n))) = Cardinality(Twos(s)) + 1
    BY <1>1, <2>2, <2>3, FS_AddElement
  <2> QED
    BY <1>1, <1>3, <2>4 DEF Need
<1> QED
  BY <1>2, <1>3

\* p tokens of r are parsed: what is open is what r still has.
Follows(r, p, o, b) ==
    /\ o \in Seq({1, 2}) /\ b \in BOOLEAN
    /\ \E missing \in [0 .. Len(r) -> 0 .. Len(r)] : Redis!Counts(missing, r) /\ Need(o) = missing[p]
    /\ b <=> p > 0 /\ r[p] = "bulk"

\* Nothing is parsed: one value is to come.
LEMMA FollowsStart ==
    ASSUME NEW r \in Reply
    PROVE  Follows(r, 0, <<1>>, FALSE)
<1>1. PICK missing \in [0 .. Len(r) -> 0 .. Len(r)] : Redis!Counts(missing, r)
  BY DatabaseAssumption DEF Redis!OneValue
<1>2. PICK s : s = <<1>>
  OBVIOUS
<1>5. Twos(s) = {} /\ Cardinality({}) = 0 /\ s # <<>>
  BY <1>2, FS_EmptySet DEF Twos
<1>6. Need(s) = 1
  BY <1>5 DEF Need
<1>3. Need(<<1>>) = 1
  BY <1>2, <1>6
<1>4. missing[0] = 1
  BY <1>1 DEF Redis!Counts
<1> QED
  BY <1>1, <1>3, <1>4 DEF Follows

\* Nothing is open: it was all of r, but for the line that ends an empty string.
LEMMA FollowsEnd ==
    ASSUME NEW r \in Reply, NEW p \in 0 .. Len(r), NEW b, Follows(r, p, <<>>, b)
    PROVE  p = Len(r) \/ (p + 1 = Len(r) /\ r[p + 1] = "crlf")
<1>1. PICK missing \in [0 .. Len(r) -> 0 .. Len(r)] : Redis!Counts(missing, r) /\ Need(<<>>) = missing[p]
  BY DEF Follows
<1>2. Len(r) \in Nat
  BY DatabaseAssumption
<1>3. missing[p] = 0
  BY <1>1 DEF Need
<1>4. SUFFICES ASSUME p # Len(r) PROVE p + 1 = Len(r) /\ r[p + 1] = "crlf"
  OBVIOUS
<1>5. p + 1 \in 1 .. Len(r) /\ (p + 1) - 1 = p /\ (p + 2) - 1 = p + 1 /\ (p + 1 # Len(r) => p + 2 \in 1 .. Len(r))
  BY <1>2, <1>4
<1>6. r[p + 1] = "crlf" /\ missing[p + 1] + 1 = missing[p] + Redis!Announced[r[p + 1]]
  BY <1>1, <1>3, <1>5 DEF Redis!Counts
<1>7. missing[p + 1] = 0
  <2>1. missing[p + 1] \in Nat /\ Redis!Announced["crlf"] = 1
    BY <1>1, <1>5 DEF Redis!Announced
  <2> QED
    BY <1>3, <1>6, <2>1
<1>8. ASSUME p + 1 # Len(r) PROVE FALSE
  <2>1. p + 2 \in 1 .. Len(r)
    BY <1>5, <1>8
  <2>2. r[p + 2] = "crlf" /\ (r[p + 2] = "crlf" <=> p + 2 > 1 /\ r[p + 1] = "empty")
    BY <1>1, <1>5, <1>7, <2>1 DEF Redis!Counts
  <2> QED
    BY <1>6, <2>2
<1> QED
  BY <1>6, <1>8

\* One more token is parsed, as the line that it is or as the body of a bulk string.
LEMMA FollowsToken ==
    ASSUME NEW r \in Reply, NEW p \in 0 .. Len(r), p < Len(r), NEW o, o # <<>>, NEW b, Follows(r, p, o, b)
    PROVE  LET t == r[p + 1]
           IN  /\ b => Follows(r, p + 1, Redis!ElementDone(o), FALSE)
               /\ ~b /\ t # "crlf" => Follows(r, p + 1, Redis!AfterLine(t, o), t = "bulk")
<1>1. PICK missing \in [0 .. Len(r) -> 0 .. Len(r)] : Redis!Counts(missing, r) /\ Need(o) = missing[p]
  BY DEF Follows
<1>2. Len(r) \in Nat /\ p + 1 \in 1 .. Len(r) /\ r[p + 1] \in {"line", "none", "bulk", "body", "empty", "crlf", "single", "pair"}
  BY DatabaseAssumption DEF Redis!Announced
<1>3. /\ missing[p + 1] + 1 = missing[p] + Redis!Announced[r[p + 1]]
      /\ r[p + 1] = "body" <=> p + 1 > 1 /\ r[p] = "bulk"
  BY <1>1, <1>2 DEF Redis!Counts
<1>4. o \in Seq({1, 2}) /\ (b <=> p > 0 /\ r[p] = "bulk") /\ missing[p] \in Nat /\ missing[p + 1] \in Nat
  BY <1>1, <1>2 DEF Follows
<1>5. Redis!ElementDone(o) \in Seq({1, 2}) /\ Need(Redis!ElementDone(o)) + 1 = Need(o)
      /\ Need(Redis!ElementDone(o)) \in Nat
  BY <1>4, ElementNeed, TwosFinite
<1>6. ASSUME b PROVE Follows(r, p + 1, Redis!ElementDone(o), FALSE)
  <2>1. r[p + 1] = "body"
    BY <1>2, <1>3, <1>4, <1>6
  <2>2. Need(Redis!ElementDone(o)) = missing[p + 1]
    BY <1>1, <1>3, <1>4, <1>5, <2>1 DEF Redis!Announced
  <2> QED
    BY <1>1, <1>2, <1>5, <2>1, <2>2 DEF Follows
<1>7. ASSUME ~b, r[p + 1] # "crlf" PROVE Follows(r, p + 1, Redis!AfterLine(r[p + 1], o), r[p + 1] = "bulk")
  <2>1. r[p + 1] # "body"
    BY <1>2, <1>3, <1>4, <1>7
  <2>2. ASSUME NEW q \in Seq({1, 2}), Need(q) = missing[p + 1], q = Redis!AfterLine(r[p + 1], o)
        PROVE  Follows(r, p + 1, Redis!AfterLine(r[p + 1], o), r[p + 1] = "bulk")
    <3>1. p + 1 > 0
      OBVIOUS
    <3>2. Follows(r, p + 1, q, r[p + 1] = "bulk")
      BY ONLY <1>1, <2>2, <3>1 DEF Follows
    <3> QED
      BY <2>2, <3>2
  <2>3. CASE r[p + 1] = "bulk"
    <3>1. Redis!AfterLine(r[p + 1], o) = o /\ Need(o) = missing[p + 1]
      BY <1>1, <1>3, <1>4, <2>3 DEF Redis!AfterLine, Redis!Announced
    <3> QED
      BY <1>4, <2>2, <3>1
  <2>4. ASSUME NEW n \in {1, 2}, r[p + 1] = IF n = 1 THEN "single" ELSE "pair"
        PROVE  Follows(r, p + 1, Redis!AfterLine(r[p + 1], o), r[p + 1] = "bulk")
    <3>1. Redis!AfterLine(r[p + 1], o) = Append(o, n) /\ Redis!Announced[r[p + 1]] = n
      BY <2>4 DEF Redis!AfterLine, Redis!Elements, Redis!Announced
    <3>2. Append(o, n) \in Seq({1, 2}) /\ Need(Append(o, n)) + 1 = Need(o) + n /\ Need(Append(o, n)) \in Nat
      BY <1>4, ArrayNeed, TwosFinite
    <3>3. Need(Append(o, n)) = missing[p + 1]
      BY <1>1, <1>3, <1>4, <3>1, <3>2
    <3> QED
      BY <2>2, <3>1, <3>2, <3>3
  <2>5. CASE r[p + 1] \in {"line", "none", "empty"}
    <3>1. Redis!AfterLine(r[p + 1], o) = Redis!ElementDone(o) /\ Redis!Announced[r[p + 1]] = 0
      BY <2>5 DEF Redis!AfterLine, Redis!Elements, Redis!Announced
    <3>2. Need(Redis!ElementDone(o)) = missing[p + 1]
      BY <1>1, <1>3, <1>4, <1>5, <3>1
    <3> QED
      BY <1>5, <2>2, <3>1, <3>2
  <2>6. r[p + 1] = "single" => r[p + 1] = IF 1 = 1 THEN "single" ELSE "pair"
    OBVIOUS
  <2>7. r[p + 1] = "pair" => r[p + 1] = IF 2 = 1 THEN "single" ELSE "pair"
    OBVIOUS
  <2> QED
    BY <1>2, <1>7, <2>1, <2>3, <2>4, <2>5, <2>6, <2>7
<1> QED
  BY <1>6, <1>7

-----------------------------------------------------------------------------
(* Pieces *)

\* The pieces of r after its first p tokens are those in the buffer b and then those in the stream s.
Cut(c, r, p, b, s) ==
    /\ b \in Seq(Cmd \X Nat) /\ s \in Seq(Cmd \X Nat)
    /\ p \in 0 .. Len(r) /\ Len(b) + Len(s) = 2 * (Len(r) - p)
    /\ \A i \in 1 .. Len(b) : b[i] = <<c, p + (i + 1) \div 2>>
    /\ \A i \in 1 .. Len(s) : s[i] = <<c, p + (Len(b) + i + 1) \div 2>>

\* The rest of a sequence from its m-th element on
LEMMA RestOf ==
    ASSUME NEW S, NEW s \in Seq(S), NEW m \in 1 .. Len(s) + 1
    PROVE  /\ SubSeq(s, m, Len(s)) \in Seq(S) /\ Len(SubSeq(s, m, Len(s))) = Len(s) - m + 1
           /\ \A i \in 1 .. Len(s) - m + 1 : SubSeq(s, m, Len(s))[i] = s[m + i - 1]
<1>1. Len(s) \in Int /\ m \in Int /\ \A i \in m .. Len(s) : s[i] \in S
  OBVIOUS
<1> QED
  BY <1>1, SubSeqProperties

\* An answer has arrived, and nothing of it was read.
LEMMA CutStart ==
    ASSUME NEW c \in Cmd, NEW r \in Reply
    PROVE  Cut(c, r, 0, <<>>, <<>> \o Redis!Pieces(c, r))
<1>1. Len(r) \in Nat
  BY DatabaseAssumption
<1>2. PICK s : s = Redis!Pieces(c, r)
  OBVIOUS
<1>3. s = [i \in 1 .. 2 * Len(r) |-> <<c, (i + 1) \div 2>>]
  BY <1>2 DEF Redis!Pieces
<1>4. s \in Seq(Cmd \X Nat) /\ Len(s) = 2 * Len(r) /\ \A i \in 1 .. 2 * Len(r) : s[i] = <<c, (i + 1) \div 2>>
  <2>1. \A i \in 1 .. 2 * Len(r) : <<c, (i + 1) \div 2>> \in Cmd \X Nat
    BY <1>1
  <2>2. s \in [1 .. 2 * Len(r) -> Cmd \X Nat] /\ 2 * Len(r) \in Nat
    BY <1>1, <1>3, <2>1
  <2>3. s \in Seq(Cmd \X Nat) /\ Len(s) = 2 * Len(r)
    BY <2>2
  <2> QED
    BY <1>3, <2>3
<1>5. <<>> \o s = s
  BY <1>4
<1>6. <<>> \in Seq(Cmd \X Nat) /\ Len(<<>>) = 0
  OBVIOUS
<1>7. \A i \in 1 .. Len(s) : s[i] = <<c, 0 + (0 + i + 1) \div 2>>
  BY <1>1, <1>4
<1>8. Cut(c, r, 0, <<>>, s)
  BY <1>1, <1>4, <1>6, <1>7 DEF Cut
<1> QED
  BY <1>2, <1>5, <1>8

\* A read moves pieces from the stream to the buffer.
LEMMA CutRead ==
    ASSUME NEW c, NEW r \in Reply, NEW p, NEW b, NEW s, Cut(c, r, p, b, s), NEW n \in 1 .. Len(s)
    PROVE  Cut(c, r, p, b \o SubSeq(s, 1, n), SubSeq(s, n + 1, Len(s)))
<1>1. /\ b \in Seq(Cmd \X Nat) /\ s \in Seq(Cmd \X Nat) /\ Len(b) \in Nat /\ Len(s) \in Nat /\ Len(r) \in Nat /\ p \in Nat
      /\ n \in Nat /\ 1 <= n /\ n <= Len(s)
  BY DatabaseAssumption DEF Cut
<1>2. PICK h : h = SubSeq(s, 1, n)
  OBVIOUS
<1>3. PICK t : t = SubSeq(s, n + 1, Len(s))
  OBVIOUS
<1>4. h \in Seq(Cmd \X Nat) /\ Len(h) = n /\ \A i \in 1 .. n : h[i] = s[i]
  BY <1>1, <1>2
<1>5. t \in Seq(Cmd \X Nat) /\ Len(t) = Len(s) - n /\ \A i \in 1 .. Len(s) - n : t[i] = s[n + i]
  BY <1>1, <1>3, RestOf
<1>6. PICK q : q = b \o h
  OBVIOUS
<1>7. /\ q \in Seq(Cmd \X Nat) /\ Len(q) = Len(b) + n
      /\ \A i \in 1 .. Len(b) + n : q[i] = IF i <= Len(b) THEN b[i] ELSE h[i - Len(b)]
  BY <1>1, <1>4, <1>6
<1>8. \A i \in 1 .. Len(q) : q[i] = <<c, p + (i + 1) \div 2>>
  <2>1. TAKE i \in 1 .. Len(q)
  <2>2. CASE i <= Len(b)
    <3>1. i \in 1 .. Len(b) + n /\ i \in 1 .. Len(b)
      BY <1>1, <1>7, <2>2
    <3>2. q[i] = b[i]
      BY <1>7, <2>2, <3>1
    <3> QED
      BY <3>1, <3>2 DEF Cut
  <2>3. CASE i > Len(b)
    <3>1. i - Len(b) \in 1 .. n /\ Len(b) + (i - Len(b)) + 1 = i + 1
      BY <1>1, <1>7, <2>3
    <3>4. q[i] = h[i - Len(b)]
      BY <1>1, <1>7, <2>3
    <3>2. q[i] = s[i - Len(b)] /\ i - Len(b) \in 1 .. Len(s)
      BY <1>1, <1>4, <3>1, <3>4
    <3>3. s[i - Len(b)] = <<c, p + (Len(b) + (i - Len(b)) + 1) \div 2>>
      BY <3>2 DEF Cut
    <3> QED
      BY <3>1, <3>2, <3>3
  <2> QED
    BY <1>1, <1>7, <2>2, <2>3
<1>9. \A i \in 1 .. Len(t) : t[i] = <<c, p + (Len(q) + i + 1) \div 2>>
  <2>1. TAKE i \in 1 .. Len(t)
  <2>2. n + i \in 1 .. Len(s) /\ t[i] = s[n + i] /\ Len(b) + (n + i) + 1 = Len(q) + i + 1
    <3>1. i \in 1 .. Len(s) - n
      BY <1>5
    <3>2. t[i] = s[n + i]
      BY <1>5, <3>1
    <3>3. n + i \in 1 .. Len(s)
      BY ONLY <1>1, <3>1
    <3>4. Len(q) = Len(b) + n /\ i \in Nat
      BY <1>7, <3>1
    <3>5. Len(b) + (n + i) + 1 = Len(q) + i + 1
      BY ONLY <1>1, <3>4
    <3> QED
      BY <3>2, <3>3, <3>5
  <2>3. s[n + i] = <<c, p + (Len(b) + (n + i) + 1) \div 2>>
    BY <2>2 DEF Cut
  <2> QED
    BY <2>2, <2>3
<1>10. Len(q) + Len(t) = Len(b) + Len(s)
  BY <1>1, <1>5, <1>7
<1>11. Cut(c, r, p, q, t)
  BY <1>5, <1>7, <1>8, <1>9, <1>10 DEF Cut
<1> QED
  BY <1>2, <1>3, <1>6, <1>11

\* The first two pieces of the buffer are the next token.
LEMMA CutToken ==
    ASSUME NEW c, NEW r \in Reply, NEW p, NEW b, NEW s, Cut(c, r, p, b, s), Len(b) >= 2
    PROVE  p < Len(r) /\ b[1] = <<c, p + 1>> /\ Head(b) = b[1] /\ Cut(c, r, p + 1, SubSeq(b, 3, Len(b)), s)
<1>1. /\ b \in Seq(Cmd \X Nat) /\ s \in Seq(Cmd \X Nat) /\ Len(b) \in Nat /\ Len(s) \in Nat /\ Len(r) \in Nat /\ p \in Nat
      /\ p <= Len(r) /\ Len(b) + Len(s) = 2 * (Len(r) - p)
  BY DatabaseAssumption DEF Cut
<1>2. p < Len(r)
  BY <1>1
<1>3. b[1] = <<c, p + (1 + 1) \div 2>> /\ (1 + 1) \div 2 = 1
  BY <1>1 DEF Cut
<1>4. Head(b) = b[1]
  BY <1>1
<1>5. PICK t : t = SubSeq(b, 3, Len(b))
  OBVIOUS
<1>6. t \in Seq(Cmd \X Nat) /\ Len(t) = Len(b) - 2 /\ \A i \in 1 .. Len(b) - 2 : t[i] = b[i + 2]
  <2>1. 3 \in 1 .. Len(b) + 1
    BY <1>1
  <2>2. /\ t \in Seq(Cmd \X Nat) /\ Len(t) = Len(b) - 3 + 1
        /\ \A i \in 1 .. Len(b) - 3 + 1 : t[i] = b[3 + i - 1]
    BY <1>1, <1>5, <2>1, RestOf
  <2>3. Len(t) = Len(b) - 2
    BY <1>1, <2>2
  <2>4. \A i \in 1 .. Len(b) - 2 : t[i] = b[i + 2]
    <3>1. TAKE i \in 1 .. Len(b) - 2
    <3>2. i \in 1 .. Len(b) - 3 + 1 /\ 3 + i - 1 = i + 2
      BY <1>1
    <3> QED
      BY <2>2, <3>2
  <2> QED
    BY <2>2, <2>3, <2>4
<1>7. \A i \in Nat : (i + 2) \div 2 = 1 + i \div 2
  OBVIOUS
<1>8. \A i \in 1 .. Len(t) : t[i] = <<c, p + 1 + (i + 1) \div 2>>
  <2>1. TAKE i \in 1 .. Len(t)
  <2>2. i + 2 \in 1 .. Len(b) /\ t[i] = b[i + 2] /\ (i + 2) + 1 = (i + 1) + 2 /\ i + 1 \in Nat
    <3>1. i \in 1 .. Len(b) - 2
      BY <1>6
    <3>2. t[i] = b[i + 2]
      BY <1>6, <3>1
    <3>3. i + 2 \in 1 .. Len(b)
      BY ONLY <1>1, <3>1
    <3>4. (i + 2) + 1 = (i + 1) + 2 /\ i + 1 \in Nat
      BY ONLY <3>1
    <3> QED
      BY <3>2, <3>3, <3>4
  <2>3. b[i + 2] = <<c, p + ((i + 2) + 1) \div 2>>
    BY <2>2 DEF Cut
  <2>4. ((i + 1) + 2) \div 2 = 1 + (i + 1) \div 2 /\ (i + 1) \div 2 \in Nat
    BY <1>7, <2>2
  <2> QED
    BY <1>1, <2>2, <2>3, <2>4
<1>9. \A i \in 1 .. Len(s) : s[i] = <<c, p + 1 + (Len(t) + i + 1) \div 2>>
  <2>0. TAKE i \in 1 .. Len(s)
  <2>1. i \in Nat /\ Len(b) = Len(t) + 2 /\ Len(t) \in Nat
    BY <1>1, <1>6
  <2>2. PICK x \in Nat : x = Len(t) + i + 1
    BY <2>1
  <2>3. Len(b) + i + 1 = x + 2
    BY <2>1, <2>2
  <2>4. (x + 2) \div 2 = 1 + x \div 2 /\ x \div 2 \in Nat
    BY <1>7
  <2>5. s[i] = <<c, p + (Len(b) + i + 1) \div 2>>
    BY DEF Cut
  <2>6. p + (x + 2) \div 2 = p + 1 + x \div 2
    BY <1>1, <2>4
  <2> QED
    BY <2>2, <2>3, <2>5, <2>6
<1>10. p + 1 \in 0 .. Len(r) /\ Len(t) + Len(s) = 2 * (Len(r) - (p + 1))
  BY <1>1, <1>2, <1>6
<1>11. Cut(c, r, p + 1, t, s)
  BY <1>1, <1>6, <1>8, <1>9, <1>10 DEF Cut
<1> QED
  BY <1>2, <1>3, <1>4, <1>5, <1>11

-----------------------------------------------------------------------------
\* Every part of the state has its type.
RedisTypes ==
    /\ state \in [Cmd -> Redis!States]
    /\ con \in [Cmd -> Conn \union {NoConn}]
    /\ idle \subseteq Conn /\ invalid \subseteq Conn /\ queue \in Seq(Cmd)
    /\ asked \in [Conn -> Seq(Cmd)] /\ stream \in [Conn -> Seq(Cmd \X Nat)]
    /\ answer \in [Cmd -> Reply \union {<<>>}]
    /\ buffer \in [Cmd -> Seq(Cmd \X Nat)] /\ parsed \in [Cmd -> Seq(Cmd \X Nat)]
    /\ open \in [Cmd -> Seq({1, 2})] /\ body \in [Cmd -> BOOLEAN]

\* A connection has one command at most that is under way, and none if it is marked.
RedisHolders ==
    /\ \A c \in Cmd : con[c] # NoConn <=> state[c] \in {"writing", "parsing", "done"}
    /\ \A c, d \in Cmd : c # d /\ con[c] = con[d] /\ con[c] # NoConn => state[c] = "done" \/ state[d] = "done"
    /\ \A c \in Cmd : state[c] \in {"writing", "parsing"} => con[c] \notin invalid
    /\ \A k \in idle : k \notin invalid /\ \A c \in Cmd : con[c] # k
    /\ \A k \in invalid : \E c \in Cmd : con[c] = k

\* Who waits is in the queue once.
RedisWaiters ==
    /\ \A i \in 1 .. Len(queue) : state[queue[i]] = "waiting"
    /\ \A i, j \in 1 .. Len(queue) : i # j => queue[i] # queue[j]

\* A piece of the line that ends the empty string which was the end of a reply
Spilt(x) == x[1] \in Cmd /\ state[x[1]] \in {"done", "dropped"} /\ Redis!Token(x) = "crlf"

\* Where nobody parses nothing is to come but what is spilt, unless the connection is marked; who waits
\* for an answer there parses, or has failed.
RedisNet ==
    /\ \A k \in Conn : k \notin invalid /\ (\A c \in Cmd : state[c] = "parsing" => con[c] # k)
                          => asked[k] = <<>> /\ \A i \in 1 .. Len(stream[k]) : Spilt(stream[k][i])
    /\ \A k \in Conn : \A i \in 1 .. Len(asked[k]) :
          LET c == asked[k][i] IN state[c] = "failed" \/ (state[c] = "parsing" /\ con[c] = k)

\* A parser that has seen nothing
Fresh(c) == buffer[c] = <<>> /\ open[c] = <<1>> /\ ~body[c] /\ parsed[c] = <<>>

\* The first n tokens of the reply to c
Prefix(c, n) == [i \in 1 .. n |-> <<c, i>>]

\* Redis has not answered, or what is parsed, read and under way are the reply.
Answered(c, k) ==
    /\ asked[k] = <<>> /\ answer[c] \in Reply
    /\ parsed[c] = Prefix(c, Len(parsed[c]))
    /\ Cut(c, answer[c], Len(parsed[c]), buffer[c], stream[k])
    /\ Follows(answer[c], Len(parsed[c]), open[c], body[c])

\* The parser has seen nothing, and what it will see first is spilt.
Doomed(c, k) ==
    /\ asked[k] \in {<<>>, <<c>>}
    /\ open[c] = <<1>> /\ ~body[c] /\ parsed[c] = <<>>
    /\ IF buffer[c] # <<>> THEN Spilt(buffer[c][1]) ELSE stream[k] # <<>> /\ Spilt(stream[k][1])

\* A command has parsed all of its reply, but for what it spills.
Replied(c) ==
    /\ answer[c] \in Reply /\ parsed[c] = Prefix(c, Len(parsed[c]))
    /\ \/ Len(parsed[c]) = Len(answer[c])
       \/ Len(parsed[c]) + 1 = Len(answer[c]) /\ answer[c][Len(answer[c])] = "crlf"

\* A command has no reply yet, or is being answered, or has parsed its reply, or never will.
Command(c) ==
    /\ state[c] \in {"new", "connecting", "waiting", "writing"} => Fresh(c)
    /\ state[c] = "parsing" =>
          \/ asked[con[c]] = <<c>> /\ stream[con[c]] = <<>> /\ Fresh(c)
          \/ Answered(c, con[c])
          \/ Doomed(c, con[c])
    /\ state[c] \in {"done", "dropped"} => Replied(c)

\* The invariant of RedisClient
RedisInv == RedisTypes /\ RedisHolders /\ RedisWaiters /\ RedisNet /\ \A c \in Cmd : Command(c)

\* No command has begun.
LEMMA InitRedis == DbInit => RedisInv
<1> SUFFICES ASSUME DbInit PROVE RedisInv
  OBVIOUS
<1>1. RedisTypes /\ RedisWaiters
  BY DEF DbInit, Redis!Init, RedisTypes, RedisWaiters, Redis!States
<1>2. RedisHolders /\ RedisNet
  BY DatabaseAssumption DEF DbInit, Redis!Init, RedisHolders, RedisNet
<1>3. \A c \in Cmd : Command(c)
  BY DEF DbInit, Redis!Init, Command, Fresh
<1> QED
  BY <1>1, <1>2, <1>3 DEF RedisInv

\* What is done stays so, with its answer.
DoneStays ==
    \A c \in Cmd : state[c] \in {"done", "dropped"} => state'[c] \in {"done", "dropped"} /\ answer'[c] = answer[c]

\* x is spilt after the step.
SpiltNext(x) == x[1] \in Cmd /\ state'[x[1]] \in {"done", "dropped"} /\ answer'[x[1]][x[2]] = "crlf"

\* Then what is spilt remains it.
LEMMA SpiltStays ==
    ASSUME DoneStays
    PROVE  \A x : Spilt(x) => SpiltNext(x)
BY DEF DoneStays, Spilt, SpiltNext, Redis!Token

\* RedisNet, said of what is after the step
LEMMA NetNext ==
    ASSUME \A l \in Conn : l \notin invalid' /\ (\A d \in Cmd : state'[d] = "parsing" => con'[d] # l)
                              => asked'[l] = <<>> /\ \A i \in 1 .. Len(stream'[l]) : SpiltNext(stream'[l][i]),
           \A l \in Conn : \A i \in 1 .. Len(asked'[l]) :
              state'[asked'[l][i]] = "failed" \/ (state'[asked'[l][i]] = "parsing" /\ con'[asked'[l][i]] = l)
    PROVE  RedisNet'
<1>1. \A l \in Conn : \A i \in 1 .. Len(stream'[l]) : SpiltNext(stream'[l][i]) => Spilt(stream[l][i])'
  BY DEF Spilt, SpiltNext, Redis!Token
<1> QED
  BY <1>1 DEF RedisNet

\* What a command reads of the state is its own and its connection's, and what is spilt.
LEMMA CommandFrame ==
    ASSUME NEW d \in Cmd, Command(d), DoneStays, state'[d] = state[d], con'[d] = con[d], answer'[d] = answer[d],
           buffer'[d] = buffer[d], open'[d] = open[d], body'[d] = body[d], parsed'[d] = parsed[d],
           state[d] = "parsing" => asked'[con[d]] = asked[con[d]] /\ stream'[con[d]] = stream[con[d]]
    PROVE  Command(d)'
<1>1. state[d] \in {"new", "connecting", "waiting", "writing"} => Fresh(d)'
  BY DEF Command, Fresh
<1>2. state[d] \in {"done", "dropped"} => Replied(d)'
  BY DEF Command, Replied
<1>3. ASSUME state[d] = "parsing", Doomed(d, con[d]) PROVE Doomed(d, con[d])'
  <2>1. buffer[d] # <<>> => SpiltNext(buffer[d][1])
    BY <1>3, SpiltStays DEF Doomed
  <2>2. buffer[d] = <<>> => stream[con[d]] # <<>> /\ SpiltNext(stream[con[d]][1])
    BY <1>3, SpiltStays DEF Doomed
  <2>3. buffer'[d] # <<>> => Spilt(buffer[d][1])'
    BY <2>1 DEF Spilt, SpiltNext, Redis!Token
  <2>4. buffer'[d] = <<>> => stream'[con'[d]] # <<>> /\ Spilt(stream[con[d]][1])'
    BY <1>3, <2>2 DEF Spilt, SpiltNext, Redis!Token
  <2> QED
    BY <1>3, <2>3, <2>4 DEF Doomed
<1>4. ASSUME state[d] = "parsing", Answered(d, con[d]) PROVE Answered(d, con[d])'
  BY <1>4 DEF Answered
<1>5. ASSUME state[d] = "parsing", asked[con[d]] = <<d>>, stream[con[d]] = <<>>, Fresh(d)
      PROVE  asked'[con'[d]] = <<d>> /\ stream'[con'[d]] = <<>> /\ Fresh(d)'
  BY <1>5 DEF Fresh
<1> QED
  BY <1>1, <1>2, <1>3, <1>4, <1>5 DEF Command

\* A command begins to wait, for a new connection or for one that comes back, or gets none.
LEMMA WaitKeeps ==
    ASSUME RedisInv, NEW c \in Cmd, NEW s \in {"connecting", "waiting", "failed"}, state[c] \in {"new", "connecting"},
           state' = [state EXCEPT ![c] = s], queue' = IF s = "waiting" THEN Append(queue, c) ELSE queue,
           UNCHANGED <<con, idle, invalid, asked, stream, answer, buffer, open, body, parsed>>
    PROVE  RedisInv'
<1>1. state'[c] = s /\ (\A d \in Cmd : d # c => state'[d] = state[d]) /\ state' \in [Cmd -> Redis!States]
  BY DEF RedisInv, RedisTypes, Redis!States
<1>2. DoneStays
  BY <1>1 DEF DoneStays
<1>3. queue \in Seq(Cmd) /\ \A i \in 1 .. Len(queue) : queue[i] \in Cmd /\ state[queue[i]] = "waiting"
  BY DEF RedisInv, RedisTypes, RedisWaiters
<1>4. RedisWaiters' /\ queue' \in Seq(Cmd)
  <2>1. CASE s = "waiting"
    <3>1. /\ queue' \in Seq(Cmd) /\ Len(queue') = Len(queue) + 1 /\ queue'[Len(queue) + 1] = c
          /\ \A i \in 1 .. Len(queue) : queue'[i] = queue[i]
      BY <1>3, <2>1
    <3>2. \A i \in 1 .. Len(queue') : i # Len(queue) + 1 => i \in 1 .. Len(queue)
      BY <1>3, <3>1
    <3> QED
      BY <1>1, <1>3, <2>1, <3>1, <3>2 DEF RedisInv, RedisWaiters
  <2>2. CASE s # "waiting"
    BY <1>1, <1>3, <2>2 DEF RedisInv, RedisWaiters
  <2> QED
    BY <2>1, <2>2
<1>5. RedisTypes'
  BY <1>1, <1>4 DEF RedisInv, RedisTypes
<1>6. RedisHolders'
  BY <1>1 DEF RedisInv, RedisHolders
<1>7. RedisNet'
  <2>1. \A x : Spilt(x) => SpiltNext(x)
    BY <1>2, SpiltStays
  <2>2. ASSUME NEW l \in Conn, l \notin invalid', \A d \in Cmd : state'[d] = "parsing" => con'[d] # l
        PROVE  asked'[l] = <<>> /\ \A i \in 1 .. Len(stream'[l]) : SpiltNext(stream'[l][i])
    BY <1>1, <2>1, <2>2 DEF RedisInv, RedisNet
  <2>3. \A l \in Conn : \A i \in 1 .. Len(asked'[l]) :
           state'[asked'[l][i]] = "failed" \/ (state'[asked'[l][i]] = "parsing" /\ con'[asked'[l][i]] = l)
    BY <1>1 DEF RedisInv, RedisNet, RedisTypes
  <2> QED
    BY <2>2, <2>3, NetNext
<1>8. Command(c)'
  BY <1>1 DEF RedisInv, Command, Fresh
<1>9. ASSUME NEW d \in Cmd, d # c PROVE Command(d)'
  BY <1>1, <1>2, <1>9, CommandFrame DEF RedisInv
<1> QED
  BY <1>4, <1>5, <1>6, <1>7, <1>8, <1>9 DEF RedisInv

\* A command has a connection that is in step, alone or with those that are done.
LEMMA HoldKeeps ==
    ASSUME RedisInv, NEW c \in Cmd, NEW k \in Conn, state[c] \in {"new", "connecting"}, k \notin invalid,
           \A d \in Cmd : con[d] = k => state[d] = "done",
           state' = [state EXCEPT ![c] = "writing"], con' = [con EXCEPT ![c] = k], idle' = idle \ {k},
           UNCHANGED <<invalid, queue, asked, stream, answer, buffer, open, body, parsed>>
    PROVE  RedisInv'
<1>0. NoConn \notin Conn
  BY DatabaseAssumption
<1>1. /\ state'[c] = "writing" /\ (\A d \in Cmd : d # c => state'[d] = state[d]) /\ state' \in [Cmd -> Redis!States]
      /\ con'[c] = k /\ (\A d \in Cmd : d # c => con'[d] = con[d]) /\ con' \in [Cmd -> Conn \union {NoConn}]
  BY DEF RedisInv, RedisTypes, Redis!States
<1>2. con[c] = NoConn
  BY DEF RedisInv, RedisHolders
<1>3. RedisTypes' /\ DoneStays
  BY <1>1 DEF RedisInv, RedisTypes, DoneStays
<1>4. RedisHolders'
  BY <1>0, <1>1, <1>2 DEF RedisInv, RedisHolders, RedisTypes
<1>8. RedisWaiters'
  <2>1. \A i \in 1 .. Len(queue) : queue[i] \in Cmd
    BY DEF RedisInv, RedisTypes
  <2> QED
    BY <1>1, <2>1 DEF RedisInv, RedisWaiters
<1>5. RedisNet'
  <2>1. \A d \in Cmd : state'[d] = "parsing" <=> state[d] = "parsing"
    BY <1>1
  <2>2. \A d \in Cmd : state[d] = "parsing" => con'[d] = con[d]
    BY <1>1
  <2>3. ASSUME NEW l \in Conn, l \notin invalid', \A d \in Cmd : state'[d] = "parsing" => con'[d] # l
        PROVE  asked'[l] = <<>> /\ \A i \in 1 .. Len(stream'[l]) : SpiltNext(stream'[l][i])
    <3>1. asked[l] = <<>> /\ \A i \in 1 .. Len(stream[l]) : Spilt(stream[l][i])
      BY <2>1, <2>2, <2>3 DEF RedisInv, RedisNet
    <3> QED
      BY <1>3, <3>1, SpiltStays
  <2>4. ASSUME NEW l \in Conn, NEW i \in 1 .. Len(asked'[l])
        PROVE  state'[asked'[l][i]] = "failed" \/ (state'[asked'[l][i]] = "parsing" /\ con'[asked'[l][i]] = l)
    <3>4. asked[l] \in Seq(Cmd) /\ i \in 1 .. Len(asked[l])
      BY DEF RedisInv, RedisTypes
    <3>1. PICK d \in Cmd : d = asked[l][i]
      BY <3>4
    <3>2. state[d] = "failed" \/ (state[d] = "parsing" /\ con[d] = l)
      BY <3>1, <3>4 DEF RedisInv, RedisNet
    <3>3. d # c
      BY <3>2
    <3> QED
      BY <1>1, <3>1, <3>2, <3>3
  <2> QED
    BY <2>3, <2>4, NetNext
<1>6. Command(c)'
  BY <1>1 DEF RedisInv, Command, Fresh
<1>7. ASSUME NEW d \in Cmd, d # c PROVE Command(d)'
  BY <1>1, <1>3, <1>7, CommandFrame DEF RedisInv
<1> QED
  BY <1>3, <1>4, <1>5, <1>6, <1>7, <1>8 DEF RedisInv

\* A command gets an idle connection or begins to wait, for a new one or for one that comes back.
LEMMA RedisGetKeeps ==
    ASSUME RedisInv, NEW c \in Cmd, Redis!Get(c)
    PROVE  RedisInv'
<1>1. state[c] = "new" /\ UNCHANGED <<invalid, asked, stream, answer, buffer, open, body, parsed>>
  BY DEF Redis!Get, Redis!netVars, Redis!parserVars
<1>2. ASSUME NEW k \in idle, con' = [con EXCEPT ![c] = k], idle' = idle \ {k},
             state' = [state EXCEPT ![c] = "writing"], queue' = queue
      PROVE  RedisInv'
  <2>1. k \in Conn /\ k \notin invalid /\ \A d \in Cmd : con[d] # k
    BY <1>2 DEF RedisInv, RedisTypes, RedisHolders
  <2> QED
    BY <1>1, <1>2, <2>1, HoldKeeps
<1>3. ASSUME NEW s \in {"connecting", "waiting"}, state' = [state EXCEPT ![c] = s],
             queue' = IF s = "waiting" THEN Append(queue, c) ELSE queue, UNCHANGED <<con, idle>>
      PROVE  RedisInv'
  BY <1>1, <1>3, WaitKeeps
<1>4. \/ \E k \in idle : /\ con' = [con EXCEPT ![c] = k] /\ idle' = idle \ {k}
                          /\ state' = [state EXCEPT ![c] = "writing"] /\ queue' = queue
      \/ state' = [state EXCEPT ![c] = "connecting"] /\ queue' = queue /\ UNCHANGED <<con, idle>>
      \/ state' = [state EXCEPT ![c] = "waiting"] /\ queue' = Append(queue, c) /\ UNCHANGED <<con, idle>>
  BY DEF Redis!Get, Redis!To
<1> QED
  BY <1>2, <1>3, <1>4

\* A new connection is made, or cannot be.
LEMMA RedisConnectsKeeps ==
    ASSUME RedisInv, NEW c \in Cmd, Redis!Connects(c) \/ Redis!ConnectFails(c)
    PROVE  RedisInv'
<1>1. state[c] = "connecting" /\ UNCHANGED <<idle, invalid, queue, asked, stream, answer, buffer, open, body, parsed>>
  BY DEF Redis!Connects, Redis!ConnectFails, Redis!netVars, Redis!parserVars
<1>2. CASE Redis!Connects(c)
  <2>1. PICK k \in Conn \ (idle \union Redis!Held) : con' = [con EXCEPT ![c] = k]
    BY <1>2 DEF Redis!Connects
  <2>2. k \in Conn /\ (\A d \in Cmd : con[d] # k) /\ idle' = idle \ {k}
    BY <1>1, <2>1, DatabaseAssumption DEF Redis!Held
  <2>3. k \notin invalid
    BY <2>2 DEF RedisInv, RedisHolders
  <2>4. state' = [state EXCEPT ![c] = "writing"]
    BY <1>2 DEF Redis!Connects, Redis!To
  <2> QED
    BY <1>1, <2>1, <2>2, <2>3, <2>4, HoldKeeps
<1>3. CASE Redis!ConnectFails(c)
  <2>1. con' = con /\ state' = [state EXCEPT ![c] = "failed"]
    BY <1>3 DEF Redis!ConnectFails, Redis!To
  <2> QED
    BY <1>1, <2>1, WaitKeeps
<1> QED
  BY <1>2, <1>3

\* A command goes on a connection whose commands are done.
LEMMA ChainKeeps ==
    ASSUME RedisInv, NEW c \in Cmd, NEW d \in Cmd, Redis!Chain(c, d)
    PROVE  RedisInv'
<1>1. /\ state[c] = "done" /\ state[d] = "new" /\ con[c] \notin invalid
      /\ (\A e \in Cmd : con[e] = con[c] => state[e] = "done")
      /\ con' = [con EXCEPT ![d] = con[c]] /\ state' = [state EXCEPT ![d] = "writing"]
      /\ UNCHANGED <<idle, invalid, queue, asked, stream, answer, buffer, open, body, parsed>>
  BY DEF Redis!Chain, Redis!To, Redis!netVars, Redis!parserVars
<1>2. con[c] \in Conn
  BY <1>1 DEF RedisInv, RedisHolders, RedisTypes
<1>3. idle' = idle \ {con[c]}
  BY <1>1, <1>2 DEF RedisInv, RedisHolders
<1> QED
  BY <1>1, <1>2, <1>3, HoldKeeps

\* c lets go of a connection that goes to the head of the queue.
Hands(c, bad) == ~bad /\ con[c] \notin invalid /\ (\A d \in Cmd \ {c} : con[d] # con[c]) /\ queue # <<>>

\* A command lets go of its connection, and of nothing else.
LEMMA LetGoKeeps ==
    ASSUME RedisInv, NEW c \in Cmd, NEW bad \in BOOLEAN, NEW s, Redis!LetGo(c, s, bad), ~Hands(c, bad),
           \/ ~bad /\ state[c] = "done" /\ s = "dropped"
           \/ bad /\ state[c] \in {"writing", "parsing"} /\ s = "failed",
           UNCHANGED <<answer, buffer, open, body, parsed>>
    PROVE  RedisInv'
<1> DEFINE k == con[c]
           mark == invalid \union (IF bad THEN {k} ELSE {})
           last == \A d \in Cmd \ {c} : con[d] # k
<1>0. ~(last /\ k \notin mark /\ queue # <<>>)
  BY DEF Hands
<1>1. /\ state'[c] = s /\ (\A d \in Cmd : d # c => state'[d] = state[d]) /\ state' \in [Cmd -> Redis!States]
      /\ con' = [con EXCEPT ![c] = NoConn] /\ queue' = queue
      /\ con'[c] = NoConn /\ (\A d \in Cmd : d # c => con'[d] = con[d]) /\ con' \in [Cmd -> Conn \union {NoConn}]
  <2>1. con' = [con EXCEPT ![c] = NoConn] /\ state' = [state EXCEPT ![c] = s] /\ queue' = queue
    BY <1>0 DEF Redis!LetGo, Redis!To
  <2> QED
    BY <2>1 DEF RedisInv, RedisTypes, Redis!States
<1>10. DoneStays /\ RedisWaiters'
  <2>1. DoneStays
    BY <1>1 DEF DoneStays
  <2>2. \A i \in 1 .. Len(queue) : queue[i] \in Cmd /\ queue[i] # c
    BY DEF RedisInv, RedisTypes, RedisWaiters
  <2> QED
    BY <1>1, <2>1, <2>2 DEF RedisInv, RedisWaiters
<1>11. \A x : Spilt(x) => SpiltNext(x)
  BY <1>10, SpiltStays
<1>2. k \in Conn /\ NoConn \notin Conn
  BY DatabaseAssumption DEF RedisInv, RedisHolders, RedisTypes
<1>3. /\ invalid \subseteq Conn /\ idle \subseteq Conn /\ asked \in [Conn -> Seq(Cmd)] /\ stream \in [Conn -> Seq(Cmd \X Nat)]
      /\ k \notin idle
  BY DEF RedisInv, RedisTypes, RedisHolders
<1>4. Command(c)'
  BY <1>1 DEF RedisInv, Command, Replied
<1>5. \A d \in Cmd : d # c /\ con[d] = k /\ bad => state[d] = "done"
  BY <1>2 DEF RedisInv, RedisHolders
<1>6. \A l \in Conn : \A i \in 1 .. Len(asked[l]) :
         asked[l][i] \in Cmd /\ (asked[l][i] = c => bad /\ l = k)
         /\ (state[asked[l][i]] = "failed" \/ (state[asked[l][i]] = "parsing" /\ con[asked[l][i]] = l))
  <2>1. TAKE l \in Conn
  <2>2. TAKE i \in 1 .. Len(asked[l])
  <2>3. PICK d \in Cmd : d = asked[l][i]
    BY <1>3
  <2>4. state[d] = "failed" \/ (state[d] = "parsing" /\ con[d] = l)
    BY <2>3 DEF RedisInv, RedisNet
  <2> QED
    BY <2>3, <2>4
<1>7. CASE ~last
  <2>1. invalid' = mark /\ idle' = idle /\ asked' = asked /\ stream' = stream
    BY <1>7 DEF Redis!LetGo
  <2>2. RedisTypes'
    BY <1>1, <1>2, <2>1 DEF RedisInv, RedisTypes
  <2>3. PICK e \in Cmd : e # c /\ con[e] = k
    BY <1>7
  <2>4. RedisHolders'
    <3>1. \A d \in Cmd : con'[d] # NoConn <=> state'[d] \in {"writing", "parsing", "done"}
      BY <1>1 DEF RedisInv, RedisHolders
    <3>2. \A d, f \in Cmd : d # f /\ con'[d] = con'[f] /\ con'[d] # NoConn => state'[d] = "done" \/ state'[f] = "done"
      BY <1>1 DEF RedisInv, RedisHolders
    <3>3. \A d \in Cmd : state'[d] \in {"writing", "parsing"} => con'[d] \notin invalid'
      <4>1. TAKE d \in Cmd
      <4>2. CASE d = c
        BY <1>1, <4>2
      <4>3. CASE d # c
        BY <1>1, <1>5, <2>1, <4>3 DEF RedisInv, RedisHolders
      <4> QED
        BY <4>2, <4>3
    <3>4. \A l \in idle' : l \notin invalid' /\ \A d \in Cmd : con'[d] # l
      BY <1>1, <1>2, <1>3, <2>1 DEF RedisInv, RedisHolders
    <3>5. \A l \in invalid' : \E d \in Cmd : con'[d] = l
      <4>1. TAKE l \in invalid'
      <4>2. CASE l = k
        BY <1>1, <2>3, <4>2
      <4>3. CASE l # k
        BY <1>1, <2>1, <4>1, <4>3 DEF RedisInv, RedisHolders
      <4> QED
        BY <4>2, <4>3
    <3> QED
      BY <3>1, <3>2, <3>3, <3>4, <3>5 DEF RedisHolders
  <2>5. RedisNet'
    <3>1. ASSUME NEW l \in Conn, l \notin invalid', \A d \in Cmd : state'[d] = "parsing" => con'[d] # l
          PROVE  asked'[l] = <<>> /\ \A i \in 1 .. Len(stream'[l]) : SpiltNext(stream'[l][i])
      <4>1. l \notin invalid /\ (bad => l # k)
        BY <2>1, <3>1
      <4>2. \A d \in Cmd : state[d] = "parsing" => con[d] # l
        BY <1>1, <3>1, <4>1
      <4> QED
        BY <1>11, <2>1, <4>1, <4>2 DEF RedisInv, RedisNet
    <3>2. \A l \in Conn : \A i \in 1 .. Len(asked'[l]) :
             state'[asked'[l][i]] = "failed" \/ (state'[asked'[l][i]] = "parsing" /\ con'[asked'[l][i]] = l)
      BY <1>1, <1>6, <2>1
    <3> QED
      BY <3>1, <3>2, NetNext
  <2>6. ASSUME NEW d \in Cmd, d # c PROVE Command(d)'
    BY <1>1, <1>10, <2>1, <2>6, CommandFrame DEF RedisInv
  <2> QED
    BY <1>4, <1>10, <2>2, <2>4, <2>5, <2>6 DEF RedisInv
<1>8. CASE last /\ k \in mark
  <2>1. /\ invalid' = mark \ {k} /\ idle' = idle
        /\ asked' = [asked EXCEPT ![k] = <<>>] /\ stream' = [stream EXCEPT ![k] = <<>>]
    BY <1>8 DEF Redis!LetGo
  <2>2. RedisTypes'
    BY <1>1, <1>2, <2>1 DEF RedisInv, RedisTypes
  <2>3. invalid' = invalid \ {k}
    BY <2>1
  <2>4. RedisHolders'
    <3>1. \A d \in Cmd : con'[d] # NoConn <=> state'[d] \in {"writing", "parsing", "done"}
      BY <1>1 DEF RedisInv, RedisHolders
    <3>2. \A d, f \in Cmd : d # f /\ con'[d] = con'[f] /\ con'[d] # NoConn => state'[d] = "done" \/ state'[f] = "done"
      BY <1>1 DEF RedisInv, RedisHolders
    <3>3. \A d \in Cmd : state'[d] \in {"writing", "parsing"} => con'[d] \notin invalid'
      BY <1>1, <2>3 DEF RedisInv, RedisHolders
    <3>4. \A l \in idle' : l \notin invalid' /\ \A d \in Cmd : con'[d] # l
      BY <1>1, <1>2, <1>3, <2>1, <2>3 DEF RedisInv, RedisHolders
    <3>5. \A l \in invalid' : \E d \in Cmd : con'[d] = l
      BY <1>1, <2>3 DEF RedisInv, RedisHolders
    <3> QED
      BY <3>1, <3>2, <3>3, <3>4, <3>5 DEF RedisHolders
  <2>5. RedisNet'
    <3>1. ASSUME NEW l \in Conn, l \notin invalid', \A d \in Cmd : state'[d] = "parsing" => con'[d] # l
          PROVE  asked'[l] = <<>> /\ \A i \in 1 .. Len(stream'[l]) : SpiltNext(stream'[l][i])
      <4>1. CASE l = k
        BY <1>3, <2>1, <4>1
      <4>2. CASE l # k
        <5>1. \A d \in Cmd : state[d] = "parsing" => con[d] # l
          BY <1>1, <3>1, <4>2
        <5> QED
          BY <1>3, <1>11, <2>1, <2>3, <3>1, <4>2, <5>1 DEF RedisInv, RedisNet
      <4> QED
        BY <4>1, <4>2
    <3>2. ASSUME NEW l \in Conn, NEW i \in 1 .. Len(asked'[l])
          PROVE  state'[asked'[l][i]] = "failed" \/ (state'[asked'[l][i]] = "parsing" /\ con'[asked'[l][i]] = l)
      <4>1. l # k /\ asked'[l] = asked[l]
        BY <1>3, <2>1, <3>2
      <4> QED
        BY <1>1, <1>6, <3>2, <4>1
    <3> QED
      BY <3>1, <3>2, NetNext
  <2>6. ASSUME NEW d \in Cmd, d # c PROVE Command(d)'
    <3>1. con[d] # k
      BY <1>8, <2>6
    <3>2. state[d] = "parsing" => asked'[con[d]] = asked[con[d]] /\ stream'[con[d]] = stream[con[d]]
      BY <1>3, <2>1, <3>1 DEF RedisInv, RedisTypes, RedisHolders
    <3> QED
      BY <1>1, <1>10, <2>6, <3>2, CommandFrame DEF RedisInv
  <2> QED
    BY <1>4, <1>10, <2>2, <2>4, <2>5, <2>6 DEF RedisInv
<1>9. CASE last /\ k \notin mark
  <2>1. invalid' = invalid /\ idle' = idle \union {k} /\ asked' = asked /\ stream' = stream /\ ~bad /\ k \notin invalid
    BY <1>0, <1>9 DEF Redis!LetGo
  <2>2. RedisTypes'
    BY <1>1, <1>2, <2>1 DEF RedisInv, RedisTypes
  <2>4. RedisHolders'
    <3>1. \A d \in Cmd : con'[d] # NoConn <=> state'[d] \in {"writing", "parsing", "done"}
      BY <1>1 DEF RedisInv, RedisHolders
    <3>2. \A d, f \in Cmd : d # f /\ con'[d] = con'[f] /\ con'[d] # NoConn => state'[d] = "done" \/ state'[f] = "done"
      BY <1>1 DEF RedisInv, RedisHolders
    <3>3. \A d \in Cmd : state'[d] \in {"writing", "parsing"} => con'[d] \notin invalid'
      BY <1>1, <2>1 DEF RedisInv, RedisHolders
    <3>4. \A l \in idle' : l \notin invalid' /\ \A d \in Cmd : con'[d] # l
      BY <1>1, <1>2, <1>3, <1>9, <2>1 DEF RedisInv, RedisHolders
    <3>5. \A l \in invalid' : \E d \in Cmd : con'[d] = l
      BY <1>1, <2>1 DEF RedisInv, RedisHolders
    <3> QED
      BY <3>1, <3>2, <3>3, <3>4, <3>5 DEF RedisHolders
  <2>5. RedisNet'
    <3>1. \A d \in Cmd : (state'[d] = "parsing" <=> state[d] = "parsing") /\ (state[d] = "parsing" => con'[d] = con[d])
      BY <1>1, <2>1
    <3>2. \A l \in Conn : l \notin invalid' /\ (\A d \in Cmd : state'[d] = "parsing" => con'[d] # l)
             => asked'[l] = <<>> /\ \A i \in 1 .. Len(stream'[l]) : SpiltNext(stream'[l][i])
      BY <1>11, <2>1, <3>1 DEF RedisInv, RedisNet
    <3>3. \A l \in Conn : \A i \in 1 .. Len(asked'[l]) :
             state'[asked'[l][i]] = "failed" \/ (state'[asked'[l][i]] = "parsing" /\ con'[asked'[l][i]] = l)
      BY <1>1, <1>6, <2>1
    <3> QED
      BY <3>2, <3>3, NetNext
  <2>6. ASSUME NEW d \in Cmd, d # c PROVE Command(d)'
    BY <1>1, <1>10, <2>1, <2>6, CommandFrame DEF RedisInv
  <2> QED
    BY <1>4, <1>10, <2>2, <2>4, <2>5, <2>6 DEF RedisInv
<1> QED
  BY <1>7, <1>8, <1>9

\* A result is let go of, and the connection goes to the head of the queue.
LEMMA HandsKeeps ==
    ASSUME RedisInv, NEW c \in Cmd, state[c] = "done", Redis!LetGo(c, "dropped", FALSE), Hands(c, FALSE),
           UNCHANGED <<answer, buffer, open, body, parsed>>
    PROVE  RedisInv'
<1>1. PICK k : k = con[c]
  OBVIOUS
<1>2. PICK w : w = Head(queue)
  OBVIOUS
<1>3. /\ k \in Conn /\ NoConn \notin Conn /\ k \notin invalid /\ k \notin idle
      /\ \A d \in Cmd \ {c} : con[d] # k
  BY <1>1, DatabaseAssumption DEF RedisInv, RedisHolders, RedisTypes, Hands
<1>4. /\ queue \in Seq(Cmd) /\ queue # <<>> /\ Len(queue) \in Nat /\ w = queue[1] /\ w \in Cmd /\ 1 \in 1 .. Len(queue)
      /\ Tail(queue) \in Seq(Cmd) /\ Len(Tail(queue)) = Len(queue) - 1
      /\ \A i \in 1 .. Len(queue) - 1 : Tail(queue)[i] = queue[i + 1] /\ i + 1 \in 1 .. Len(queue)
  BY <1>2 DEF RedisInv, RedisTypes, Hands
<1>5. state[w] = "waiting" /\ w # c /\ con[w] = NoConn
  BY <1>4 DEF RedisInv, RedisWaiters, RedisHolders
<1>6. /\ state' = [state EXCEPT ![c] = "dropped", ![w] = "writing"]
      /\ con' = [[con EXCEPT ![c] = NoConn] EXCEPT ![w] = k]
      /\ queue' = Tail(queue) /\ UNCHANGED <<idle, invalid, asked, stream>>
  BY <1>1, <1>2 DEF Redis!LetGo, Hands
<1>16. queue' = Tail(queue) /\ idle' = idle /\ invalid' = invalid /\ asked' = asked /\ stream' = stream
  BY <1>6
<1>7. /\ state'[c] = "dropped" /\ state'[w] = "writing" /\ (\A d \in Cmd : d \notin {c, w} => state'[d] = state[d])
      /\ con'[c] = NoConn /\ con'[w] = k /\ (\A d \in Cmd : d \notin {c, w} => con'[d] = con[d])
      /\ state' \in [Cmd -> Redis!States] /\ con' \in [Cmd -> Conn \union {NoConn}]
  BY <1>3, <1>4, <1>5, <1>6 DEF RedisInv, RedisTypes, Redis!States
<1>8. DoneStays
  BY <1>5, <1>7 DEF DoneStays
<1>9. RedisTypes'
  BY <1>4, <1>6, <1>7 DEF RedisInv, RedisTypes
<1>10. RedisWaiters'
  <2>1. \A i \in 1 .. Len(queue') : /\ i + 1 \in 1 .. Len(queue) /\ queue'[i] = queue[i + 1] /\ i + 1 # 1
                                   /\ i \in Nat
    BY <1>4, <1>6
  <2>2. \A i \in 1 .. Len(queue) : state[queue[i]] = "waiting" /\ queue[i] \in Cmd /\ queue[i] # c /\ (i # 1 => queue[i] # w)
    BY <1>4 DEF RedisInv, RedisTypes, RedisWaiters
  <2>3. ASSUME NEW i \in 1 .. Len(queue') PROVE state'[queue'[i]] = "waiting"
    <3>1. PICK d \in Cmd : d = queue'[i] /\ d \notin {c, w} /\ state[d] = "waiting"
      BY <2>1, <2>2
    <3> QED
      BY <1>7, <3>1
  <2>4. ASSUME NEW i \in 1 .. Len(queue'), NEW j \in 1 .. Len(queue'), i # j PROVE queue'[i] # queue'[j]
    <3>1. i + 1 # j + 1
      BY <2>1, <2>4
    <3> QED
      BY <2>1, <3>1 DEF RedisInv, RedisWaiters
  <2> QED
    BY <2>3, <2>4 DEF RedisWaiters
<1>11. RedisHolders'
  <2>1. \A d \in Cmd : con'[d] # NoConn <=> state'[d] \in {"writing", "parsing", "done"}
    BY <1>3, <1>7 DEF RedisInv, RedisHolders
  <2>2. \A d, f \in Cmd : d # f /\ con'[d] = con'[f] /\ con'[d] # NoConn => state'[d] = "done" \/ state'[f] = "done"
    <3>1. TAKE d, f \in Cmd
    <3>2. HAVE d # f /\ con'[d] = con'[f] /\ con'[d] # NoConn
    <3>3. d # c /\ f # c
      BY <1>7, <3>2
    <3>4. d # w /\ f # w
      BY <1>3, <1>7, <3>2, <3>3
    <3> QED
      BY <1>7, <3>2, <3>3, <3>4 DEF RedisInv, RedisHolders
  <2>3. \A d \in Cmd : state'[d] \in {"writing", "parsing"} => con'[d] \notin invalid'
    BY <1>3, <1>6, <1>7 DEF RedisInv, RedisHolders
  <2>4. \A l \in idle' : l \notin invalid' /\ \A d \in Cmd : con'[d] # l
    <3>1. TAKE l \in idle'
    <3>2. l \in Conn /\ l # k /\ l \notin invalid /\ \A d \in Cmd : con[d] # l
      BY <1>3, <1>16 DEF RedisInv, RedisHolders, RedisTypes
    <3>3. ASSUME NEW d \in Cmd PROVE con'[d] # l
      BY <1>3, <1>7, <3>2
    <3> QED
      BY <1>16, <3>2, <3>3
  <2>5. \A l \in invalid' : \E d \in Cmd : con'[d] = l
    <3>1. TAKE l \in invalid'
    <3>2. PICK d \in Cmd : con[d] = l
      BY <1>6 DEF RedisInv, RedisHolders
    <3>3. d \notin {c, w}
      BY <1>1, <1>3, <1>5, <1>6, <3>2 DEF RedisInv, RedisTypes
    <3> QED
      BY <1>7, <3>2, <3>3
  <2> QED
    BY <2>1, <2>2, <2>3, <2>4, <2>5 DEF RedisHolders
<1>12. RedisNet'
  <2>1. \A d \in Cmd : (state'[d] = "parsing" <=> state[d] = "parsing") /\ (state[d] = "parsing" => con'[d] = con[d])
    BY <1>5, <1>7
  <2>2. ASSUME NEW l \in Conn, l \notin invalid', \A d \in Cmd : state'[d] = "parsing" => con'[d] # l
        PROVE  asked'[l] = <<>> /\ \A i \in 1 .. Len(stream'[l]) : SpiltNext(stream'[l][i])
    <3>1. asked[l] = <<>> /\ \A i \in 1 .. Len(stream[l]) : Spilt(stream[l][i])
      <4>1. l \notin invalid /\ \A d \in Cmd : state[d] = "parsing" => con[d] # l
        BY <1>16, <2>1, <2>2
      <4> QED
        BY <4>1 DEF RedisInv, RedisNet
    <3> QED
      BY <1>8, <1>16, <3>1, SpiltStays
  <2>3. ASSUME NEW l \in Conn, NEW i \in 1 .. Len(asked'[l])
        PROVE  state'[asked'[l][i]] = "failed" \/ (state'[asked'[l][i]] = "parsing" /\ con'[asked'[l][i]] = l)
    <3>1. asked[l] \in Seq(Cmd) /\ i \in 1 .. Len(asked[l]) /\ asked' = asked
      BY <1>6, <2>3 DEF RedisInv, RedisTypes
    <3>2. PICK d \in Cmd : d = asked[l][i]
      BY <3>1
    <3>3. state[d] = "failed" \/ (state[d] = "parsing" /\ con[d] = l)
      BY <3>1, <3>2 DEF RedisInv, RedisNet
    <3>4. d \notin {c, w}
      BY <1>5, <3>3
    <3> QED
      BY <1>7, <3>1, <3>2, <3>3, <3>4
  <2> QED
    BY <2>2, <2>3, NetNext
<1>13. Command(c)'
  BY <1>7 DEF RedisInv, Command, Replied
<1>14. Command(w)'
  BY <1>4, <1>5, <1>7 DEF RedisInv, Command, Fresh
<1>15. ASSUME NEW d \in Cmd, d \notin {c, w} PROVE Command(d)'
  BY <1>6, <1>7, <1>8, <1>15, CommandFrame DEF RedisInv
<1> QED
  BY <1>9, <1>10, <1>11, <1>12, <1>13, <1>14, <1>15 DEF RedisInv

\* The program lets go of a result; a command fails, and its connection is marked.
LEMMA DropFails ==
    ASSUME RedisInv, NEW c \in Cmd, Redis!Drop(c) \/ Redis!Fail(c)
    PROVE  RedisInv'
<1>1. UNCHANGED <<answer, buffer, open, body, parsed>>
  BY DEF Redis!Drop, Redis!Fail, Redis!parserVars
<1>2. CASE Redis!Drop(c)
  <2>1. state[c] = "done" /\ Redis!LetGo(c, "dropped", FALSE)
    BY <1>2 DEF Redis!Drop
  <2>2. FALSE \in BOOLEAN /\ ~FALSE
    OBVIOUS
  <2>3. CASE Hands(c, FALSE)
    BY <1>1, <2>1, <2>3, HandsKeeps
  <2>4. CASE ~Hands(c, FALSE)
    BY <1>1, <2>1, <2>2, <2>4, LetGoKeeps
  <2> QED
    BY <2>3, <2>4
<1>3. CASE Redis!Fail(c)
  <2>1. state[c] \in {"writing", "parsing"} /\ Redis!LetGo(c, "failed", TRUE)
    BY <1>3 DEF Redis!Fail
  <2>2. TRUE \in BOOLEAN /\ ~Hands(c, TRUE)
    BY DEF Hands
  <2> QED
    BY <1>1, <2>1, <2>2, LetGoKeeps
<1> QED
  BY <1>2, <1>3

\* A command is written, to a connection where nobody else waits.
LEMMA WrittenKeeps ==
    ASSUME RedisInv, NEW c \in Cmd, Redis!Written(c)
    PROVE  RedisInv'
<1>1. PICK k : k = con[c]
  OBVIOUS
<1>2. /\ state[c] = "writing" /\ k \in Conn /\ k \notin invalid
      /\ asked' = [asked EXCEPT ![k] = Append(@, c)] /\ state' = [state EXCEPT ![c] = "parsing"]
      /\ UNCHANGED <<con, idle, invalid, queue, stream, answer, buffer, open, body, parsed>>
  BY <1>1 DEF Redis!Written, Redis!To, Redis!poolVars, Redis!parserVars, RedisInv, RedisTypes, RedisHolders
<1>3. \A d \in Cmd : state[d] = "parsing" => con[d] # k
  BY <1>1, <1>2 DEF RedisInv, RedisHolders
<1>4. /\ asked[k] = <<>> /\ (\A i \in 1 .. Len(stream[k]) : Spilt(stream[k][i])) /\ asked \in [Conn -> Seq(Cmd)]
      /\ stream[k] \in Seq(Cmd \X Nat)
  BY <1>2, <1>3 DEF RedisInv, RedisNet, RedisTypes
<1>5. /\ asked'[k] = <<c>> /\ (\A l \in Conn : l # k => asked'[l] = asked[l]) /\ asked' \in [Conn -> Seq(Cmd)]
      /\ state'[c] = "parsing" /\ (\A d \in Cmd : d # c => state'[d] = state[d]) /\ state' \in [Cmd -> Redis!States]
  <2>1. Append(<<>>, c) = <<c>> /\ <<c>> \in Seq(Cmd)
    OBVIOUS
  <2> QED
    BY <1>2, <1>4, <2>1 DEF RedisInv, RedisTypes, Redis!States
<1>11. DoneStays
  BY <1>2, <1>5 DEF DoneStays
<1>12. \A x : Spilt(x) => SpiltNext(x)
  BY <1>11, SpiltStays
<1>13. RedisWaiters'
  <2>1. \A i \in 1 .. Len(queue) : queue[i] \in Cmd /\ queue[i] # c
    BY <1>2 DEF RedisInv, RedisTypes, RedisWaiters
  <2> QED
    BY <1>2, <1>5, <2>1 DEF RedisInv, RedisWaiters
<1>6. RedisTypes'
  BY <1>2, <1>5 DEF RedisInv, RedisTypes
<1>7. RedisHolders'
  BY <1>2, <1>5 DEF RedisInv, RedisHolders
<1>8. RedisNet'
  <2>1. ASSUME NEW l \in Conn, l \notin invalid', \A d \in Cmd : state'[d] = "parsing" => con'[d] # l
        PROVE  asked'[l] = <<>> /\ \A i \in 1 .. Len(stream'[l]) : SpiltNext(stream'[l][i])
    <3>1. l # k
      BY <1>1, <1>2, <1>5, <2>1
    <3>2. \A d \in Cmd : state[d] = "parsing" => con[d] # l
      BY <1>2, <1>5, <2>1
    <3> QED
      BY <1>2, <1>5, <1>12, <2>1, <3>1, <3>2 DEF RedisInv, RedisNet
  <2>2. ASSUME NEW l \in Conn, NEW i \in 1 .. Len(asked'[l])
        PROVE  state'[asked'[l][i]] = "failed" \/ (state'[asked'[l][i]] = "parsing" /\ con'[asked'[l][i]] = l)
    <3>1. CASE l = k
      <4>1. asked'[l][i] = c
        BY <1>5, <3>1, <2>2
      <4> QED
        BY <1>1, <1>2, <1>5, <3>1, <4>1
    <3>2. CASE l # k
      <4>1. asked[l] \in Seq(Cmd) /\ i \in 1 .. Len(asked[l]) /\ asked'[l] = asked[l]
        BY <1>4, <1>5, <3>2, <2>2
      <4>2. PICK d \in Cmd : d = asked[l][i]
        BY <4>1
      <4>3. state[d] = "failed" \/ (state[d] = "parsing" /\ con[d] = l)
        BY <4>1, <4>2 DEF RedisInv, RedisNet
      <4>4. d # c
        BY <1>2, <4>3
      <4> QED
        BY <1>2, <1>5, <4>1, <4>2, <4>3, <4>4
    <3> QED
      BY <3>1, <3>2
  <2> QED
    BY <2>1, <2>2, NetNext
<1>9. Command(c)'
  <2>1. Fresh(c) /\ Fresh(c)'
    BY <1>2 DEF RedisInv, Command, Fresh
  <2>2. CASE stream[k] = <<>>
    BY <1>1, <1>2, <1>5, <2>1, <2>2 DEF Command
  <2>3. CASE stream[k] # <<>>
    <3>4. 1 \in 1 .. Len(stream[k]) /\ stream'[k] = stream[k]
      BY <1>2, <1>4, <2>3
    <3>1. SpiltNext(stream'[k][1])
      BY <1>4, <1>12, <3>4
    <3>2. Spilt(stream[k][1])'
      BY <1>1, <1>2, <3>1 DEF Spilt, SpiltNext, Redis!Token
    <3>3. Doomed(c, k)'
      BY <1>1, <1>2, <1>5, <2>1, <2>3, <3>2 DEF Doomed, Fresh
    <3> QED
      BY <1>1, <1>2, <1>5, <3>3 DEF Command, Doomed
  <2> QED
    BY <2>2, <2>3
<1>10. ASSUME NEW d \in Cmd, d # c PROVE Command(d)'
  <2>1. state[d] = "parsing" => asked'[con[d]] = asked[con[d]] /\ stream'[con[d]] = stream[con[d]]
    BY <1>2, <1>3, <1>5 DEF RedisInv, RedisTypes, RedisHolders
  <2> QED
    BY <1>2, <1>5, <1>10, <1>11, <2>1, CommandFrame DEF RedisInv
<1> QED
  BY <1>6, <1>7, <1>8, <1>9, <1>10, <1>13 DEF RedisInv

\* Redis answers who has waited longest on a connection: who failed, or the only one that parses there.
LEMMA AnswerKeeps ==
    ASSUME RedisInv, NEW k \in Conn, Redis!Answer(k)
    PROVE  RedisInv'
<1>1. PICK c : c = Head(asked[k])
  OBVIOUS
<1>2. PICK r \in Reply : answer' = [answer EXCEPT ![c] = r] /\ stream' = [stream EXCEPT ![k] = @ \o Redis!Pieces(c, r)]
  BY <1>1 DEF Redis!Answer
<1>3. /\ asked[k] # <<>> /\ asked' = [asked EXCEPT ![k] = Tail(@)]
      /\ UNCHANGED <<state, con, idle, invalid, queue, buffer, open, body, parsed>>
  BY DEF Redis!Answer, Redis!poolVars, Redis!parserVars
<1>4. /\ asked \in [Conn -> Seq(Cmd)] /\ asked[k] \in Seq(Cmd) /\ stream \in [Conn -> Seq(Cmd \X Nat)]
      /\ answer \in [Cmd -> Reply \union {<<>>}]
  BY DEF RedisInv, RedisTypes
<1>5. c \in Cmd /\ c = asked[k][1] /\ 1 \in 1 .. Len(asked[k]) /\ Tail(asked[k]) \in Seq(Cmd)
      /\ Len(Tail(asked[k])) = Len(asked[k]) - 1 /\ Len(asked[k]) \in Nat
      /\ \A i \in 1 .. Len(asked[k]) - 1 : Tail(asked[k])[i] = asked[k][i + 1]
  BY <1>1, <1>3, <1>4
<1>17. \A l \in Conn : \A i \in 1 .. Len(asked[l]) :
          state[asked[l][i]] = "failed" \/ (state[asked[l][i]] = "parsing" /\ con[asked[l][i]] = l)
  BY DEF RedisInv, RedisNet
<1>6. state[c] = "failed" \/ (state[c] = "parsing" /\ con[c] = k)
  BY <1>5 DEF RedisInv, RedisNet
<1>7. Redis!Pieces(c, r) \in Seq(Cmd \X Nat)
  <2>1. Cut(c, r, 0, <<>>, <<>> \o Redis!Pieces(c, r))
    BY <1>5, CutStart
  <2>2. <<>> \o Redis!Pieces(c, r) = Redis!Pieces(c, r)
    <3>1. PICK q : q = Redis!Pieces(c, r)
      OBVIOUS
    <3>2. q = [i \in 1 .. 2 * Len(r) |-> <<c, (i + 1) \div 2>>] /\ Len(r) \in Nat
      BY <3>1, DatabaseAssumption DEF Redis!Pieces
    <3>3. q \in Seq(Range(q))
      BY <3>2 DEF Range
    <3>4. <<>> \o q = q
      BY <3>3
    <3> QED
      BY <3>1, <3>4
  <2> QED
    BY <2>1, <2>2 DEF Cut
<1>8. /\ asked'[k] = Tail(asked[k]) /\ (\A l \in Conn : l # k => asked'[l] = asked[l]) /\ asked' \in [Conn -> Seq(Cmd)]
      /\ stream'[k] = stream[k] \o Redis!Pieces(c, r) /\ (\A l \in Conn : l # k => stream'[l] = stream[l])
      /\ stream' \in [Conn -> Seq(Cmd \X Nat)]
      /\ answer'[c] = r /\ (\A d \in Cmd : d # c => answer'[d] = answer[d]) /\ answer' \in [Cmd -> Reply \union {<<>>}]
  <2>1. stream[k] \o Redis!Pieces(c, r) \in Seq(Cmd \X Nat)
    BY <1>4, <1>7
  <2> QED
    BY <1>2, <1>3, <1>4, <1>5, <2>1
<1>9. RedisTypes'
  BY <1>3, <1>8 DEF RedisInv, RedisTypes
<1>10. RedisHolders' /\ RedisWaiters'
  BY <1>3 DEF RedisInv, RedisHolders, RedisWaiters
<1>15. DoneStays
  BY <1>3, <1>6, <1>8 DEF DoneStays
<1>16. \A x : Spilt(x) => SpiltNext(x)
  BY <1>15, SpiltStays
<1>11. k \in invalid \/ (state[c] = "parsing" /\ con[c] = k)
  <2>1. SUFFICES ASSUME k \notin invalid PROVE state[c] = "parsing" /\ con[c] = k
    OBVIOUS
  <2>2. PICK d \in Cmd : state[d] = "parsing" /\ con[d] = k
    BY <1>3, <2>1 DEF RedisInv, RedisNet
  <2>3. asked[k] = <<d>>
    BY <1>3, <2>2 DEF RedisInv, Command, Answered, Doomed
  <2>4. c = d
    BY <1>5, <2>3
  <2> QED
    BY <2>2, <2>4
<1>12. RedisNet'
  <2>1. ASSUME NEW l \in Conn, l \notin invalid', \A d \in Cmd : state'[d] = "parsing" => con'[d] # l
        PROVE  asked'[l] = <<>> /\ \A i \in 1 .. Len(stream'[l]) : SpiltNext(stream'[l][i])
    <3>1. asked[l] = <<>> /\ \A i \in 1 .. Len(stream[l]) : Spilt(stream[l][i])
      BY <1>3, <2>1 DEF RedisInv, RedisNet
    <3>2. l # k
      BY <1>3, <3>1
    <3> QED
      BY <1>8, <1>16, <3>1, <3>2
  <2>2. ASSUME NEW l \in Conn, NEW i \in 1 .. Len(asked'[l])
        PROVE  state'[asked'[l][i]] = "failed" \/ (state'[asked'[l][i]] = "parsing" /\ con'[asked'[l][i]] = l)
    <3>1. CASE l = k
      <4>1. i + 1 \in 1 .. Len(asked[k]) /\ asked'[l][i] = asked[k][i + 1]
        <5>1. PICK s : s = asked[k]
          OBVIOUS
        <5>2. s \in Seq(Cmd) /\ s # <<>> /\ asked'[l] = Tail(s) /\ i \in 1 .. Len(asked'[l])
          BY <1>5, <1>8, <2>2, <3>1, <5>1
        <5>3. i + 1 \in 1 .. Len(s) /\ Tail(s)[i] = s[i + 1]
          BY ONLY <5>2
        <5> QED
          BY <5>1, <5>2, <5>3
      <4> QED
        BY <1>3, <1>17, <3>1, <4>1
    <3>2. CASE l # k
      BY <1>3, <1>8, <1>17, <2>2, <3>2
    <3> QED
      BY <3>1, <3>2
  <2> QED
    BY <2>1, <2>2, NetNext
<1>13. Command(c)'
  <2>1. CASE state[c] = "failed"
    BY <1>3, <2>1 DEF Command
  <2>3. CASE state[c] = "parsing" /\ con[c] = k /\ Doomed(c, k)
    <3>1. asked[k] = <<c>>
      BY <1>3, <2>3 DEF Doomed
    <3>2. asked'[k] = <<>>
      BY <1>8, <3>1
    <3>3. CASE buffer[c] # <<>>
      <4>1. SpiltNext(buffer'[c][1])
        BY <1>3, <1>16, <2>3, <3>3 DEF Doomed
      <4>2. Spilt(buffer[c][1])'
        BY <4>1 DEF Spilt, SpiltNext, Redis!Token
      <4>3. Doomed(c, k)'
        BY <1>3, <2>3, <3>2, <3>3, <4>2 DEF Doomed
      <4> QED
        BY <1>3, <2>3, <4>3 DEF Command
    <3>4. CASE buffer[c] = <<>>
      <4>1. stream[k] # <<>> /\ Spilt(stream[k][1])
        BY <2>3, <3>4 DEF Doomed
      <4>2. stream'[k] # <<>> /\ stream'[k][1] = stream[k][1]
        <5>1. PICK q : q = Redis!Pieces(c, r)
          OBVIOUS
        <5>2. q \in Seq(Cmd \X Nat) /\ stream[k] \in Seq(Cmd \X Nat) /\ stream'[k] = stream[k] \o q
          BY <1>4, <1>7, <1>8, <5>1
        <5> QED
          BY <4>1, <5>2
      <4>3. SpiltNext(stream'[k][1])
        BY <1>16, <4>1, <4>2
      <4>4. Spilt(stream[k][1])'
        BY <4>3 DEF Spilt, SpiltNext, Redis!Token
      <4>5. Doomed(c, k)'
        BY <1>3, <2>3, <3>2, <3>4, <4>2, <4>4 DEF Doomed
      <4> QED
        BY <1>3, <2>3, <4>5 DEF Command
    <3> QED
      BY <3>3, <3>4
  <2>2. CASE state[c] = "parsing" /\ con[c] = k /\ ~Doomed(c, k)
    <3>1. asked[k] = <<c>> /\ stream[k] = <<>> /\ Fresh(c)
      BY <1>3, <1>5, <2>2 DEF RedisInv, Command, Answered
    <3>2. asked'[k] = <<>>
      BY <1>8, <3>1
    <3>3. parsed'[c] = <<>> /\ buffer'[c] = <<>> /\ open'[c] = <<1>> /\ body'[c] = FALSE
      BY <1>3, <1>5, <3>1 DEF Fresh, RedisInv, RedisTypes
    <3>4. Len(parsed'[c]) = 0 /\ parsed'[c] = [i \in 1 .. 0 |-> <<c, i>>]
      BY <3>3
    <3>5. Cut(c, r, 0, <<>>, stream'[k])
      BY <1>5, <1>8, <3>1, CutStart
    <3>6. Follows(r, 0, <<1>>, FALSE)
      BY FollowsStart
    <3>7. Answered(c, k)'
      BY <1>8, <3>2, <3>3, <3>4, <3>5, <3>6 DEF Answered, Prefix
    <3> QED
      BY <1>3, <2>2, <3>7 DEF Command
  <2> QED
    BY <1>6, <2>1, <2>2, <2>3
<1>14. ASSUME NEW d \in Cmd, d # c PROVE Command(d)'
  <2>1. state[d] = "parsing" => con[d] # k
    BY <1>5, <1>11, <1>14 DEF RedisInv, RedisHolders
  <2>2. state[d] = "parsing" => asked'[con[d]] = asked[con[d]] /\ stream'[con[d]] = stream[con[d]]
    BY <1>8, <2>1 DEF RedisInv, RedisTypes, RedisHolders
  <2> QED
    BY <1>3, <1>8, <1>14, <1>15, <2>2, CommandFrame DEF RedisInv
<1> QED
  BY <1>5, <1>9, <1>10, <1>12, <1>13, <1>14 DEF RedisInv

\* A parser goes on with the reply.
LEMMA ParserKeeps ==
    ASSUME RedisInv, NEW c \in Cmd, NEW k, k = con[c], state[c] = "parsing",
           UNCHANGED <<state, con, idle, invalid, queue, asked, answer>>,
           \A d \in Cmd : d # c => /\ buffer'[d] = buffer[d] /\ open'[d] = open[d]
                                   /\ body'[d] = body[d] /\ parsed'[d] = parsed[d],
           \A l \in Conn : l # k => stream'[l] = stream[l],
           stream' \in [Conn -> Seq(Cmd \X Nat)], buffer' \in [Cmd -> Seq(Cmd \X Nat)],
           parsed' \in [Cmd -> Seq(Cmd \X Nat)], open' \in [Cmd -> Seq({1, 2})], body' \in [Cmd -> BOOLEAN],
           Answered(c, k)' \/ Doomed(c, k)'
    PROVE  RedisInv'
<1>1. RedisTypes'
  BY DEF RedisInv, RedisTypes
<1>2. RedisHolders' /\ RedisWaiters'
  BY DEF RedisInv, RedisHolders, RedisWaiters
<1>7. DoneStays
  BY DEF DoneStays
<1>3. k \in Conn
  BY DEF RedisInv, RedisTypes, RedisHolders
<1>4. RedisNet'
  <2>1. \A l \in Conn : l \notin invalid' /\ (\A d \in Cmd : state'[d] = "parsing" => con'[d] # l)
                           => asked'[l] = <<>> /\ \A i \in 1 .. Len(stream'[l]) : SpiltNext(stream'[l][i])
    BY <1>3, <1>7, SpiltStays DEF RedisInv, RedisNet
  <2>2. \A l \in Conn : \A i \in 1 .. Len(asked'[l]) :
           state'[asked'[l][i]] = "failed" \/ (state'[asked'[l][i]] = "parsing" /\ con'[asked'[l][i]] = l)
    <3>1. \A l \in Conn : \A i \in 1 .. Len(asked[l]) :
             state[asked[l][i]] = "failed" \/ (state[asked[l][i]] = "parsing" /\ con[asked[l][i]] = l)
      BY DEF RedisInv, RedisNet
    <3>2. asked' = asked /\ state' = state /\ con' = con
      OBVIOUS
    <3> QED
      BY ONLY <3>1, <3>2
  <2> QED
    BY <2>1, <2>2, NetNext
<1>5. Command(c)'
  BY DEF Command
<1>6. ASSUME NEW d \in Cmd, d # c PROVE Command(d)'
  <2>1. ASSUME state[d] = "parsing" PROVE con[d] # k /\ con[d] \in Conn
    <3>1. con[d] \in Conn
      BY <1>6, <2>1 DEF RedisInv, RedisTypes, RedisHolders
    <3>2. con[d] = con[c] => state[c] = "done" \/ state[d] = "done"
      BY <1>3, <1>6 DEF RedisInv, RedisHolders
    <3> QED
      BY <2>1, <3>1, <3>2
  <2>2. state[d] = "parsing" => asked'[con[d]] = asked[con[d]] /\ stream'[con[d]] = stream[con[d]]
    BY <2>1
  <2> QED
    BY <1>6, <1>7, <2>2, CommandFrame DEF RedisInv
<1> QED
  BY <1>1, <1>2, <1>4, <1>5, <1>6 DEF RedisInv

\* A parser reads what has arrived.
LEMMA ReadKeeps ==
    ASSUME RedisInv, NEW c \in Cmd, Redis!Read(c)
    PROVE  RedisInv'
<1>1. PICK k : k = con[c]
  OBVIOUS
<1>2. /\ state[c] = "parsing" /\ k \in Conn /\ stream \in [Conn -> Seq(Cmd \X Nat)] /\ stream[k] \in Seq(Cmd \X Nat)
      /\ buffer \in [Cmd -> Seq(Cmd \X Nat)] /\ open \in [Cmd -> Seq({1, 2})] /\ body \in [Cmd -> BOOLEAN]
      /\ parsed \in [Cmd -> Seq(Cmd \X Nat)]
      /\ UNCHANGED <<state, con, idle, invalid, queue, asked, answer, open, body, parsed>>
  <2>1. state[c] = "parsing"
    BY DEF Redis!Read, Redis!Parsing
  <2>2. k \in Conn
    BY <1>1, <2>1 DEF RedisInv, RedisTypes, RedisHolders
  <2>3. /\ stream \in [Conn -> Seq(Cmd \X Nat)] /\ buffer \in [Cmd -> Seq(Cmd \X Nat)]
        /\ open \in [Cmd -> Seq({1, 2})] /\ body \in [Cmd -> BOOLEAN] /\ parsed \in [Cmd -> Seq(Cmd \X Nat)]
    BY DEF RedisInv, RedisTypes
  <2>4. stream[k] \in Seq(Cmd \X Nat)
    BY <2>2, <2>3
  <2>5. UNCHANGED <<state, con, idle, invalid, queue, asked, answer, open, body, parsed>>
    BY DEF Redis!Read, Redis!poolVars
  <2> QED
    BY <2>1, <2>2, <2>3, <2>4, <2>5
<1>3. PICK n \in 1 .. Len(stream[k]) :
         /\ buffer' = [buffer EXCEPT ![c] = @ \o SubSeq(stream[k], 1, n)]
         /\ stream' = [stream EXCEPT ![k] = SubSeq(@, n + 1, Len(@))]
  BY <1>1 DEF Redis!Read
<1>4. Answered(c, k) \/ Doomed(c, k)
  <2>1. stream[k] # <<>>
    BY <1>2, <1>3
  <2> QED
    BY <1>1, <1>2, <2>1 DEF RedisInv, Command
<1>5. PICK b : b = buffer[c] \o SubSeq(stream[k], 1, n)
  OBVIOUS
<1>6. PICK s : s = SubSeq(stream[k], n + 1, Len(stream[k]))
  OBVIOUS
<1>7. ASSUME Answered(c, k) PROVE Cut(c, answer[c], Len(parsed[c]), b, s) /\ answer[c] \in Reply
  BY <1>3, <1>5, <1>6, <1>7, CutRead DEF Answered
<1>8. /\ b \in Seq(Cmd \X Nat) /\ s \in Seq(Cmd \X Nat)
      /\ b # <<>> /\ b[1] = IF buffer[c] # <<>> THEN buffer[c][1] ELSE stream[k][1]
  <2>1. PICK q : q = stream[k]
    OBVIOUS
  <2>2. PICK h : h = SubSeq(q, 1, n)
    OBVIOUS
  <2>3. PICK a : a = buffer[c]
    OBVIOUS
  <2>4. q \in Seq(Cmd \X Nat) /\ a \in Seq(Cmd \X Nat) /\ n \in 1 .. Len(q) /\ Len(q) \in Nat /\ n + 1 \in 1 .. Len(q) + 1
    BY <1>2, <1>3, <2>1, <2>3
  <2>5. h \in Seq(Cmd \X Nat) /\ Len(h) = n /\ h # <<>> /\ h[1] = q[1]
    <3>1. h \in Seq(Cmd \X Nat) /\ Len(h) = n /\ \A i \in 1 .. n : h[i] = q[i]
      BY <2>2, <2>4
    <3>2. 1 \in 1 .. n
      BY <2>4
    <3> QED
      BY <3>1, <3>2
  <2>6. b = a \o h /\ s = SubSeq(q, n + 1, Len(q))
    BY <1>5, <1>6, <2>1, <2>2, <2>3
  <2>7. s \in Seq(Cmd \X Nat)
    BY <2>4, <2>6, RestOf
  <2>8. b \in Seq(Cmd \X Nat) /\ b # <<>> /\ b[1] = IF a # <<>> THEN a[1] ELSE h[1]
    BY <2>4, <2>5, <2>6
  <2> QED
    BY <2>1, <2>3, <2>5, <2>7, <2>8
<1>9. /\ buffer'[c] = b /\ (\A d \in Cmd : d # c => buffer'[d] = buffer[d]) /\ buffer' \in [Cmd -> Seq(Cmd \X Nat)]
      /\ stream'[k] = s /\ (\A l \in Conn : l # k => stream'[l] = stream[l]) /\ stream' \in [Conn -> Seq(Cmd \X Nat)]
  BY <1>2, <1>3, <1>5, <1>6, <1>8
<1>10. Answered(c, k)' \/ Doomed(c, k)'
  <2>1. ASSUME Answered(c, k) PROVE Answered(c, k)'
    BY <1>2, <1>7, <1>9, <2>1 DEF Answered
  <2>2. ASSUME Doomed(c, k) PROVE Doomed(c, k)'
    <3>1. Spilt(b[1])
      BY <1>8, <2>2 DEF Doomed
    <3>2. Spilt(buffer[c][1])'
      BY <1>2, <1>9, <3>1 DEF Spilt, Redis!Token
    <3> QED
      BY <1>2, <1>8, <1>9, <2>2, <3>2 DEF Doomed
  <2> QED
    BY <1>4, <2>1, <2>2
<1>11. parsed' \in [Cmd -> Seq(Cmd \X Nat)] /\ open' \in [Cmd -> Seq({1, 2})] /\ body' \in [Cmd -> BOOLEAN]
       /\ \A d \in Cmd : open'[d] = open[d] /\ body'[d] = body[d] /\ parsed'[d] = parsed[d]
  BY <1>2
<1> QED
  BY <1>1, <1>2, <1>9, <1>10, <1>11, ParserKeeps

\* A prefix of the reply with the next token is a prefix.
LEMMA PrefixGrows ==
    ASSUME NEW c, NEW n \in Nat
    PROVE  /\ Append(Prefix(c, n), <<c, n + 1>>) = Prefix(c, n + 1)
           /\ Len(Prefix(c, n)) = n
<1>1. PICK s : s = Prefix(c, n)
  OBVIOUS
<1>2. s = [i \in 1 .. n |-> <<c, i>>]
  BY <1>1 DEF Prefix
<1>3. s \in Seq({c} \X Nat) /\ Len(s) = n
  <2>1. \A i \in 1 .. n : <<c, i>> \in {c} \X Nat
    OBVIOUS
  <2>2. s \in [1 .. n -> {c} \X Nat]
    BY <1>2, <2>1
  <2> QED
    BY <2>2
<1>4. PICK t : t = Prefix(c, n + 1)
  OBVIOUS
<1>5. t = [i \in 1 .. n + 1 |-> <<c, i>>]
  BY <1>4 DEF Prefix
<1>6. t \in Seq({c} \X Nat) /\ Len(t) = n + 1
  <2>1. \A i \in 1 .. n + 1 : <<c, i>> \in {c} \X Nat
    OBVIOUS
  <2>2. t \in [1 .. n + 1 -> {c} \X Nat] /\ n + 1 \in Nat
    BY <1>5, <2>1
  <2> QED
    BY <2>2
<1>7. PICK e : e = <<c, n + 1>>
  OBVIOUS
<1>12. e \in {c} \X Nat
  BY <1>7
<1>8. PICK u : u = Append(s, e)
  OBVIOUS
<1>9. u \in Seq({c} \X Nat) /\ Len(u) = n + 1 /\ u[n + 1] = e /\ \A i \in 1 .. n : u[i] = s[i]
  BY <1>3, <1>8, <1>12
<1>10. \A i \in 1 .. n + 1 : u[i] = t[i]
  <2>1. TAKE i \in 1 .. n + 1
  <2>2. t[i] = <<c, i>>
    BY <1>5
  <2>3. CASE i = n + 1
    BY <1>7, <1>9, <2>2, <2>3
  <2>4. CASE i # n + 1
    <3>1. i \in 1 .. n
      BY <2>4
    <3> QED
      BY <1>2, <1>9, <2>2, <3>1
  <2> QED
    BY <2>3, <2>4
<1>11. u = t
  BY <1>6, <1>9, <1>10, SeqEqual
<1> QED
  BY <1>1, <1>3, <1>4, <1>7, <1>8, <1>11

\* A token is parsed as what the reply has there.
LEMMA TokenKeeps ==
    ASSUME RedisInv, NEW c \in Cmd, Redis!Line(c) \/ Redis!Body(c)
    PROVE  RedisInv'
<1>1. PICK k : k = con[c]
  OBVIOUS
<1>2. /\ state[c] = "parsing" /\ open[c] # <<>> /\ k \in Conn /\ stream \in [Conn -> Seq(Cmd \X Nat)]
      /\ buffer \in [Cmd -> Seq(Cmd \X Nat)] /\ open \in [Cmd -> Seq({1, 2})] /\ body \in [Cmd -> BOOLEAN]
      /\ parsed \in [Cmd -> Seq(Cmd \X Nat)] /\ Len(buffer[c]) >= 2
      /\ UNCHANGED <<state, con, idle, invalid, queue, asked, answer, stream>>
      /\ parsed' = [parsed EXCEPT ![c] = Append(@, Head(buffer[c]))]
      /\ buffer' = [buffer EXCEPT ![c] = SubSeq(@, 3, Len(@))]
  <2>1. Len(buffer[c]) >= 2
    BY DEF Redis!Line, Redis!Body, Redis!Complete, RedisInv, RedisTypes
  <2> QED
    BY <1>1, <2>1 DEF Redis!Line, Redis!Body, Redis!Parsing, Redis!Consume, Redis!poolVars, Redis!netVars,
                      RedisInv, RedisTypes, RedisHolders
<1>3. Answered(c, k)
  <2>1. buffer[c] # <<>>
    BY <1>2
  <2>2. body[c] \/ Redis!Token(buffer[c][1]) # "crlf"
    BY DEF Redis!Line, Redis!Body
  <2>3. ~Doomed(c, k)
    BY <2>1, <2>2 DEF Doomed, Spilt
  <2> QED
    BY <1>1, <1>2, <2>1, <2>3 DEF RedisInv, Command, Fresh
<1>4. PICK p \in Nat : p = Len(parsed[c])
  BY <1>2
<1>5. PICK r \in Reply : r = answer[c]
  BY <1>3 DEF Answered
<1>6. Cut(c, r, p, buffer[c], stream[k]) /\ Follows(r, p, open[c], body[c]) /\ parsed[c] = Prefix(c, p)
  BY <1>3, <1>4, <1>5 DEF Answered
<1>7. /\ p < Len(r) /\ buffer[c][1] = <<c, p + 1>> /\ Head(buffer[c]) = buffer[c][1]
      /\ Cut(c, r, p + 1, SubSeq(buffer[c], 3, Len(buffer[c])), stream[k]) /\ p \in 0 .. Len(r)
  <2>1. p \in 0 .. Len(r)
    BY <1>6 DEF Cut
  <2>2. PICK b : b = buffer[c]
    OBVIOUS
  <2>3. PICK s : s = stream[k]
    OBVIOUS
  <2>4. Cut(c, r, p, b, s) /\ Len(b) >= 2
    BY <1>2, <1>6, <2>2, <2>3
  <2>5. p < Len(r) /\ b[1] = <<c, p + 1>> /\ Head(b) = b[1] /\ Cut(c, r, p + 1, SubSeq(b, 3, Len(b)), s)
    BY <2>4, CutToken
  <2> QED
    BY <2>1, <2>2, <2>3, <2>5
<1>8. /\ parsed'[c] = Prefix(c, p + 1) /\ Len(parsed'[c]) = p + 1
      /\ (\A d \in Cmd : d # c => parsed'[d] = parsed[d]) /\ parsed' \in [Cmd -> Seq(Cmd \X Nat)]
  <2>4. Append(Prefix(c, p), <<c, p + 1>>) = Prefix(c, p + 1)
    BY PrefixGrows
  <2>5. p + 1 \in Nat
    OBVIOUS
  <2>6. Len(Prefix(c, p + 1)) = p + 1
    BY <2>5, PrefixGrows
  <2>7. parsed[c] = Prefix(c, p) /\ Head(buffer[c]) = <<c, p + 1>>
    BY <1>6, <1>7
  <2>1. Append(parsed[c], Head(buffer[c])) = Prefix(c, p + 1) /\ Len(Prefix(c, p + 1)) = p + 1
    BY <2>4, <2>6, <2>7
  <2>2. <<c, p + 1>> \in Cmd \X Nat
    OBVIOUS
  <2>3. Append(parsed[c], Head(buffer[c])) \in Seq(Cmd \X Nat)
    BY <1>2, <1>7, <2>2
  <2> QED
    BY <1>2, <2>1, <2>3
<1>9. /\ buffer'[c] = SubSeq(buffer[c], 3, Len(buffer[c]))
      /\ (\A d \in Cmd : d # c => buffer'[d] = buffer[d]) /\ buffer' \in [Cmd -> Seq(Cmd \X Nat)]
  <2>1. SubSeq(buffer[c], 3, Len(buffer[c])) \in Seq(Cmd \X Nat)
    BY <1>7 DEF Cut
  <2> QED
    BY <1>2, <2>1
<1>10. /\ Follows(r, p + 1, open'[c], body'[c]) /\ open' \in [Cmd -> Seq({1, 2})] /\ body' \in [Cmd -> BOOLEAN]
       /\ \A d \in Cmd : d # c => open'[d] = open[d] /\ body'[d] = body[d]
  <2>1. ASSUME NEW o, NEW b, Follows(r, p + 1, o, b), open' = [open EXCEPT ![c] = o], body' = [body EXCEPT ![c] = b]
        PROVE  <1>10
    <3>1. o \in Seq({1, 2}) /\ b \in BOOLEAN
      BY <2>1 DEF Follows
    <3>2. open'[c] = o /\ body'[c] = b
      BY <1>2, <2>1
    <3> QED
      BY <1>2, <2>1, <3>1, <3>2
  <2>2. CASE Redis!Line(c)
    <3>1. Redis!Token(buffer[c][1]) = r[p + 1]
      BY <1>5, <1>7 DEF Redis!Token
    <3>2. /\ ~body[c] /\ r[p + 1] # "crlf" /\ open' = [open EXCEPT ![c] = Redis!AfterLine(r[p + 1], @)]
          /\ body' = [body EXCEPT ![c] = r[p + 1] = "bulk"]
      BY <2>2, <3>1 DEF Redis!Line
    <3>3. Follows(r, p + 1, Redis!AfterLine(r[p + 1], open[c]), r[p + 1] = "bulk")
      BY <1>2, <1>6, <1>7, <3>2, FollowsToken
    <3> QED
      BY <2>1, <3>2, <3>3
  <2>3. CASE Redis!Body(c)
    <3>1. body[c] /\ open' = [open EXCEPT ![c] = Redis!ElementDone(@)] /\ body' = [body EXCEPT ![c] = FALSE]
      BY <2>3 DEF Redis!Body
    <3>2. Follows(r, p + 1, Redis!ElementDone(open[c]), FALSE)
      BY <1>2, <1>6, <1>7, <3>1, FollowsToken
    <3> QED
      BY <2>1, <3>1, <3>2
  <2> QED
    BY <2>2, <2>3
<1>11. Answered(c, k)'
  BY <1>2, <1>3, <1>5, <1>7, <1>8, <1>9, <1>10 DEF Answered
<1> QED
  BY <1>1, <1>2, <1>8, <1>9, <1>10, <1>11, ParserKeeps

\* Nothing is open, so that it was all of the reply.
LEMMA ResolveKeeps ==
    ASSUME RedisInv, NEW c \in Cmd, Redis!Resolve(c)
    PROVE  RedisInv'
<1>1. PICK k : k = con[c]
  OBVIOUS
<1>2. /\ state[c] = "parsing" /\ open[c] = <<>> /\ state' = [state EXCEPT ![c] = "done"] /\ k \in Conn
      /\ UNCHANGED <<con, idle, invalid, queue, asked, stream, answer, buffer, open, body, parsed>>
  BY <1>1 DEF Redis!Resolve, Redis!To, Redis!poolVars, Redis!netVars, Redis!parserVars, RedisInv, RedisTypes, RedisHolders
<1>3. state'[c] = "done" /\ (\A d \in Cmd : d # c => state'[d] = state[d]) /\ state' \in [Cmd -> Redis!States]
  BY <1>2 DEF RedisInv, RedisTypes, Redis!States
<1>4. Answered(c, k)
  <2>1. <<1>> # <<>>
    OBVIOUS
  <2> QED
    BY <1>1, <1>2, <2>1 DEF RedisInv, Command, Fresh, Doomed
<1>5. Len(parsed[c]) \in 0 .. Len(answer[c]) /\ answer[c] \in Reply
  BY <1>4 DEF Answered, Cut
<1>6. /\ \/ Len(parsed[c]) = Len(answer[c])
         \/ Len(parsed[c]) + 1 = Len(answer[c]) /\ answer[c][Len(answer[c])] = "crlf"
      /\ parsed[c] = Prefix(c, Len(parsed[c]))
  BY <1>2, <1>4, <1>5, FollowsEnd DEF Answered
<1>13. DoneStays
  BY <1>2, <1>3 DEF DoneStays
<1>14. \A x : Spilt(x) => SpiltNext(x)
  BY <1>13, SpiltStays
<1>15. RedisWaiters'
  <2>1. \A i \in 1 .. Len(queue) : queue[i] \in Cmd /\ queue[i] # c
    BY <1>2 DEF RedisInv, RedisTypes, RedisWaiters
  <2> QED
    BY <1>2, <1>3, <2>1 DEF RedisInv, RedisWaiters
<1>7. asked[k] = <<>> /\ \A i \in 1 .. Len(stream[k]) : SpiltNext(stream[k][i])
  <2>1. /\ Len(buffer[c]) + Len(stream[k]) = 2 * (Len(answer[c]) - Len(parsed[c]))
        /\ buffer[c] \in Seq(Cmd \X Nat) /\ stream[k] \in Seq(Cmd \X Nat) /\ asked[k] = <<>>
    BY <1>4 DEF Answered, Cut
  <2>2. Len(answer[c]) \in Nat /\ Len(buffer[c]) \in Nat /\ Len(stream[k]) \in Nat
    BY <1>5, <2>1, DatabaseAssumption
  <2>4. PICK n \in Nat : n = Len(answer[c])
    BY <2>2
  <2>3. PICK p \in Nat : p = Len(parsed[c])
    BY <1>5
  <2>5. ASSUME NEW i \in 1 .. Len(stream[k]) PROVE SpiltNext(stream[k][i])
    <3>1. PICK m \in Nat : m = Len(buffer[c])
      BY <2>2
    <3>2. PICK q \in Nat : q = Len(stream[k])
      BY <2>2
    <3>3. /\ i \in Nat /\ n \in Nat /\ p \in Nat /\ m \in Nat /\ q \in Nat
          /\ 1 <= i /\ i <= q /\ m + q = 2 * (n - p) /\ (p = n \/ p + 1 = n)
      <4>1. p = n \/ p + 1 = n
        BY <1>6, <2>3, <2>4
      <4>2. m + q = 2 * (n - p)
        BY <2>1, <2>3, <2>4, <3>1, <3>2
      <4>3. i \in 1 .. q
        BY <3>2
      <4> QED
        BY <4>1, <4>2, <4>3
    <3>7. p + 1 = n
      <4>3. 2 * (n - n) = 0
        OBVIOUS
      <4>1. ASSUME p = n PROVE m + q = 0
        <5>1. m + q = 2 * (n - n)
          BY <3>3, <4>1
        <5> QED
          BY <4>3, <5>1
      <4>2. m + q # 0
        BY ONLY <3>3
      <4> QED
        BY <3>3, <4>1, <4>2
    <3>8. m + q = 2
      BY ONLY <3>3, <3>7
    <3>9. m + i + 1 \in {2, 3}
      BY ONLY <3>3, <3>8
    <3>4. (m + i + 1) \div 2 = 1
      BY ONLY <3>9
    <3>5. stream[k][i] = <<c, p + (m + i + 1) \div 2>>
      BY <1>4, <2>3, <3>1 DEF Answered, Cut
    <3>6. stream[k][i] = <<c, n>> /\ answer[c][n] = "crlf"
      <4>1. stream[k][i] = <<c, n>>
        BY <3>4, <3>5, <3>7
      <4>2. Len(parsed[c]) # Len(answer[c])
        BY <2>3, <2>4, <3>3, <3>7
      <4> QED
        BY <1>6, <2>4, <4>1, <4>2
    <3>10. PICK x : x = stream[k][i]
      OBVIOUS
    <3>11. x[1] = c /\ x[2] = n
      BY <3>6, <3>10
    <3>12. state'[c] = "done" /\ answer'[c][n] = "crlf"
      BY <1>2, <1>3, <3>6
    <3>13. SpiltNext(x)
      BY <3>11, <3>12 DEF SpiltNext
    <3> QED
      BY <3>10, <3>13
  <2> QED
    BY <2>1, <2>5
<1>8. RedisTypes'
  BY <1>2, <1>3 DEF RedisInv, RedisTypes
<1>9. RedisHolders'
  BY <1>2, <1>3 DEF RedisInv, RedisHolders
<1>10. RedisNet'
  <2>1. ASSUME NEW l \in Conn, l \notin invalid', \A d \in Cmd : state'[d] = "parsing" => con'[d] # l
        PROVE  asked'[l] = <<>> /\ \A i \in 1 .. Len(stream'[l]) : SpiltNext(stream'[l][i])
    <3>1. CASE l = k
      BY <1>2, <1>7, <3>1
    <3>2. CASE l # k
      <4>1. \A d \in Cmd : state[d] = "parsing" => con[d] # l
        BY <1>1, <1>2, <1>3, <2>1, <3>2
      <4> QED
        BY <1>2, <1>14, <2>1, <4>1 DEF RedisInv, RedisNet
    <3> QED
      BY <3>1, <3>2
  <2>2. ASSUME NEW l \in Conn, NEW i \in 1 .. Len(asked'[l])
        PROVE  state'[asked'[l][i]] = "failed" \/ (state'[asked'[l][i]] = "parsing" /\ con'[asked'[l][i]] = l)
    <3>1. asked[l] \in Seq(Cmd) /\ asked' = asked
      BY <1>2 DEF RedisInv, RedisTypes
    <3>2. PICK d \in Cmd : d = asked[l][i]
      BY <2>2, <3>1
    <3>3. state[d] = "failed" \/ (state[d] = "parsing" /\ con[d] = l)
      BY <2>2, <3>1, <3>2 DEF RedisInv, RedisNet
    <3>4. d # c
      <4>1. l # k
        BY <1>7, <2>2, <3>1
      <4> QED
        BY <1>1, <1>2, <3>3, <4>1
    <3> QED
      BY <1>2, <1>3, <3>1, <3>2, <3>3, <3>4
  <2> QED
    BY <2>1, <2>2, NetNext
<1>11. Command(c)'
  BY <1>2, <1>3, <1>4, <1>6 DEF Answered, Command, Replied
<1>12. ASSUME NEW d \in Cmd, d # c PROVE Command(d)'
  BY <1>2, <1>3, <1>12, <1>13, CommandFrame DEF RedisInv
<1> QED
  BY <1>8, <1>9, <1>10, <1>11, <1>12, <1>15 DEF RedisInv

\* Every step keeps it.
LEMMA NextRedis == RedisInv /\ [DbNext]_dbVars => RedisInv'
<1> SUFFICES ASSUME RedisInv, [DbNext]_dbVars PROVE RedisInv'
  OBVIOUS
<1>1. ASSUME UNCHANGED <<state, con, idle, invalid, queue, asked, stream, answer, buffer, open, body, parsed>>
      PROVE  RedisInv'
  <2>1. DoneStays
    BY <1>1 DEF DoneStays
  <2>2. RedisTypes' /\ RedisHolders' /\ RedisWaiters' /\ RedisNet'
    BY <1>1 DEF RedisInv, RedisTypes, RedisHolders, RedisWaiters, RedisNet, Spilt, Redis!Token
  <2>3. \A c \in Cmd : Command(c)'
    BY <1>1, <2>1, CommandFrame DEF RedisInv
  <2> QED
    BY <2>2, <2>3 DEF RedisInv
<1>2. ASSUME Redis!Next PROVE RedisInv'
  <2>1. ASSUME NEW c \in Cmd, Redis!NullResult(c) PROVE RedisInv'
    BY <1>1, <2>1 DEF Redis!NullResult, Redis!poolVars, Redis!netVars, Redis!parserVars
  <2> QED
    BY <1>2, <2>1, RedisGetKeeps, RedisConnectsKeeps, ChainKeeps, DropFails, WrittenKeeps, AnswerKeeps, ReadKeeps,
       TokenKeeps, ResolveKeeps
       DEF Redis!Next, Redis!Goes, Redis!Forward, Redis!Calls, Redis!Parse
<1> QED
  BY <1>1, <1>2 DEF DbNext, ByRedis, ByMysql, BySqlite, dbVars, redis

\* It implies what the runs check.
LEMMA RedisSafe == RedisInv => ReplyOwn /\ Redis!InStep
<1> SUFFICES ASSUME RedisInv PROVE ReplyOwn /\ Redis!InStep
  OBVIOUS
<1>1. ASSUME NEW c \in Cmd, state[c] \in {"done", "dropped"}
      PROVE  /\ answer[c] # <<>>
             /\ parsed[c] = [i \in 1 .. Len(parsed[c]) |-> <<c, i>>]
             /\ \A i \in Len(parsed[c]) + 1 .. Len(answer[c]) : answer[c][i] = "crlf"
  <2>1. Replied(c) /\ parsed[c] \in Seq(Cmd \X Nat)
    BY <1>1 DEF RedisInv, RedisTypes, Command
  <2>2. answer[c] \in Reply /\ Len(answer[c]) \in Nat /\ Len(parsed[c]) \in Nat
    BY <2>1, DatabaseAssumption DEF Replied
  <2>3. answer[c] # <<>>
    <3>1. PICK missing \in [0 .. Len(answer[c]) -> 0 .. Len(answer[c])] : Redis!Counts(missing, answer[c])
      BY <2>2, DatabaseAssumption DEF Redis!OneValue
    <3>2. missing[0] = 1 /\ missing[Len(answer[c])] = 0
      BY <3>1 DEF Redis!Counts
    <3> QED
      BY <3>2
  <2> QED
    BY <2>1, <2>2, <2>3 DEF Replied, Prefix
<1>2. ASSUME NEW k \in idle
      PROVE  asked[k] = <<>> /\ \A i \in 1 .. Len(stream[k]) : Redis!Token(stream[k][i]) = "crlf"
  <2>1. k \in Conn /\ k \notin invalid /\ \A c \in Cmd : con[c] # k
    BY DEF RedisInv, RedisTypes, RedisHolders
  <2> QED
    BY <2>1 DEF RedisInv, RedisNet, Spilt
<1> QED
  BY <1>1, <1>2 DEF ReplyOwn, Redis!ReplyOwn, Redis!InStep

\* A promise of cmd() (repro-redis/src/redis.cpp) is resolved with the reply to its own command and
\* nothing else, whatever failed on the connection before and however the reply was cut: with all of
\* it, but for the line that ends an empty string where the reply ends with one (redis.cpp:137-140).
THEOREM ReplyOwnHolds == DbSpec => []ReplyOwn
<1>1. DbInit => RedisInv
  BY InitRedis
<1>2. RedisInv /\ [DbNext]_dbVars => RedisInv'
  BY NextRedis
<1>3. RedisInv => ReplyOwn
  BY RedisSafe
<1> QED
  BY <1>1, <1>2, <1>3, PTL DEF DbSpec

-----------------------------------------------------------------------------
(* Databases: all three *)

\* A connection that goes back to its pool (ResourcePool, RedisPool, MysqlPool and SqlitePool's
\* returnConnection()) bears no trace of who had it: no transaction, no user, no task that will
\* use it unless its statement was called twice at a time (sqlite.cpp:183), and nothing unread
\* but, on redis, the lines that end empty strings (redis.cpp:137-140).
THEOREM IdleIsCleanHolds == DbSpec => []IdleIsClean
<1> DEFINE Inv == RedisInv /\ MysqlInv /\ SqliteInv /\ TaskInv
<1>1. DbInit => Inv
  BY InitRedis, InitMysql, InitSqlite, SqliteTasks
<1>2. Inv /\ [DbNext]_dbVars => Inv'
  BY NextRedis, NextMysql, NextSqlite, NextTask
<1>3. Inv => IdleIsClean
  BY RedisSafe, MysqlSafe, SqliteExclusive, SqliteTasks DEF IdleIsClean
<1> QED
  BY <1>1, <1>2, <1>3, PTL DEF DbSpec
=============================================================================
