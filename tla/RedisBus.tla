------------------------------ MODULE RedisBus ------------------------------
(***************************************************************************)
(* RedisBus (libraries/repro-web/include/reproweb/json/redisbus.h) for one *)
(* topic, with the RedisSubscribers it makes one after the other           *)
(* (libraries/repro-redis/src/redis.cpp), the loop's ticks and timers, and *)
(* redis.                                                                  *)
(*                                                                         *)
(* subscribe() looks for a listener at once, but it enters the             *)
(* subscription, and unsubscribe() removes it, in a tick.  A listener that *)
(* fails is replaced ten seconds later.  The model stops where the code    *)
(* uses what is gone.                                                      *)
(***************************************************************************)
EXTENDS Naturals, Sequences

CONSTANTS
    Id,                     \* subscription ids, each used once
    MaxListeners,           \* bound: listeners made
    MaxMsg                  \* bound: messages published

ASSUME BusAssumption == MaxListeners \in Nat /\ MaxMsg \in Nat

VARIABLES
    \* the bus
    subscriptions_,
    listeners_,             \* the RedisSubscriber of the topic, at most one
    calls,                  \* what the program has done with each id
    cleared,                \* clear() was called
    ticks,                  \* queue of nextTick()
    timers,                 \* retries to come
    \* the subscribers that were made, 1 .. made, and their connections
    made,
    conn,
    inbox,                  \* messages on their way, after the reply to SUBSCRIBE
    \* history
    published,
    got,                    \* what each observer was told
    overtaken,              \* a subscription counts on a listener about to go
    flaw                    \* why the model stopped

bus == <<subscriptions_, listeners_, calls, cleared>>
network == <<made, conn, inbox>>
history == <<published, got, overtaken>>
vars == <<bus, ticks, timers, network, history, flaw>>

Listener == 1 .. MaxListeners

\* parser_->con is set
Connected == {"asking", "answered", "listening"}

Init ==
    /\ subscriptions_ = {} /\ listeners_ = {} /\ cleared = FALSE
    /\ calls = [i \in Id |-> "none"]
    /\ ticks = <<>> /\ timers = 0
    /\ made = 0
    /\ conn = [g \in Listener |-> "none"]
    /\ inbox = [g \in Listener |-> <<>>]
    /\ published = 0 /\ overtaken = FALSE
    /\ got = [i \in Id |-> <<>>]
    /\ flaw = "none"

Works == flaw = "none"

Ticking(op) == \E k \in DOMAIN ticks : ticks[k].op = op

\* the bound: a retry is always possible
Room == made + timers < MaxListeners

-----------------------------------------------------------------------------
(* The calls *)

\* Slip: the new listener does not take the place of the one before.
RedisSubscribe_Keep ==
    /\ made' = made + 1
    /\ conn' = [conn EXCEPT ![made + 1] = "connecting"]
    /\ listeners_' = listeners_ \union {made + 1}
    /\ UNCHANGED inbox

\* The subscriber is deleted: the connection on which it listens is closed with it, one
\* that is being made goes on.
Deleted == [g \in Listener |-> IF g \in listeners_ /\ conn[g] = "listening" THEN "closed" ELSE conn[g]]

\* redis_subscribe, in place of a listener that may be there
RedisSubscribe ==
    /\ made' = made + 1
    /\ conn' = [Deleted EXCEPT ![made + 1] = "connecting"]
    /\ listeners_' = {made + 1}
    /\ UNCHANGED inbox

Subscribe(i) ==
    /\ Works /\ calls[i] = "none"
    /\ calls' = [calls EXCEPT ![i] = "subscribed"]
    /\ ticks' = Append(ticks, [op |-> "insert", id |-> i])
    /\ IF listeners_ = {} THEN Room /\ RedisSubscribe
                          ELSE UNCHANGED <<network, listeners_>>
    /\ overtaken' = (overtaken \/ Ticking("erase"))
    /\ UNCHANGED <<subscriptions_, cleared, timers, published, got, flaw>>

Unsubscribe(i) ==
    /\ Works /\ calls[i] = "subscribed"
    /\ calls' = [calls EXCEPT ![i] = "unsubscribed"]
    /\ ticks' = Append(ticks, [op |-> "erase", id |-> i])
    /\ UNCHANGED <<subscriptions_, listeners_, cleared, timers, network, history, flaw>>

Clear ==
    /\ Works /\ ~cleared
    /\ cleared' = TRUE
    /\ subscriptions_' = {} /\ listeners_' = {}
    /\ conn' = Deleted
    /\ overtaken' = (overtaken \/ Ticking("insert"))
    /\ UNCHANGED <<calls, ticks, timers, made, inbox, published, got, flaw>>

-----------------------------------------------------------------------------
(* The loop *)

Insert(i) ==
    /\ subscriptions_' = subscriptions_ \union {i}
    /\ UNCHANGED <<listeners_, network, got, flaw>>

\* Slip: a listener is closed whoever else has subscribed.
Erase_Always(i) ==
    /\ subscriptions_' = subscriptions_ \ {i}
    /\ IF listeners_ = {}
       THEN flaw' = "null" /\ UNCHANGED <<listeners_, network>>
       ELSE /\ listeners_' = {}
            /\ conn' = [g \in Listener |-> IF g \in listeners_ /\ conn[g] \in Connected
                                           THEN "closed" ELSE conn[g]]
            /\ UNCHANGED <<made, inbox, flaw>>
    /\ UNCHANGED got

\* With the last subscription the listener goes: a connection that is there is closed,
\* one that is being made is not.  listeners_[topic] may have been none.
Erase(i) ==
    /\ subscriptions_' = subscriptions_ \ {i}
    /\ IF subscriptions_' # {}
       THEN UNCHANGED <<listeners_, network, flaw>>
       ELSE IF listeners_ = {}
       THEN flaw' = "null" /\ UNCHANGED <<listeners_, network>>
       ELSE /\ listeners_' = {}
            /\ conn' = [g \in Listener |-> IF g \in listeners_ /\ conn[g] \in Connected
                                           THEN "closed" ELSE conn[g]]
            /\ UNCHANGED <<made, inbox, flaw>>
    /\ UNCHANGED got

\* the ticks of one call of notified() together
Deliver(to, m) ==
    /\ got' = [i \in Id |-> IF i \in to THEN Append(got[i], m) ELSE got[i]]
    /\ UNCHANGED <<subscriptions_, listeners_, network, flaw>>

Tick ==
    /\ Works /\ ticks # <<>>
    /\ LET t == Head(ticks)
       IN  \/ t.op = "insert" /\ Insert(t.id)
           \/ t.op = "erase" /\ Erase(t.id)
           \/ t.op = "deliver" /\ Deliver(t.to, t.m)
    /\ ticks' = Tail(ticks)
    /\ UNCHANGED <<calls, cleared, timers, published, overtaken>>

\* prio::timeout
Retry ==
    /\ Works /\ timers > 0
    /\ timers' = timers - 1
    /\ RedisSubscribe
    /\ UNCHANGED <<subscriptions_, calls, cleared, ticks, history, flaw>>

-----------------------------------------------------------------------------
(* A subscriber *)

Goes(g, from, to) ==
    /\ Works /\ conn[g] = from
    /\ conn' = [conn EXCEPT ![g] = to]

\* The closures of a subscriber hold it by its address.
Uses(g) == flaw' = IF g \in listeners_ THEN "none" ELSE "freed"

\* get_new() has a connection; the SUBSCRIBE is written
Connects(g) ==
    /\ Goes(g, "connecting", "writing") /\ UNCHANGED flaw
    /\ UNCHANGED <<bus, ticks, timers, made, inbox, history>>

Written(g) ==
    /\ Goes(g, "writing", "asking") /\ Uses(g)
    /\ UNCHANGED <<bus, ticks, timers, made, inbox, history>>

\* redis takes the SUBSCRIBE and replies
Answers(g) ==
    /\ Goes(g, "asking", "answered") /\ UNCHANGED flaw
    /\ UNCHANGED <<bus, ticks, timers, made, inbox, history>>

\* ... or refuses it: the parser is deleted twice
Refuses(g) ==
    /\ Works /\ conn[g] = "asking"
    /\ flaw' = "twice"
    /\ UNCHANGED <<bus, ticks, timers, network, history>>

\* The reply is read, with the messages that came along: these are lost with the parser.
Subscribed(g) ==
    /\ Goes(g, "answered", "listening") /\ Uses(g)
    /\ \E n \in 0 .. Len(inbox[g]) :
          inbox' = [inbox EXCEPT ![g] = SubSeq(@, n + 1, Len(@))]
    /\ UNCHANGED <<bus, ticks, timers, made, history>>

\* listen(): a message, and notified(), which hands it to all who have subscribed
Listen(g) ==
    /\ Works /\ conn[g] = "listening" /\ inbox[g] # <<>>
    /\ inbox' = [inbox EXCEPT ![g] = Tail(@)]
    /\ ticks' = Append(ticks, [op |-> "deliver", to |-> subscriptions_, m |-> Head(inbox[g])])
    /\ Uses(g)
    /\ UNCHANGED <<bus, timers, made, conn, history>>

\* Slip: nobody subscribes again.
Fails_NoRetry(g) ==
    /\ Works /\ Room
    /\ conn[g] \in {"connecting", "writing", "asking", "answered", "listening"}
    /\ conn' = [conn EXCEPT ![g] = "failed"]
    /\ Uses(g)
    /\ UNCHANGED <<bus, ticks, timers, made, inbox, history>>

\* The connection cannot be made, or is lost: cb_.reject(), and the retry in 10 s
Fails(g) ==
    /\ Works /\ Room
    /\ conn[g] \in {"connecting", "writing", "asking", "answered", "listening"}
    /\ conn' = [conn EXCEPT ![g] = "failed"]
    /\ timers' = timers + 1
    /\ Uses(g)
    /\ UNCHANGED <<bus, ticks, made, inbox, history>>

Publish ==
    /\ Works /\ published < MaxMsg
    /\ published' = published + 1
    /\ inbox' = [g \in Listener |-> IF conn[g] \in {"answered", "listening"}
                                    THEN Append(inbox[g], published') ELSE inbox[g]]
    /\ UNCHANGED <<bus, ticks, timers, made, conn, got, overtaken, flaw>>

-----------------------------------------------------------------------------
Program == (\E i \in Id : Subscribe(i) \/ Unsubscribe(i)) \/ Clear

Proceeds(g) == Connects(g) \/ Written(g) \/ Answers(g) \/ Subscribed(g) \/ Listen(g)

Next ==
    \/ Program
    \/ Tick \/ Retry
    \/ \E g \in Listener : Proceeds(g) \/ Refuses(g) \/ Fails(g)
    \/ Publish

Spec == Init /\ [][Next]_vars

\* The loop runs its ticks and timers; a connection that does not fail gets on.
Fairness == WF_vars(Tick) /\ WF_vars(Retry) /\ \A g \in Listener : WF_vars(Proceeds(g))

FairSpec == Spec /\ Fairness

-----------------------------------------------------------------------------
(* Properties *)

TypeOK ==
    /\ subscriptions_ \subseteq Id /\ listeners_ \subseteq 1 .. made
    /\ calls \in [Id -> {"none", "subscribed", "unsubscribed"}]
    /\ made \in 0 .. MaxListeners /\ timers \in 0 .. MaxListeners
    /\ conn \in [Listener -> {"none", "connecting", "writing", "asking", "answered",
                              "listening", "failed", "closed"}]
    /\ flaw \in {"none", "null", "freed", "twice"}

\* An observer is told of each message once and in the order of publishing, whichever
\* listeners have come and gone between them.
ToldOnce == \A i \in Id : \A j, k \in DOMAIN got[i] : j < k => got[i][j] < got[i][k]

\* A subscription has a listener that listens, in the end, after failures too: but not in a
\* behaviour in which some subscription is made while another is about to be removed, or clear()
\* is called while one is about to be entered (overtaken, which stays, and says nothing of whom
\* it concerns).
Served ==
    \A i \in Id :
        i \in subscriptions_ ~> \/ i \notin subscriptions_ \/ overtaken \/ ~Works
                                \/ \E g \in listeners_ : conn[g] = "listening"
=============================================================================
