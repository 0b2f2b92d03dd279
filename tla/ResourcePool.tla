---------------------------- MODULE ResourcePool ----------------------------
(***************************************************************************)
(* prio::Resource::Pool and InvalidResources (libraries/prio/include/      *)
(* priocpp/res.h), the connection pool behind RedisPool and MysqlPool.     *)
(*                                                                         *)
(* get(url) hands out a shared_ptr whose deleter is collect(): letting go  *)
(* of it returns the connection to the pool, or to a waiting get().  The   *)
(* pool lives on the event-loop thread, so each call is one step; the only *)
(* interleaving inside a call is re-entrance, when a continuation of the   *)
(* promise that get() returned calls the pool again before pending_ is     *)
(* counted down.                                                           *)
(***************************************************************************)
EXTENDS Integers, Sequences, FiniteSets

CONSTANTS
    Req,                    \* calls of get()
    Res,                    \* addresses a connection object can have
    Url,                    \* what a connection can be connected to
    MinCapacity,            \* min_capacity_
    MaxAge,                 \* MAX_AGE, in steps of the clock
    Never                   \* the age of a connection without a timestamp

ASSUME ResourcePoolAssumption ==
    /\ IsFiniteSet(Req)
    /\ Res \subseteq Nat /\ IsFiniteSet(Res)
    /\ MinCapacity \in Nat
    /\ MaxAge \in Nat
    /\ Never \notin Nat

VARIABLES
    used,                   \* used_: per url, the connections handed out
    unused,                 \* unused_: per url, the idle connections
    age,                    \* timestamps_: how long ago, or Never if not in the map
    waiting,                \* waiting_: the get() calls that wait, first come first
    pending,                \* pending_
    invalid,                \* InvalidResources<type>::invalid_set()
    shutdown,               \* shutdown_
    inside,                 \* a continuation runs inside get()'s handlers: pending_-- is yet to come
    connected,              \* addresses L::retrieve returned and L::free did not get back
    state,                  \* where each get() call is
    asked,                  \* the url each get() call was made with
    holds,                  \* the connection its caller holds: {} or a singleton
    home,                   \* the url its deleter was made with
    lost                    \* history: a connection failed to come, or was found invalid

poolVars == <<used, unused, age, waiting, pending, invalid, shutdown, inside, connected>>
reqVars == <<state, asked, holds, home>>
vars == <<poolVars, reqVars, lost>>

ReqState == {"new", "waiting", "retrieving", "held", "done"}

In(s) == {q \in Req : state[q] = s}

Age == 0 .. MaxAge + 1

\* timestamps_[r] + MAX_AGE < unix_timestamp(): a missing entry reads as 0, long ago
Expired(r) == age[r] = Never \/ age[r] > MaxAge

\* std::set<type>::begin(): the lowest address, if there is one
Lowest(S) == {r \in S : \A x \in S : r <= x}

NoAge(S) == [r \in Res |-> IF r \in S THEN Never ELSE age[r]]

Init ==
    /\ used = [u \in Url |-> {}]
    /\ unused = [u \in Url |-> {}]
    /\ age = [r \in Res |-> Never]
    /\ waiting = <<>>
    /\ pending = 0
    /\ invalid = {}
    /\ shutdown = FALSE
    /\ inside = FALSE
    /\ connected = {}
    /\ state = [q \in Req |-> "new"]
    /\ asked \in [Req -> Url]
    /\ holds = [q \in Req |-> {}]
    /\ home = asked
    /\ lost = FALSE

-----------------------------------------------------------------------------
(* get(url), called from the loop or from a continuation *)

Fresh(u) == {r \in unused[u] : ~Expired(r)}

\* Slip: the connection handed out is not erased from unused_.
GetReuse_Keep(q) ==
    \E r \in Lowest(Fresh(asked[q])) :
        /\ state[q] = "new"
        /\ used' = [used EXCEPT ![asked[q]] = @ \union {r}]
        /\ age' = [age EXCEPT ![r] = 0]
        /\ state' = [state EXCEPT ![q] = "held"]
        /\ holds' = [holds EXCEPT ![q] = {r}]
        /\ home' = [home EXCEPT ![q] = asked[q]]
        /\ UNCHANGED <<unused, waiting, pending, invalid, shutdown, inside, connected, asked, lost>>

\* The idle connections are tried in address order; the expired ones that come
\* before the first fresh one are freed, and that one is handed out.
GetReuse(q) ==
    LET u == asked[q]
    IN  \E r \in Lowest(Fresh(u)) :
          LET stale == {x \in unused[u] : x < r}
          IN  /\ state[q] = "new"
              /\ unused' = [unused EXCEPT ![u] = @ \ (stale \union {r})]
              /\ used' = [used EXCEPT ![u] = @ \union {r}]
              /\ age' = [NoAge(stale) EXCEPT ![r] = 0]
              /\ connected' = connected \ stale
              /\ state' = [state EXCEPT ![q] = "held"]
              /\ holds' = [holds EXCEPT ![q] = {r}]
              /\ home' = [home EXCEPT ![q] = u]
              /\ UNCHANGED <<waiting, pending, invalid, shutdown, inside, asked, lost>>

\* All idle connections had expired and are freed.
DropUnused(u) ==
    /\ Fresh(u) = {}
    /\ unused' = [unused EXCEPT ![u] = {}]
    /\ age' = NoAge(unused[u])
    /\ connected' = connected \ unused[u]

\* Slip: the connections being connected are not counted.
GetRetrieve_UsedOnly(q) ==
    /\ state[q] = "new"
    /\ DropUnused(asked[q])
    /\ Cardinality(used[asked[q]]) < MinCapacity
    /\ pending' = pending + 1
    /\ state' = [state EXCEPT ![q] = "retrieving"]
    /\ UNCHANGED <<used, waiting, invalid, shutdown, inside, asked, holds, home, lost>>

\* ... and there is room for one more: connect
GetRetrieve(q) ==
    /\ state[q] = "new"
    /\ DropUnused(asked[q])
    /\ Cardinality(used[asked[q]]) + pending < MinCapacity
    /\ pending' = pending + 1
    /\ state' = [state EXCEPT ![q] = "retrieving"]
    /\ UNCHANGED <<used, waiting, invalid, shutdown, inside, asked, holds, home, lost>>

\* ... and there is none: wait for a connection to be given back
GetWait(q) ==
    /\ state[q] = "new"
    /\ DropUnused(asked[q])
    /\ Cardinality(used[asked[q]]) + pending >= MinCapacity
    /\ waiting' = Append(waiting, q)
    /\ state' = [state EXCEPT ![q] = "waiting"]
    /\ UNCHANGED <<used, pending, invalid, shutdown, inside, asked, holds, home, lost>>

-----------------------------------------------------------------------------
(* L::retrieve(url) completes, in a callback of the loop *)

\* The connection is handed out and the continuation starts to run.
Retrieved(q) ==
    /\ ~inside
    /\ state[q] = "retrieving"
    /\ \E r \in Res \ connected :
          /\ connected' = connected \union {r}
          /\ used' = [used EXCEPT ![asked[q]] = @ \union {r}]
          /\ age' = [age EXCEPT ![r] = 0]
          /\ holds' = [holds EXCEPT ![q] = {r}]
    /\ home' = [home EXCEPT ![q] = asked[q]]
    /\ state' = [state EXCEPT ![q] = "held"]
    /\ inside' = TRUE
    /\ UNCHANGED <<unused, waiting, pending, invalid, shutdown, asked, lost>>

\* The promise is rejected; its handler may well try again at once.
RetrieveFailed(q) ==
    /\ ~inside
    /\ state[q] = "retrieving"
    /\ state' = [state EXCEPT ![q] = "done"]
    /\ lost' = TRUE
    /\ inside' = TRUE
    /\ UNCHANGED <<used, unused, age, waiting, pending, invalid, shutdown, connected,
                   asked, holds, home>>

\* ... back in get()'s handler: pending_--
Counted ==
    /\ inside
    /\ inside' = FALSE
    /\ pending' = pending - 1
    /\ UNCHANGED <<used, unused, age, waiting, invalid, shutdown, connected, reqVars, lost>>

-----------------------------------------------------------------------------
(* The holder of a connection *)

\* Resource::invalidate(ptr): the holder found the connection broken.
Invalidate(q) ==
    /\ state[q] = "held"
    /\ invalid' = invalid \union holds[q]
    /\ UNCHANGED <<used, unused, age, waiting, pending, shutdown, inside, connected,
                   reqVars, lost>>

\* The last reference goes: the deleter calls collect(home[q], r).
LetGo(q) ==
    /\ state[q] = "held"
    /\ UNCHANGED <<pending, shutdown, inside, asked>>

\* what becomes of the request q whose connection is not handed on
Gone(q) ==
    /\ state' = [state EXCEPT ![q] = "done"]
    /\ holds' = [holds EXCEPT ![q] = {}]
    /\ UNCHANGED home

\* collect() after shutdown(): nothing, the connection was freed long ago
CollectShutdown(q) ==
    /\ LetGo(q)
    /\ shutdown
    /\ Gone(q)
    /\ UNCHANGED <<used, unused, age, waiting, invalid, connected, lost>>

\* Slip: the mark outlives the connection.
CollectInvalid_NoRevoke(q) ==
    /\ LetGo(q)
    /\ ~shutdown
    /\ holds[q] \subseteq invalid
    /\ used' = [used EXCEPT ![home[q]] = @ \ holds[q]]
    /\ age' = NoAge(holds[q])
    /\ connected' = connected \ holds[q]
    /\ lost' = TRUE
    /\ Gone(q)
    /\ UNCHANGED <<unused, waiting, invalid>>

\* collect() of an invalid connection: revoke the mark and release()
CollectInvalid(q) ==
    /\ LetGo(q)
    /\ ~shutdown
    /\ holds[q] \subseteq invalid
    /\ invalid' = invalid \ holds[q]
    /\ used' = [used EXCEPT ![home[q]] = @ \ holds[q]]
    /\ age' = NoAge(holds[q])
    /\ connected' = connected \ holds[q]
    /\ lost' = TRUE
    /\ Gone(q)
    /\ UNCHANGED <<unused, waiting>>

\* Slip: the connection leaves used_ although the waiting caller gets it.
CollectToWaiter_Erase(q) ==
    LET p == Head(waiting)
    IN  /\ LetGo(q)
        /\ ~shutdown
        /\ holds[q] \intersect invalid = {}
        /\ waiting # <<>>
        /\ waiting' = Tail(waiting)
        /\ used' = [used EXCEPT ![home[q]] = @ \ holds[q]]
        /\ age' = [r \in Res |-> IF r \in holds[q] THEN 0 ELSE age[r]]
        /\ state' = [state EXCEPT ![q] = "done", ![p] = "held"]
        /\ holds' = [holds EXCEPT ![q] = {}, ![p] = holds[q]]
        /\ home' = [home EXCEPT ![p] = home[q]]
        /\ UNCHANGED <<unused, invalid, connected, lost>>

\* Slip: the connection goes idle and the waiting caller is left waiting.
CollectToWaiter_Idle(q) ==
    /\ LetGo(q)
    /\ ~shutdown
    /\ holds[q] \intersect invalid = {}
    /\ waiting # <<>>
    /\ used' = [used EXCEPT ![home[q]] = @ \ holds[q]]
    /\ unused' = [unused EXCEPT ![home[q]] = @ \union holds[q]]
    /\ Gone(q)
    /\ UNCHANGED <<age, waiting, invalid, connected, lost>>

\* collect() while somebody waits: the connection changes hands and stays used_
CollectToWaiter(q) ==
    LET p == Head(waiting)
    IN  /\ LetGo(q)
        /\ ~shutdown
        /\ holds[q] \intersect invalid = {}
        /\ waiting # <<>>
        /\ waiting' = Tail(waiting)
        /\ age' = [r \in Res |-> IF r \in holds[q] THEN 0 ELSE age[r]]
        /\ state' = [state EXCEPT ![q] = "done", ![p] = "held"]
        /\ holds' = [holds EXCEPT ![q] = {}, ![p] = holds[q]]
        /\ home' = [home EXCEPT ![p] = home[q]]
        /\ UNCHANGED <<used, unused, invalid, connected, lost>>

\* collect() with nobody waiting: idle again, and the lowest address is freed if
\* that makes too many; a connection the pool does not know as used is freed.
CollectToUnused(q) ==
    LET u == home[q]
        idle == unused[u] \union (holds[q] \intersect used[u])
        excess == IF Cardinality(idle) > MinCapacity THEN Lowest(idle) ELSE {}
    IN  /\ LetGo(q)
        /\ ~shutdown
        /\ holds[q] \intersect invalid = {}
        /\ waiting = <<>>
        /\ used' = [used EXCEPT ![u] = @ \ holds[q]]
        /\ unused' = [unused EXCEPT ![u] = idle \ excess]
        /\ age' = NoAge(excess)
        /\ connected' = connected \ (excess \union (holds[q] \ used[u]))
        /\ Gone(q)
        /\ UNCHANGED <<waiting, invalid, lost>>

-----------------------------------------------------------------------------
\* shutdown(): frees the idle connections and those in use as well
Shutdown ==
    /\ shutdown' = TRUE
    /\ connected' = connected \ UNION {used[u] \union unused[u] : u \in Url}
    /\ used' = [u \in Url |-> {}]
    /\ unused' = [u \in Url |-> {}]
    /\ UNCHANGED <<age, waiting, pending, invalid, inside, reqVars, lost>>

\* unix_timestamp() advances; ages beyond MaxAge are all alike
ClockTicks ==
    /\ ~inside
    /\ age' = [r \in Res |-> IF age[r] \in 0 .. MaxAge THEN age[r] + 1 ELSE age[r]]
    /\ UNCHANGED <<used, unused, waiting, pending, invalid, shutdown, inside, connected,
                   reqVars, lost>>

Get(q) == GetReuse(q) \/ GetRetrieve(q) \/ GetWait(q)

Completes(q) == Retrieved(q) \/ RetrieveFailed(q)

Collect(q) ==
    CollectShutdown(q) \/ CollectInvalid(q) \/ CollectToWaiter(q) \/ CollectToUnused(q)

Next ==
    \/ \E q \in Req : Get(q) \/ Completes(q) \/ Invalidate(q) \/ Collect(q)
    \/ Counted
    \/ Shutdown
    \/ ClockTicks

Spec == Init /\ [][Next]_vars

\* Connecting ends one way or the other, continuations return, and who got a
\* connection lets go of it some time.
Fairness ==
    /\ WF_vars(Counted)
    /\ \A q \in Req : WF_vars(Completes(q)) /\ WF_vars(Collect(q))

FairSpec == Spec /\ Fairness

-----------------------------------------------------------------------------
(* Properties *)

TypeOK ==
    /\ used \in [Url -> SUBSET Res]
    /\ unused \in [Url -> SUBSET Res]
    /\ age \in [Res -> Age \union {Never}]
    /\ waiting \in Seq(Req)
    /\ pending \in Int
    /\ invalid \subseteq Res
    /\ shutdown \in BOOLEAN
    /\ inside \in BOOLEAN
    /\ connected \subseteq Res
    /\ state \in [Req -> ReqState]
    /\ asked \in [Req -> Url]
    /\ holds \in [Req -> SUBSET Res]
    /\ home \in [Req -> Url]
    /\ lost \in BOOLEAN

\* Until shutdown(), a connection someone holds is one the pool counts as used, under
\* the url of the holder's deleter, and it has no second holder: it is never freed or
\* handed out again under its holder, and the last branch of collect() is never taken.
HeldIsUsed ==
    ~shutdown =>
        /\ \A q \in In("held") : holds[q] # {} /\ holds[q] \subseteq used[home[q]]
        /\ \A p, q \in In("held") : p # q => holds[p] \intersect holds[q] = {}

\* Every connected address is in exactly one of the pool's sets (until shutdown, and
\* in at most one afterwards), and the sets hold no freed address: nothing leaks,
\* nothing is freed twice.
OnePlace ==
    /\ \A u, v \in Url : used[u] \intersect unused[v] = {}
    /\ \A u, v \in Url : u # v => used[u] \intersect used[v] = {} /\ unused[u] \intersect unused[v] = {}
    /\ connected = UNION {used[u] \union unused[u] : u \in Url}

Retrieving(u) == {q \in In("retrieving") : asked[q] = u}

\* The pool never owns more connections to a url than its capacity, those being
\* connected included, however get(), failures, returns and re-entrant calls mix.
\* So unused_ never has to be trimmed.
CapacityBound ==
    \A u \in Url :
        Cardinality(used[u]) + Cardinality(unused[u]) + Cardinality(Retrieving(u)) <= MinCapacity

\* pending_ is what its name says, plus the one whose continuation is running.
PendingCounts == pending = Cardinality(In("retrieving")) + (IF inside THEN 1 ELSE 0)

\* A mark of invalidity belongs to a connection in use: no idle connection, and none
\* that comes to live at a recycled address, is taken for broken.
InvalidIsHeld == ~shutdown => invalid \subseteq UNION {holds[q] : q \in In("held")}

\* A get() that waits is served in the end, if the program uses one url only, as
\* RedisPool and MysqlPool do, no connection is lost and the pool is not shut down.
WaiterServed ==
    \A q \in Req : (state[q] = "waiting") ~>
        (state[q] # "waiting" \/ lost \/ shutdown \/ \E p \in Req : asked[p] # asked[q])
=============================================================================
