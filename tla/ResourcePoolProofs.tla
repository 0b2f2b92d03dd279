------------------------- MODULE ResourcePoolProofs -------------------------
(***************************************************************************)
(* Proofs about ResourcePool for every set of calls, addresses and urls,   *)
(* and for every capacity and age.                                         *)
(*                                                                         *)
(* None of the safety properties is inductive by itself.  That a           *)
(* connection is not freed under its holder depends on the sets being      *)
(* disjoint and the other way round, and on the queue of waiting calls     *)
(* holding calls that wait and hold nothing (WaitersWait, OneEach): the    *)
(* conjunction PlaceInv is.  The capacity depends on pending_ being at     *)
(* least what is being retrieved, and on PlaceInv for each connection to   *)
(* be counted once: CapInv.                                                *)
(***************************************************************************)
EXTENDS ResourcePool, TLAPS, SequenceTheorems, FiniteSetTheorems

\* Who waits in the queue is in state "waiting".
WaitersWait == \A i \in DOMAIN waiting : state[waiting[i]] = "waiting"

\* ... and is in it once.
WaitersDiffer == \A i, j \in DOMAIN waiting : waiting[i] = waiting[j] => i = j

\* A holder holds one connection, and nobody else holds any.
OneEach ==
    /\ \A q \in Req : state[q] # "held" => holds[q] = {}
    /\ \A q \in Req : state[q] = "held" => \E r \in Res : holds[q] = {r}

PlaceInv ==
    /\ TypeOK
    /\ WaitersWait
    /\ WaitersDiffer
    /\ OneEach
    /\ OnePlace
    /\ HeldIsUsed
    /\ InvalidIsHeld

-----------------------------------------------------------------------------
(* Types *)

LEMMA LowestIn == ASSUME NEW S PROVE Lowest(S) \subseteq S
BY DEF Lowest

LEMMA NoAgeType ==
    ASSUME TypeOK, NEW S
    PROVE  NoAge(S) \in [Res -> Age \union {Never}]
BY DEF NoAge, TypeOK

LEMMA ZeroIsAge == 0 \in Age /\ Age \subseteq Nat
BY ResourcePoolAssumption DEF Age

LEMMA HeadTail ==
    ASSUME TypeOK, waiting # <<>>
    PROVE  /\ Head(waiting) \in Req /\ Head(waiting) = waiting[1]
           /\ 1 \in DOMAIN waiting
           /\ Tail(waiting) \in Seq(Req)
           /\ \A i \in DOMAIN Tail(waiting) : i + 1 \in DOMAIN waiting /\ Tail(waiting)[i] = waiting[i + 1]
           /\ \A i \in DOMAIN Tail(waiting) : i \in Nat /\ i >= 1
<1>1. waiting \in Seq(Req)
  BY DEF TypeOK
<1>2. DOMAIN Tail(waiting) = 1 .. Len(waiting) - 1
  BY <1>1, HeadTailProperties
<1> QED
  BY <1>1, <1>2, HeadTailProperties

\* OnePlace, address by address.
Places(U, N, C) ==
    /\ \A x : \A u, v \in Url : ~(x \in U[u] /\ x \in N[v])
    /\ \A x : \A u, v \in Url : u # v => ~(x \in U[u] /\ x \in U[v])
    /\ \A x : \A u, v \in Url : u # v => ~(x \in N[u] /\ x \in N[v])
    /\ \A x : x \in C <=> \E u \in Url : x \in U[u] \/ x \in N[u]

LEMMA PlacesIs ==
    ASSUME NEW U, NEW N, NEW C
    PROVE  Places(U, N, C) <=>
             /\ \A u, v \in Url : U[u] \intersect N[v] = {}
             /\ \A u, v \in Url : u # v => U[u] \intersect U[v] = {} /\ N[u] \intersect N[v] = {}
             /\ C = UNION {U[u] \union N[u] : u \in Url}
<1>1. (\A x : \A u, v \in Url : ~(x \in U[u] /\ x \in N[v]))
        <=> \A u, v \in Url : U[u] \intersect N[v] = {}
  OBVIOUS
<1>2. /\ \A u, v \in Url : (\A x : ~(x \in U[u] /\ x \in U[v])) <=> U[u] \intersect U[v] = {}
      /\ \A u, v \in Url : (\A x : ~(x \in N[u] /\ x \in N[v])) <=> N[u] \intersect N[v] = {}
  OBVIOUS
<1>3. (\A x : x \in C <=> \E u \in Url : x \in U[u] \/ x \in N[u])
        <=> C = UNION {U[u] \union N[u] : u \in Url}
  OBVIOUS
<1> QED
  BY <1>1, <1>2, <1>3 DEF Places

LEMMA PlacesNow == OnePlace <=> Places(used, unused, connected)
<1> DEFINE U == used
           N == unused
           C == connected
<1>1. Places(U, N, C) <=>
        /\ \A u, v \in Url : U[u] \intersect N[v] = {}
        /\ \A u, v \in Url : u # v => U[u] \intersect U[v] = {} /\ N[u] \intersect N[v] = {}
        /\ C = UNION {U[u] \union N[u] : u \in Url}
  BY PlacesIs
<1> QED
  BY <1>1, Zenon DEF OnePlace

LEMMA PlacesNext == OnePlace' <=> Places(used', unused', connected')
<1> DEFINE U == used'
           N == unused'
           C == connected'
<1>1. Places(U, N, C) <=>
        /\ \A u, v \in Url : U[u] \intersect N[v] = {}
        /\ \A u, v \in Url : u # v => U[u] \intersect U[v] = {} /\ N[u] \intersect N[v] = {}
        /\ C = UNION {U[u] \union N[u] : u \in Url}
  BY PlacesIs
<1> QED
  BY <1>1, Zenon DEF OnePlace

LEMMA InitPlaceInv == Init => PlaceInv
<1> SUFFICES ASSUME Init PROVE PlaceInv
  OBVIOUS
<1>1. TypeOK
  <2>1. /\ used \in [Url -> SUBSET Res] /\ unused \in [Url -> SUBSET Res]
        /\ age \in [Res -> Age \union {Never}]
        /\ waiting \in Seq(Req)
    BY DEF Init
  <2>2. pending \in Int /\ invalid \subseteq Res /\ connected \subseteq Res
    BY DEF Init
  <2>3. shutdown \in BOOLEAN /\ inside \in BOOLEAN /\ lost \in BOOLEAN
    BY DEF Init
  <2>4. /\ state \in [Req -> ReqState] /\ asked \in [Req -> Url]
        /\ holds \in [Req -> SUBSET Res] /\ home \in [Req -> Url]
    BY DEF Init, ReqState
  <2> QED
    BY <2>1, <2>2, <2>3, <2>4 DEF TypeOK
<1>2. WaitersWait /\ WaitersDiffer /\ OneEach
  BY DEF Init, WaitersWait, WaitersDiffer, OneEach
<1>3. OnePlace
  BY DEF Init, OnePlace
<1>4. HeldIsUsed /\ InvalidIsHeld
  BY DEF Init, HeldIsUsed, InvalidIsHeld, In
<1> QED
  BY <1>1, <1>2, <1>3, <1>4 DEF PlaceInv

-----------------------------------------------------------------------------
(* Every step keeps PlaceInv.  Each lemma is one action. *)

\* An idle connection is handed out: it was nobody's.
LEMMA KeepsGetReuse ==
    ASSUME PlaceInv, NEW q \in Req, GetReuse(q)
    PROVE  PlaceInv'
<1> DEFINE u == asked[q]
<1>1. PICK r \in Lowest(Fresh(u)) :
        LET stale == {x \in unused[u] : x < r}
        IN  /\ state[q] = "new"
            /\ unused' = [unused EXCEPT ![u] = @ \ (stale \union {r})]
            /\ used' = [used EXCEPT ![u] = @ \union {r}]
            /\ age' = [NoAge(stale) EXCEPT ![r] = 0]
            /\ connected' = connected \ stale
            /\ state' = [state EXCEPT ![q] = "held"]
            /\ holds' = [holds EXCEPT ![q] = {r}]
            /\ home' = [home EXCEPT ![q] = u]
            /\ UNCHANGED <<waiting, pending, invalid, shutdown, inside, asked, lost>>
  BY DEF GetReuse
<1> DEFINE stale == {x \in unused[u] : x < r}
<1>2. r \in unused[u] /\ u \in Url /\ r \in Res /\ r \notin stale /\ stale \subseteq unused[u]
  <2>1. u \in Url /\ unused[u] \subseteq Res
    BY DEF PlaceInv, TypeOK
  <2>2. r \in unused[u]
    BY DEF Lowest, Fresh
  <2>3. r \in Nat
    BY <2>1, <2>2, ResourcePoolAssumption
  <2> QED
    BY <2>1, <2>2, <2>3
<1>3. TypeOK'
  <2>1. age' \in [Res -> Age \union {Never}]
    BY <1>1, <1>2, NoAgeType, ZeroIsAge DEF PlaceInv
  <2>2. /\ used' \in [Url -> SUBSET Res] /\ unused' \in [Url -> SUBSET Res]
        /\ connected' \subseteq Res /\ holds' \in [Req -> SUBSET Res]
    BY <1>1, <1>2 DEF PlaceInv, TypeOK
  <2>3. state' \in [Req -> ReqState] /\ home' \in [Req -> Url]
    BY <1>1, <1>2 DEF PlaceInv, TypeOK, ReqState
  <2> QED
    BY <1>1, <2>1, <2>2, <2>3 DEF PlaceInv, TypeOK
<1>4. WaitersWait' /\ WaitersDiffer'
  BY <1>1 DEF PlaceInv, WaitersWait, WaitersDiffer, TypeOK
<1>5. OneEach'
  BY <1>1, <1>2 DEF PlaceInv, OneEach, TypeOK
<1>6. /\ \A v \in Url : used'[v] = IF v = u THEN used[u] \union {r} ELSE used[v]
      /\ \A v \in Url : unused'[v] = IF v = u THEN unused[u] \ (stale \union {r}) ELSE unused[v]
  BY <1>1, <1>2 DEF PlaceInv, TypeOK
<1>7. OnePlace'
  <2>1. Places(used, unused, connected)
    BY PlacesNow DEF PlaceInv
  <2>2. \A x : x \in connected' <=> x \in connected /\ x \notin stale
    BY <1>1
  <2>3. /\ \A x : \A v \in Url : x \in used'[v] <=> x \in used[v] \/ (v = u /\ x = r)
        /\ \A x : \A v \in Url : x \in unused'[v] <=> x \in unused[v] /\ ~(v = u /\ (x \in stale \/ x = r))
    BY <1>6
  <2>4. \A x : x \in stale => x \in unused[u]
    BY <1>2
  <2> HIDE DEF stale, u
  <2>5. Places(used', unused', connected')
    BY <1>2, <2>1, <2>2, <2>3, <2>4 DEF Places
  <2> QED
    BY <2>5, PlacesNext
<1>8. HeldIsUsed'
  <2>1. SUFFICES ASSUME ~shutdown PROVE HeldIsUsed'
    BY <1>1 DEF HeldIsUsed
  <2>2. \A p \in Req : p # q => state'[p] = state[p] /\ holds'[p] = holds[p] /\ home'[p] = home[p]
    BY <1>1 DEF PlaceInv, TypeOK
  <2>3. state'[q] = "held" /\ holds'[q] = {r} /\ home'[q] = u
    BY <1>1 DEF PlaceInv, TypeOK
  <2>4. \A p \in Req : state[p] = "held" => holds[p] # {} /\ holds[p] \subseteq used[home[p]] /\ home[p] \in Url
    BY <2>1 DEF PlaceInv, HeldIsUsed, In, TypeOK
  <2>5. \A p \in Req : state[p] = "held" => r \notin holds[p]
    BY <1>2, <2>4 DEF PlaceInv, OnePlace
  <2>6. \A p \in Req : state'[p] = "held" => holds'[p] # {} /\ holds'[p] \subseteq used'[home'[p]]
    BY <1>2, <1>6, <2>2, <2>3, <2>4
  <2>7. \A p, s \in Req : state'[p] = "held" /\ state'[s] = "held" /\ p # s => holds'[p] \intersect holds'[s] = {}
    BY <2>1, <2>2, <2>3, <2>5 DEF PlaceInv, HeldIsUsed, In
  <2> QED
    BY <2>6, <2>7 DEF HeldIsUsed, In
<1>9. InvalidIsHeld'
  <2>1. SUFFICES ASSUME ~shutdown, NEW x \in invalid PROVE \E p \in Req : state'[p] = "held" /\ x \in holds'[p]
    BY <1>1 DEF InvalidIsHeld, In
  <2>2. PICK p \in Req : state[p] = "held" /\ x \in holds[p]
    BY <2>1 DEF PlaceInv, InvalidIsHeld, In
  <2> QED
    BY <1>1, <2>2 DEF PlaceInv, TypeOK
<1> QED
  BY <1>3, <1>4, <1>5, <1>7, <1>8, <1>9 DEF PlaceInv

\* What get() frees before it connects or waits was idle, so nobody's.
LEMMA KeepsDrop ==
    ASSUME PlaceInv, NEW q \in Req, state[q] = "new", DropUnused(asked[q]),
           NEW s \in {"waiting", "retrieving"}, state' = [state EXCEPT ![q] = s],
           waiting' \in Seq(Req), pending' \in Int, WaitersWait', WaitersDiffer',
           UNCHANGED <<used, invalid, shutdown, inside, asked, holds, home, lost>>
    PROVE  PlaceInv'
<1> DEFINE u == asked[q]
<1>1. /\ unused' = [unused EXCEPT ![u] = {}]
      /\ age' = NoAge(unused[u])
      /\ connected' = connected \ unused[u]
      /\ u \in Url
  BY DEF DropUnused, PlaceInv, TypeOK
<1>2. TypeOK'
  <2>1. age' \in [Res -> Age \union {Never}]
    BY <1>1, NoAgeType DEF PlaceInv
  <2>2. /\ unused' \in [Url -> SUBSET Res] /\ connected' \subseteq Res
        /\ state' \in [Req -> ReqState]
    BY <1>1 DEF PlaceInv, TypeOK, ReqState
  <2> QED
    BY <2>1, <2>2 DEF PlaceInv, TypeOK
<1>3. \A p \in Req : state'[p] = "held" <=> state[p] = "held"
  BY DEF PlaceInv, TypeOK
<1>4. OneEach'
  BY <1>3 DEF PlaceInv, OneEach
<1>5. OnePlace'
  <2>1. Places(used, unused, connected)
    BY PlacesNow DEF PlaceInv
  <2>2. /\ \A x : x \in connected' <=> x \in connected /\ x \notin unused[u]
        /\ \A v \in Url : unused'[v] = IF v = u THEN {} ELSE unused[v]
        /\ used' = used
    BY <1>1 DEF PlaceInv, TypeOK
  <2>3. Places(used', unused', connected')
    BY <1>1, <2>1, <2>2 DEF Places
  <2> QED
    BY <2>3, PlacesNext
<1>6. HeldIsUsed'
  BY <1>3 DEF PlaceInv, HeldIsUsed, In
<1>7. InvalidIsHeld'
  <2>1. In("held")' = In("held")
    BY <1>3 DEF In
  <2> QED
    BY <2>1 DEF PlaceInv, InvalidIsHeld
<1> QED
  BY <1>2, <1>4, <1>5, <1>6, <1>7 DEF PlaceInv

LEMMA KeepsGetRetrieve ==
    ASSUME PlaceInv, NEW q \in Req, GetRetrieve(q)
    PROVE  PlaceInv'
<1>1. /\ state[q] = "new" /\ DropUnused(asked[q])
      /\ state' = [state EXCEPT ![q] = "retrieving"] /\ pending' = pending + 1
      /\ UNCHANGED <<used, waiting, invalid, shutdown, inside, asked, holds, home, lost>>
  BY DEF GetRetrieve
<1>2. WaitersWait' /\ WaitersDiffer'
  BY <1>1 DEF PlaceInv, WaitersWait, WaitersDiffer, TypeOK
<1>3. waiting' \in Seq(Req) /\ pending' \in Int
  BY <1>1 DEF PlaceInv, TypeOK
<1> QED
  BY <1>1, <1>2, <1>3, KeepsDrop

\* Who was new is not in the queue yet.
LEMMA KeepsGetWait ==
    ASSUME PlaceInv, NEW q \in Req, GetWait(q)
    PROVE  PlaceInv'
<1>1. /\ state[q] = "new" /\ DropUnused(asked[q])
      /\ state' = [state EXCEPT ![q] = "waiting"] /\ waiting' = Append(waiting, q)
      /\ UNCHANGED <<used, pending, invalid, shutdown, inside, asked, holds, home, lost>>
  BY DEF GetWait
<1>2. waiting \in Seq(Req) /\ state \in [Req -> ReqState]
  BY DEF PlaceInv, TypeOK
<1>3. /\ waiting' \in Seq(Req) /\ DOMAIN waiting' = 1 .. Len(waiting) + 1
      /\ DOMAIN waiting = 1 .. Len(waiting) /\ Len(waiting) \in Nat
      /\ \A i \in 1 .. Len(waiting) : waiting'[i] = waiting[i]
      /\ waiting'[Len(waiting) + 1] = q
  BY <1>1, <1>2, AppendProperties
<1>4. \A i \in 1 .. Len(waiting) : waiting[i] \in Req /\ state[waiting[i]] = "waiting" /\ waiting[i] # q
  BY <1>1, <1>2, <1>3 DEF PlaceInv, WaitersWait
<1>5. \A i \in DOMAIN waiting' : i \in 1 .. Len(waiting) \/ i = Len(waiting) + 1
  BY <1>3
<1>6. WaitersWait'
  <2>1. state'[q] = "waiting" /\ \A p \in Req : p # q => state'[p] = state[p]
    BY <1>1, <1>2
  <2> QED
    BY <1>3, <1>4, <1>5, <2>1 DEF WaitersWait
<1>7. WaitersDiffer'
  BY <1>3, <1>4, <1>5 DEF PlaceInv, WaitersDiffer
<1>8. pending' \in Int
  BY <1>1 DEF PlaceInv, TypeOK
<1> QED
  BY <1>1, <1>3, <1>6, <1>7, <1>8, KeepsDrop

\* The address a new connection gets is no address of another one.
LEMMA KeepsRetrieved ==
    ASSUME PlaceInv, NEW q \in Req, Retrieved(q)
    PROVE  PlaceInv'
<1> DEFINE u == asked[q]
<1>1. PICK r \in Res \ connected :
        /\ connected' = connected \union {r}
        /\ used' = [used EXCEPT ![u] = @ \union {r}]
        /\ age' = [age EXCEPT ![r] = 0]
        /\ holds' = [holds EXCEPT ![q] = {r}]
  BY DEF Retrieved
<1>2. /\ state[q] = "retrieving"
      /\ home' = [home EXCEPT ![q] = u] /\ state' = [state EXCEPT ![q] = "held"] /\ inside' = TRUE
      /\ UNCHANGED <<unused, waiting, pending, invalid, shutdown, asked, lost>>
      /\ u \in Url
  BY DEF Retrieved, PlaceInv, TypeOK
<1>3. TypeOK'
  <2>1. age' \in [Res -> Age \union {Never}]
    BY <1>1, ZeroIsAge DEF PlaceInv, TypeOK
  <2>2. /\ used' \in [Url -> SUBSET Res] /\ connected' \subseteq Res /\ holds' \in [Req -> SUBSET Res]
    BY <1>1, <1>2 DEF PlaceInv, TypeOK
  <2>3. state' \in [Req -> ReqState] /\ home' \in [Req -> Url]
    BY <1>2 DEF PlaceInv, TypeOK, ReqState
  <2> QED
    BY <1>2, <2>1, <2>2, <2>3 DEF PlaceInv, TypeOK
<1>4. /\ \A p \in Req : p # q => state'[p] = state[p] /\ holds'[p] = holds[p] /\ home'[p] = home[p]
      /\ state'[q] = "held" /\ holds'[q] = {r} /\ home'[q] = u
  BY <1>1, <1>2 DEF PlaceInv, TypeOK
<1>5. WaitersWait' /\ WaitersDiffer'
  BY <1>2, <1>4 DEF PlaceInv, WaitersWait, WaitersDiffer, TypeOK
<1>6. OneEach'
  BY <1>4 DEF PlaceInv, OneEach
<1>7. /\ \A x : \A v \in Url : x \in used'[v] <=> x \in used[v] \/ (v = u /\ x = r)
      /\ \A v \in Url : r \notin used[v] /\ r \notin unused[v]
  <2>1. Places(used, unused, connected)
    BY PlacesNow DEF PlaceInv
  <2> QED
    BY <1>1, <1>2, <2>1 DEF PlaceInv, TypeOK, Places
<1>8. OnePlace'
  <2>1. Places(used, unused, connected)
    BY PlacesNow DEF PlaceInv
  <2>2. (\A x : x \in connected' <=> x \in connected \/ x = r) /\ unused' = unused
    BY <1>1, <1>2
  <2> HIDE DEF u
  <2>3. Places(used', unused', connected')
    BY <1>2, <1>7, <2>1, <2>2 DEF Places
  <2> QED
    BY <2>3, PlacesNext
<1>9. HeldIsUsed'
  <2>1. SUFFICES ASSUME ~shutdown PROVE HeldIsUsed'
    BY <1>2 DEF HeldIsUsed
  <2>2. \A p \in Req : state[p] = "held" => holds[p] # {} /\ holds[p] \subseteq used[home[p]] /\ home[p] \in Url
    BY <2>1 DEF PlaceInv, HeldIsUsed, In, TypeOK
  <2>3. \A p \in Req : state'[p] = "held" => holds'[p] # {} /\ holds'[p] \subseteq used'[home'[p]]
    BY <1>2, <1>4, <1>7, <2>2
  <2>4. \A p \in Req : state[p] = "held" => r \notin holds[p]
    BY <1>7, <2>2
  <2>5. \A p, s \in Req : state'[p] = "held" /\ state'[s] = "held" /\ p # s => holds'[p] \intersect holds'[s] = {}
    BY <1>4, <2>1, <2>4 DEF PlaceInv, HeldIsUsed, In
  <2> QED
    BY <2>3, <2>5 DEF HeldIsUsed, In
<1>10. InvalidIsHeld'
  <2>1. SUFFICES ASSUME ~shutdown, NEW x \in invalid PROVE \E p \in Req : state'[p] = "held" /\ x \in holds'[p]
    BY <1>2 DEF InvalidIsHeld, In
  <2>2. PICK p \in Req : state[p] = "held" /\ x \in holds[p]
    BY <2>1 DEF PlaceInv, InvalidIsHeld, In
  <2> QED
    BY <1>2, <1>4, <2>2
<1> QED
  BY <1>3, <1>5, <1>6, <1>8, <1>9, <1>10 DEF PlaceInv

\* Steps that move no connection and change neither holders nor the queue.
LEMMA KeepsFrame ==
    ASSUME PlaceInv, NEW S,
           state' \in [Req -> ReqState],
           \A p \in Req : state'[p] = "held" <=> state[p] = "held",
           \A p \in Req : state[p] = "waiting" => state'[p] = "waiting",
           age' \in [Res -> Age \union {Never}], pending' \in Int, inside' \in BOOLEAN,
           lost' \in BOOLEAN, invalid' = invalid \union S, S \subseteq UNION {holds[p] : p \in In("held")},
           UNCHANGED <<used, unused, waiting, shutdown, connected, asked, holds, home>>
    PROVE  PlaceInv'
<1>1. invalid' \subseteq Res
  <2>1. \A p \in Req : holds[p] \subseteq Res
    BY DEF PlaceInv, TypeOK
  <2> QED
    BY <2>1 DEF PlaceInv, TypeOK, In
<1>2. TypeOK'
  BY <1>1 DEF PlaceInv, TypeOK
<1>3. WaitersWait' /\ WaitersDiffer' /\ OneEach'
  BY DEF PlaceInv, WaitersWait, WaitersDiffer, OneEach, TypeOK
<1>4. OnePlace'
  BY DEF PlaceInv, OnePlace
<1>5. In("held")' = In("held")
  BY DEF In
<1>6. HeldIsUsed'
  BY <1>5 DEF PlaceInv, HeldIsUsed
<1>7. InvalidIsHeld'
  BY <1>5 DEF PlaceInv, InvalidIsHeld
<1> QED
  BY <1>2, <1>3, <1>4, <1>6, <1>7 DEF PlaceInv

LEMMA KeepsRetrieveFailed ==
    ASSUME PlaceInv, NEW q \in Req, RetrieveFailed(q)
    PROVE  PlaceInv'
<1>1. /\ state[q] = "retrieving" /\ state' = [state EXCEPT ![q] = "done"]
      /\ lost' = TRUE /\ inside' = TRUE
      /\ UNCHANGED <<used, unused, age, waiting, pending, invalid, shutdown, connected, asked, holds, home>>
  BY DEF RetrieveFailed
<1>2. state' \in [Req -> ReqState]
  BY <1>1 DEF PlaceInv, TypeOK, ReqState
<1>3. \A p \in Req : /\ state'[p] = "held" <=> state[p] = "held"
                     /\ state[p] = "waiting" => state'[p] = "waiting"
  BY <1>1 DEF PlaceInv, TypeOK
<1>4. invalid' = invalid \union {} /\ {} \subseteq UNION {holds[p] : p \in In("held")}
  BY <1>1
<1>5. age' \in [Res -> Age \union {Never}] /\ pending' \in Int
  BY <1>1 DEF PlaceInv, TypeOK
<1> QED
  BY <1>1, <1>2, <1>3, <1>4, <1>5, KeepsFrame

LEMMA KeepsCounted ==
    ASSUME PlaceInv, Counted \/ ClockTicks \/ UNCHANGED vars
    PROVE  PlaceInv'
<1>1. /\ state' = state /\ lost' = lost /\ invalid' = invalid
      /\ UNCHANGED <<used, unused, waiting, shutdown, connected, asked, holds, home>>
  BY DEF Counted, ClockTicks, vars, poolVars, reqVars
<1>2. pending' \in Int /\ inside' \in BOOLEAN
  <2>1. pending \in Int /\ inside \in BOOLEAN
    BY DEF PlaceInv, TypeOK
  <2>2. (pending' = pending - 1 /\ inside' = FALSE) \/ (pending' = pending /\ inside' = inside)
    BY Zenon DEF Counted, ClockTicks, vars, poolVars
  <2>3. pending' \in Int
    BY <2>1, <2>2
  <2>4. inside' \in BOOLEAN
    BY <2>1, <2>2, Zenon
  <2> QED
    BY <2>3, <2>4
<1>3. age' \in [Res -> Age \union {Never}]
  <2>1. CASE ClockTicks
    <3>1. \A n \in 0 .. MaxAge : n + 1 \in 0 .. MaxAge + 1
      BY ResourcePoolAssumption
    <3> QED
      BY <2>1, <3>1 DEF PlaceInv, TypeOK, ClockTicks, Age
  <2>2. CASE Counted \/ UNCHANGED vars
    BY <2>2 DEF PlaceInv, TypeOK, Counted, vars, poolVars
  <2> QED
    BY <2>1, <2>2
<1>4. state' \in [Req -> ReqState] /\ lost' \in BOOLEAN
  BY <1>1 DEF PlaceInv, TypeOK
<1>5. invalid' = invalid \union {} /\ {} \subseteq UNION {holds[p] : p \in In("held")}
  BY <1>1
<1> QED
  BY <1>1, <1>2, <1>3, <1>4, <1>5, KeepsFrame

LEMMA KeepsInvalidate ==
    ASSUME PlaceInv, NEW q \in Req, Invalidate(q)
    PROVE  PlaceInv'
<1>1. /\ state[q] = "held" /\ invalid' = invalid \union holds[q]
      /\ UNCHANGED <<used, unused, age, waiting, pending, shutdown, inside, connected, state, asked, holds, home, lost>>
  BY DEF Invalidate, reqVars
<1>2. holds[q] \subseteq UNION {holds[p] : p \in In("held")}
  BY <1>1 DEF In
<1>3. /\ age' \in [Res -> Age \union {Never}] /\ pending' \in Int /\ inside' \in BOOLEAN
      /\ lost' \in BOOLEAN /\ state' \in [Req -> ReqState]
  BY <1>1 DEF PlaceInv, TypeOK
<1> QED
  BY <1>1, <1>2, <1>3, KeepsFrame

-----------------------------------------------------------------------------
(* The deleter *)

\* What the holder q has before it lets go.
LEMMA HolderHas ==
    ASSUME PlaceInv, NEW q \in Req, state[q] = "held"
    PROVE  \E r \in Res :
             /\ holds[q] = {r}
             /\ ~shutdown =>
                  /\ r \in used[home[q]]
                  /\ \A v \in Url : r \notin unused[v] /\ (v # home[q] => r \notin used[v])
                  /\ \A p \in Req : p # q /\ state[p] = "held" => r \notin holds[p]
<1>1. PICK r \in Res : holds[q] = {r}
  BY DEF PlaceInv, OneEach
<1>2. ASSUME ~shutdown PROVE r \in used[home[q]] /\ home[q] \in Url
  BY <1>1, <1>2 DEF PlaceInv, HeldIsUsed, In, TypeOK
<1>3. ASSUME ~shutdown, NEW v \in Url PROVE r \notin unused[v] /\ (v # home[q] => r \notin used[v])
  <2>1. Places(used, unused, connected)
    BY PlacesNow DEF PlaceInv
  <2> QED
    BY <1>2, <1>3, <2>1 DEF Places
<1>4. ASSUME ~shutdown, NEW p \in Req, p # q, state[p] = "held" PROVE r \notin holds[p]
  BY <1>1, <1>4 DEF PlaceInv, HeldIsUsed, In
<1> QED
  BY <1>1, <1>2, <1>3, <1>4

\* When the connection is not handed on, the queue and the other holders stay.
LEMMA GoneKeeps ==
    ASSUME PlaceInv, NEW q \in Req, state[q] = "held", Gone(q), UNCHANGED waiting
    PROVE  /\ state' \in [Req -> ReqState] /\ holds' \in [Req -> SUBSET Res] /\ home' \in [Req -> Url]
           /\ state'[q] = "done" /\ holds'[q] = {} /\ home' = home
           /\ \A p \in Req : p # q => state'[p] = state[p] /\ holds'[p] = holds[p]
           /\ WaitersWait' /\ WaitersDiffer' /\ OneEach'
<1>1. state' = [state EXCEPT ![q] = "done"] /\ holds' = [holds EXCEPT ![q] = {}] /\ home' = home
  BY DEF Gone
<1>2. state' \in [Req -> ReqState] /\ holds' \in [Req -> SUBSET Res] /\ home' \in [Req -> Url]
  BY <1>1 DEF PlaceInv, TypeOK, ReqState
<1>3. /\ state'[q] = "done" /\ holds'[q] = {} /\ home' = home
      /\ \A p \in Req : p # q => state'[p] = state[p] /\ holds'[p] = holds[p]
  BY <1>1 DEF PlaceInv, TypeOK
<1>4. WaitersWait' /\ WaitersDiffer'
  BY <1>3 DEF PlaceInv, WaitersWait, WaitersDiffer, TypeOK
<1>5. OneEach'
  BY <1>3 DEF PlaceInv, OneEach
<1> QED
  BY <1>2, <1>3, <1>4, <1>5

LEMMA KeepsCollectShutdown ==
    ASSUME PlaceInv, NEW q \in Req, CollectShutdown(q)
    PROVE  PlaceInv'
<1>1. /\ state[q] = "held" /\ shutdown /\ Gone(q)
      /\ UNCHANGED <<used, unused, age, waiting, invalid, connected, lost, pending, shutdown, inside, asked>>
  BY DEF CollectShutdown, LetGo
<1>2. /\ state' \in [Req -> ReqState] /\ holds' \in [Req -> SUBSET Res] /\ home' \in [Req -> Url]
      /\ WaitersWait' /\ WaitersDiffer' /\ OneEach'
  BY <1>1, GoneKeeps
<1>3. TypeOK'
  BY <1>1, <1>2 DEF PlaceInv, TypeOK
<1>4. OnePlace'
  BY <1>1 DEF PlaceInv, OnePlace
<1>5. HeldIsUsed' /\ InvalidIsHeld'
  BY <1>1 DEF HeldIsUsed, InvalidIsHeld
<1> QED
  BY <1>2, <1>3, <1>4, <1>5 DEF PlaceInv

\* A broken connection leaves the pool with its mark.
LEMMA KeepsCollectInvalid ==
    ASSUME PlaceInv, NEW q \in Req, CollectInvalid(q)
    PROVE  PlaceInv'
<1> DEFINE u == home[q]
<1>1. /\ state[q] = "held" /\ ~shutdown /\ Gone(q) /\ invalid' = invalid \ holds[q]
      /\ used' = [used EXCEPT ![u] = @ \ holds[q]] /\ age' = NoAge(holds[q])
      /\ connected' = connected \ holds[q] /\ lost' = TRUE
      /\ UNCHANGED <<unused, waiting, pending, shutdown, inside, asked>>
      /\ u \in Url
  BY DEF CollectInvalid, LetGo, PlaceInv, TypeOK
<1>2. PICK r \in Res :
        /\ holds[q] = {r} /\ r \in used[u]
        /\ \A v \in Url : r \notin unused[v] /\ (v # u => r \notin used[v])
        /\ \A p \in Req : p # q /\ state[p] = "held" => r \notin holds[p]
  BY <1>1, HolderHas
<1>3. /\ state' \in [Req -> ReqState] /\ holds' \in [Req -> SUBSET Res] /\ home' \in [Req -> Url]
      /\ state'[q] = "done" /\ holds'[q] = {} /\ home' = home
      /\ \A p \in Req : p # q => state'[p] = state[p] /\ holds'[p] = holds[p]
      /\ WaitersWait' /\ WaitersDiffer' /\ OneEach'
  BY <1>1, GoneKeeps
<1>4. TypeOK'
  <2>1. age' \in [Res -> Age \union {Never}]
    BY <1>1, NoAgeType DEF PlaceInv
  <2>2. used' \in [Url -> SUBSET Res] /\ connected' \subseteq Res /\ invalid' \subseteq Res
    BY <1>1 DEF PlaceInv, TypeOK
  <2> QED
    BY <1>1, <1>3, <2>1, <2>2 DEF PlaceInv, TypeOK
<1>5. \A x : \A v \in Url : x \in used'[v] <=> x \in used[v] /\ x # r
  BY <1>1, <1>2 DEF PlaceInv, TypeOK
<1>6. OnePlace'
  <2>1. Places(used, unused, connected)
    BY PlacesNow DEF PlaceInv
  <2>2. (\A x : x \in connected' <=> x \in connected /\ x # r) /\ unused' = unused
    BY <1>1, <1>2
  <2> HIDE DEF u
  <2>3. Places(used', unused', connected')
    BY <1>1, <1>2, <1>5, <2>1, <2>2 DEF Places
  <2> QED
    BY <2>3, PlacesNext
<1>7. HeldIsUsed'
  <2>1. \A p \in Req : state[p] = "held" => holds[p] # {} /\ holds[p] \subseteq used[home[p]] /\ home[p] \in Url
    BY <1>1 DEF PlaceInv, HeldIsUsed, In, TypeOK
  <2>2. \A p \in Req : state'[p] = "held" => holds'[p] # {} /\ holds'[p] \subseteq used'[home'[p]]
    BY <1>2, <1>3, <1>5, <2>1
  <2>3. \A p, s \in Req : state'[p] = "held" /\ state'[s] = "held" /\ p # s => holds'[p] \intersect holds'[s] = {}
    BY <1>1, <1>3 DEF PlaceInv, HeldIsUsed, In
  <2> QED
    BY <2>2, <2>3 DEF HeldIsUsed, In
<1>8. InvalidIsHeld'
  <2>1. SUFFICES ASSUME NEW x \in invalid, x # r PROVE \E p \in Req : state'[p] = "held" /\ x \in holds'[p]
    BY <1>1, <1>2 DEF InvalidIsHeld, In
  <2>2. PICK p \in Req : state[p] = "held" /\ x \in holds[p]
    BY <1>1, <2>1 DEF PlaceInv, InvalidIsHeld, In
  <2> QED
    BY <1>2, <1>3, <2>1, <2>2
<1> QED
  BY <1>3, <1>4, <1>6, <1>7, <1>8 DEF PlaceInv

\* The first of the queue, which held nothing, gets the connection and its home.
LEMMA KeepsCollectToWaiter ==
    ASSUME PlaceInv, NEW q \in Req, CollectToWaiter(q)
    PROVE  PlaceInv'
<1> DEFINE h == Head(waiting)
<1>1. /\ state[q] = "held" /\ ~shutdown /\ waiting # <<>> /\ waiting' = Tail(waiting)
      /\ holds[q] \intersect invalid = {}
      /\ age' = [r \in Res |-> IF r \in holds[q] THEN 0 ELSE age[r]]
      /\ state' = [state EXCEPT ![q] = "done", ![h] = "held"]
      /\ holds' = [holds EXCEPT ![q] = {}, ![h] = holds[q]]
      /\ home' = [home EXCEPT ![h] = home[q]]
      /\ UNCHANGED <<used, unused, invalid, connected, lost, pending, shutdown, inside, asked>>
  BY DEF CollectToWaiter, LetGo
<1>2. /\ h \in Req /\ h = waiting[1] /\ 1 \in DOMAIN waiting
      /\ waiting' \in Seq(Req)
      /\ \A i \in DOMAIN waiting' : /\ i + 1 \in DOMAIN waiting /\ waiting'[i] = waiting[i + 1]
                                   /\ i \in Nat /\ i >= 1
  BY <1>1, HeadTail DEF PlaceInv
<1>3. state[h] = "waiting" /\ h # q
  BY <1>1, <1>2 DEF PlaceInv, WaitersWait
<1>4. PICK r \in Res :
        /\ holds[q] = {r} /\ r \in used[home[q]]
        /\ \A p \in Req : p # q /\ state[p] = "held" => r \notin holds[p]
  BY <1>1, HolderHas
<1> HIDE DEF h
<1>5. /\ state'[q] = "done" /\ holds'[q] = {}
      /\ state'[h] = "held" /\ holds'[h] = {r} /\ home'[h] = home[q]
      /\ \A p \in Req : p # q /\ p # h => state'[p] = state[p] /\ holds'[p] = holds[p] /\ home'[p] = home[p]
  BY <1>1, <1>2, <1>3, <1>4 DEF PlaceInv, TypeOK
<1>6. TypeOK'
  <2>1. age' \in [Res -> Age \union {Never}]
    BY <1>1, ZeroIsAge DEF PlaceInv, TypeOK
  <2>2. holds' \in [Req -> SUBSET Res] /\ state' \in [Req -> ReqState] /\ home' \in [Req -> Url]
    BY <1>1, <1>2 DEF PlaceInv, TypeOK, ReqState
  <2> QED
    BY <1>1, <1>2, <2>1, <2>2 DEF PlaceInv, TypeOK
<1>7. \A i \in DOMAIN waiting' : waiting'[i] \in Req /\ waiting'[i] # h /\ state[waiting'[i]] = "waiting"
  BY <1>2 DEF PlaceInv, WaitersWait, WaitersDiffer, TypeOK
<1>8. WaitersWait'
  BY <1>1, <1>5, <1>7 DEF WaitersWait
<1>9. WaitersDiffer'
  <2>1. \A i, j \in DOMAIN waiting' : waiting'[i] = waiting'[j] => i + 1 = j + 1
    BY <1>2 DEF PlaceInv, WaitersDiffer
  <2>2. \A i, j \in DOMAIN waiting' : i + 1 = j + 1 => i = j
    BY <1>2
  <2> QED
    BY <2>1, <2>2 DEF WaitersDiffer
<1>10. OneEach'
  BY <1>5 DEF PlaceInv, OneEach
<1>11. OnePlace'
  BY <1>1 DEF PlaceInv, OnePlace
<1>12. HeldIsUsed'
  <2>1. \A p \in Req : state[p] = "held" => holds[p] # {} /\ holds[p] \subseteq used[home[p]]
    BY <1>1 DEF PlaceInv, HeldIsUsed, In
  <2>2. \A p \in Req : state'[p] = "held" => holds'[p] # {} /\ holds'[p] \subseteq used'[home'[p]]
    BY <1>1, <1>4, <1>5, <2>1
  <2>3. \A p, s \in Req : state'[p] = "held" /\ state'[s] = "held" /\ p # s => holds'[p] \intersect holds'[s] = {}
    <3>1. \A p, s \in Req : state[p] = "held" /\ state[s] = "held" /\ p # s => holds[p] \intersect holds[s] = {}
      BY <1>1 DEF PlaceInv, HeldIsUsed, In
    <3>2. \A p \in Req : state'[p] = "held" =>
            \/ p = h /\ holds'[p] = {r}
            \/ p # h /\ state[p] = "held" /\ holds'[p] = holds[p] /\ r \notin holds[p]
      BY <1>4, <1>5
    <3> QED
      BY <3>1, <3>2
  <2> QED
    BY <2>2, <2>3 DEF HeldIsUsed, In
<1>13. InvalidIsHeld'
  <2>1. SUFFICES ASSUME NEW x \in invalid PROVE \E p \in Req : state'[p] = "held" /\ x \in holds'[p]
    BY <1>1 DEF InvalidIsHeld, In
  <2>2. PICK p \in Req : state[p] = "held" /\ x \in holds[p]
    BY <1>1 DEF PlaceInv, InvalidIsHeld, In
  <2>3. p # q /\ p # h
    BY <1>1, <1>3, <2>2
  <2> QED
    BY <1>5, <2>2, <2>3
<1> QED
  BY <1>6, <1>8, <1>9, <1>10, <1>11, <1>12, <1>13 DEF PlaceInv

\* The connection goes idle, and nothing in use is freed to make room for it.
LEMMA KeepsCollectToUnused ==
    ASSUME PlaceInv, NEW q \in Req, CollectToUnused(q)
    PROVE  PlaceInv'
<1> DEFINE u == home[q]
           idle == unused[u] \union (holds[q] \intersect used[u])
           excess == IF Cardinality(idle) > MinCapacity THEN Lowest(idle) ELSE {}
<1>1. /\ state[q] = "held" /\ ~shutdown /\ Gone(q) /\ holds[q] \intersect invalid = {}
      /\ used' = [used EXCEPT ![u] = @ \ holds[q]]
      /\ unused' = [unused EXCEPT ![u] = idle \ excess]
      /\ age' = NoAge(excess)
      /\ connected' = connected \ (excess \union (holds[q] \ used[u]))
      /\ UNCHANGED <<waiting, invalid, lost, pending, shutdown, inside, asked>>
      /\ u \in Url
  BY DEF CollectToUnused, LetGo, PlaceInv, TypeOK
<1>2. PICK r \in Res :
        /\ holds[q] = {r} /\ r \in used[u]
        /\ \A v \in Url : r \notin unused[v] /\ (v # u => r \notin used[v])
        /\ \A p \in Req : p # q /\ state[p] = "held" => r \notin holds[p]
  BY <1>1, HolderHas
<1>3. /\ state' \in [Req -> ReqState] /\ holds' \in [Req -> SUBSET Res] /\ home' \in [Req -> Url]
      /\ state'[q] = "done" /\ holds'[q] = {} /\ home' = home
      /\ \A p \in Req : p # q => state'[p] = state[p] /\ holds'[p] = holds[p]
      /\ WaitersWait' /\ WaitersDiffer' /\ OneEach'
  BY <1>1, GoneKeeps
<1>4. excess \subseteq idle /\ idle = unused[u] \union {r} /\ holds[q] \ used[u] = {}
  BY <1>2, LowestIn
<1> HIDE DEF excess, idle
<1>5. TypeOK'
  <2>1. age' \in [Res -> Age \union {Never}]
    BY <1>1, NoAgeType DEF PlaceInv
  <2>2. /\ used' \in [Url -> SUBSET Res] /\ unused' \in [Url -> SUBSET Res]
        /\ connected' \subseteq Res
    BY <1>1, <1>4 DEF PlaceInv, TypeOK
  <2> QED
    BY <1>1, <1>3, <2>1, <2>2 DEF PlaceInv, TypeOK
<1>6. /\ \A x : \A v \in Url : x \in used'[v] <=> x \in used[v] /\ x # r
      /\ \A x : \A v \in Url : x \in unused'[v] <=>
                            (x \in unused[v] \/ (v = u /\ x = r)) /\ ~(v = u /\ x \in excess)
  BY <1>1, <1>2, <1>4 DEF PlaceInv, TypeOK
<1>7. OnePlace'
  <2>1. Places(used, unused, connected)
    BY PlacesNow DEF PlaceInv
  <2>2. /\ \A x : x \in connected' <=> x \in connected /\ x \notin excess
        /\ \A x : x \in excess => x \in unused[u] \/ x = r
    BY <1>1, <1>4
  <2> HIDE DEF u
  <2>3. Places(used', unused', connected')
    BY <1>1, <1>2, <1>6, <2>1, <2>2 DEF Places
  <2> QED
    BY <2>3, PlacesNext
<1>8. HeldIsUsed'
  <2>1. \A p \in Req : state[p] = "held" => holds[p] # {} /\ holds[p] \subseteq used[home[p]] /\ home[p] \in Url
    BY <1>1 DEF PlaceInv, HeldIsUsed, In, TypeOK
  <2>2. \A p \in Req : state'[p] = "held" => holds'[p] # {} /\ holds'[p] \subseteq used'[home'[p]]
    BY <1>2, <1>3, <1>6, <2>1
  <2>3. \A p, s \in Req : state'[p] = "held" /\ state'[s] = "held" /\ p # s => holds'[p] \intersect holds'[s] = {}
    BY <1>1, <1>3 DEF PlaceInv, HeldIsUsed, In
  <2> QED
    BY <2>2, <2>3 DEF HeldIsUsed, In
<1>9. InvalidIsHeld'
  <2>1. SUFFICES ASSUME NEW x \in invalid PROVE \E p \in Req : state'[p] = "held" /\ x \in holds'[p]
    BY <1>1 DEF InvalidIsHeld, In
  <2>2. PICK p \in Req : state[p] = "held" /\ x \in holds[p]
    BY <1>1 DEF PlaceInv, InvalidIsHeld, In
  <2>3. p # q
    BY <1>1, <2>2
  <2> QED
    BY <1>3, <2>2, <2>3
<1> QED
  BY <1>3, <1>5, <1>7, <1>8, <1>9 DEF PlaceInv

-----------------------------------------------------------------------------
LEMMA KeepsShutdown ==
    ASSUME PlaceInv, Shutdown
    PROVE  PlaceInv'
<1>1. /\ shutdown' = TRUE /\ used' = [v \in Url |-> {}] /\ unused' = [v \in Url |-> {}]
      /\ connected' = connected \ UNION {used[v] \union unused[v] : v \in Url}
      /\ UNCHANGED <<age, waiting, pending, invalid, inside, state, asked, holds, home, lost>>
  BY DEF Shutdown, reqVars
<1>2. connected' = {}
  BY <1>1 DEF PlaceInv, OnePlace
<1>3. TypeOK'
  BY <1>1, <1>2 DEF PlaceInv, TypeOK
<1>4. WaitersWait' /\ WaitersDiffer' /\ OneEach'
  BY <1>1 DEF PlaceInv, WaitersWait, WaitersDiffer, OneEach
<1>5. OnePlace'
  BY <1>1, <1>2 DEF OnePlace
<1>6. HeldIsUsed' /\ InvalidIsHeld'
  BY <1>1 DEF HeldIsUsed, InvalidIsHeld
<1> QED
  BY <1>3, <1>4, <1>5, <1>6 DEF PlaceInv

LEMMA StepPlaceInv == PlaceInv /\ [Next]_vars => PlaceInv'
<1> SUFFICES ASSUME PlaceInv, [Next]_vars PROVE PlaceInv'
  OBVIOUS
<1>1. ASSUME NEW q \in Req, Get(q) PROVE PlaceInv'
  BY <1>1, KeepsGetReuse, KeepsGetRetrieve, KeepsGetWait DEF Get
<1>2. ASSUME NEW q \in Req, Completes(q) \/ Invalidate(q) PROVE PlaceInv'
  BY <1>2, KeepsRetrieved, KeepsRetrieveFailed, KeepsInvalidate DEF Completes
<1>3. ASSUME NEW q \in Req, Collect(q) PROVE PlaceInv'
  BY <1>3, KeepsCollectShutdown, KeepsCollectInvalid, KeepsCollectToWaiter, KeepsCollectToUnused DEF Collect
<1>4. CASE Counted \/ ClockTicks \/ UNCHANGED vars
  BY <1>4, KeepsCounted
<1>5. CASE Shutdown
  BY <1>5, KeepsShutdown
<1> QED
  BY <1>1, <1>2, <1>3, <1>4, <1>5 DEF Next

\* The types, where connections are, who holds them and which are marked, together,
\* are an invariant of Pool::get(), collect(), release(), invalidate() and shutdown().
THEOREM PlaceInvariant == Spec => []PlaceInv
<1>1. Init => PlaceInv
  BY InitPlaceInv
<1>2. PlaceInv /\ [Next]_vars => PlaceInv'
  BY StepPlaceInv
<1> QED
  BY <1>1, <1>2, PTL DEF Spec

\* No connection is freed, or handed out again, under its holder.
THEOREM HeldIsUsedHolds == Spec => []HeldIsUsed
<1>1. PlaceInv => HeldIsUsed
  BY DEF PlaceInv
<1> QED
  BY <1>1, PlaceInvariant, PTL

\* No connection is leaked or freed twice.
THEOREM OnePlaceHolds == Spec => []OnePlace
<1>1. PlaceInv => OnePlace
  BY DEF PlaceInv
<1> QED
  BY <1>1, PlaceInvariant, PTL

\* No mark of InvalidResources outlives its connection.
THEOREM InvalidIsHeldHolds == Spec => []InvalidIsHeld
<1>1. PlaceInv => InvalidIsHeld
  BY DEF PlaceInv
<1> QED
  BY <1>1, PlaceInvariant, PTL

-----------------------------------------------------------------------------
(* Capacity.  get() lets a connection be made when used_ and pending_ leave  *)
(* room, so what has to be known is that pending_ is no less than what is    *)
(* being retrieved (PendingCounts), and that a connection that comes or goes *)
(* is counted exactly once on the way (PlaceInv).                            *)

CapInv == PlaceInv /\ PendingCounts /\ CapacityBound

\* Retrieving(u) and CapacityBound as functions of the state.
Coming(S, A, u) == {q \in Req : S[q] = "retrieving" /\ A[q] = u}

Fits(U, N, S, A) ==
    \A u \in Url : Cardinality(U[u]) + Cardinality(N[u]) + Cardinality(Coming(S, A, u)) <= MinCapacity

LEMMA FitsNow == CapacityBound <=> Fits(used, unused, state, asked)
BY DEF CapacityBound, Fits, Coming, Retrieving, In

LEMMA FitsNext == CapacityBound' <=> Fits(used', unused', state', asked')
BY DEF CapacityBound, Fits, Coming, Retrieving, In

LEMMA Sizes ==
    ASSUME TypeOK
    PROVE  /\ \A u \in Url : /\ IsFiniteSet(used[u]) /\ Cardinality(used[u]) \in Nat
                            /\ IsFiniteSet(unused[u]) /\ Cardinality(unused[u]) \in Nat
           /\ IsFiniteSet(In("retrieving")) /\ Cardinality(In("retrieving")) \in Nat
           /\ \A u \in Url : /\ IsFiniteSet(Coming(state, asked, u))
                            /\ Cardinality(Coming(state, asked, u)) \in Nat
                            /\ Cardinality(Coming(state, asked, u)) <= Cardinality(In("retrieving"))
<1>1. ASSUME NEW S \in SUBSET Res PROVE IsFiniteSet(S) /\ Cardinality(S) \in Nat
  BY ResourcePoolAssumption, FS_Subset, FS_CardinalityType
<1>2. \A u \in Url : used[u] \in SUBSET Res /\ unused[u] \in SUBSET Res
  BY DEF TypeOK
<1>3. In("retrieving") \in SUBSET Req /\ \A u \in Url : Coming(state, asked, u) \in SUBSET In("retrieving")
  BY DEF In, Coming
<1>4. IsFiniteSet(In("retrieving")) /\ Cardinality(In("retrieving")) \in Nat
  BY <1>3, ResourcePoolAssumption, FS_Subset, FS_CardinalityType
<1>5. ASSUME NEW u \in Url
      PROVE  /\ IsFiniteSet(Coming(state, asked, u)) /\ Cardinality(Coming(state, asked, u)) \in Nat
             /\ Cardinality(Coming(state, asked, u)) <= Cardinality(In("retrieving"))
  BY <1>3, <1>4, FS_Subset, FS_CardinalityType
<1> QED
  BY <1>1, <1>2, <1>4, <1>5

\* The three ways in which a step changes who is being connected.
LEMMA SameComing ==
    ASSUME \A p \in Req : state'[p] = "retrieving" <=> state[p] = "retrieving", asked' = asked
    PROVE  /\ In("retrieving")' = In("retrieving")
           /\ \A u : Coming(state', asked', u) = Coming(state, asked, u)
BY DEF In, Coming

LEMMA OneMoreComes ==
    ASSUME TypeOK, NEW q \in Req, state[q] # "retrieving", state' = [state EXCEPT ![q] = "retrieving"],
           asked' = asked
    PROVE  /\ Cardinality(In("retrieving")') = Cardinality(In("retrieving")) + 1
           /\ \A u \in Url : Cardinality(Coming(state', asked', u)) =
                             Cardinality(Coming(state, asked, u)) + IF asked[q] = u THEN 1 ELSE 0
<1>1. In("retrieving")' = In("retrieving") \union {q} /\ q \notin In("retrieving")
  BY DEF TypeOK, In
<1>2. Cardinality(In("retrieving")') = Cardinality(In("retrieving")) + 1
  BY <1>1, Sizes, FS_AddElement
<1>3. ASSUME NEW u \in Url
      PROVE  Cardinality(Coming(state', asked', u)) =
               Cardinality(Coming(state, asked, u)) + IF asked[q] = u THEN 1 ELSE 0
  <2>1. IsFiniteSet(Coming(state, asked, u)) /\ Cardinality(Coming(state, asked, u)) \in Nat
    BY Sizes
  <2>2. CASE asked[q] = u
    <3>1. /\ Coming(state', asked', u) = Coming(state, asked, u) \union {q}
          /\ q \notin Coming(state, asked, u)
      BY <2>2 DEF Coming, TypeOK
    <3> QED
      BY <2>1, <2>2, <3>1, FS_AddElement
  <2>3. CASE asked[q] # u
    <3>1. Coming(state', asked', u) = Coming(state, asked, u)
      BY <2>3 DEF Coming, TypeOK
    <3> QED
      BY <2>1, <2>3, <3>1
  <2> QED
    BY <2>2, <2>3
<1> QED
  BY <1>2, <1>3

LEMMA OneLessComes ==
    ASSUME TypeOK, NEW q \in Req, state[q] = "retrieving", NEW s, s # "retrieving",
           state' = [state EXCEPT ![q] = s], asked' = asked
    PROVE  /\ Cardinality(In("retrieving")') = Cardinality(In("retrieving")) - 1
           /\ \A u \in Url : Cardinality(Coming(state', asked', u)) =
                             Cardinality(Coming(state, asked, u)) - IF asked[q] = u THEN 1 ELSE 0
<1>1. In("retrieving")' = In("retrieving") \ {q} /\ q \in In("retrieving")
  BY DEF TypeOK, In
<1>2. Cardinality(In("retrieving")') = Cardinality(In("retrieving")) - 1
  BY <1>1, Sizes, FS_RemoveElement
<1>3. ASSUME NEW u \in Url
      PROVE  Cardinality(Coming(state', asked', u)) =
               Cardinality(Coming(state, asked, u)) - IF asked[q] = u THEN 1 ELSE 0
  <2>1. IsFiniteSet(Coming(state, asked, u)) /\ Cardinality(Coming(state, asked, u)) \in Nat
    BY Sizes
  <2>2. CASE asked[q] = u
    <3>1. /\ Coming(state', asked', u) = Coming(state, asked, u) \ {q}
          /\ q \in Coming(state, asked, u)
      BY <2>2 DEF Coming, TypeOK
    <3> QED
      BY <2>1, <2>2, <3>1, FS_RemoveElement
  <2>3. CASE asked[q] # u
    <3>1. Coming(state', asked', u) = Coming(state, asked, u)
      BY <2>3 DEF Coming, TypeOK
    <3> QED
      BY <2>1, <2>3, <3>1
  <2> QED
    BY <2>2, <2>3
<1> QED
  BY <1>2, <1>3

\* Steps in which the pool's sets only lose connections and nobody starts or ends to
\* connect keep the capacity.
LEMMA KeepsFits ==
    ASSUME CapInv, asked' = asked,
           \A p \in Req : state'[p] = "retrieving" <=> state[p] = "retrieving",
           \A u \in Url : used'[u] \subseteq used[u] /\ unused'[u] \subseteq unused[u]
    PROVE  In("retrieving")' = In("retrieving") /\ CapacityBound'
<1>1. /\ In("retrieving")' = In("retrieving")
      /\ \A u : Coming(state', asked', u) = Coming(state, asked, u)
  BY SameComing
<1>2. ASSUME NEW u \in Url
      PROVE  Cardinality(used'[u]) + Cardinality(unused'[u]) + Cardinality(Coming(state', asked', u))
               <= MinCapacity
  <2>1. /\ IsFiniteSet(used[u]) /\ Cardinality(used[u]) \in Nat
        /\ IsFiniteSet(unused[u]) /\ Cardinality(unused[u]) \in Nat
        /\ Cardinality(Coming(state, asked, u)) \in Nat
    BY Sizes DEF CapInv, PlaceInv
  <2>2. /\ Cardinality(used'[u]) <= Cardinality(used[u]) /\ Cardinality(used'[u]) \in Nat
        /\ Cardinality(unused'[u]) <= Cardinality(unused[u]) /\ Cardinality(unused'[u]) \in Nat
    BY <2>1, FS_Subset, FS_CardinalityType
  <2>3. Cardinality(used[u]) + Cardinality(unused[u]) + Cardinality(Coming(state, asked, u)) <= MinCapacity
    BY FitsNow DEF CapInv, Fits
  <2> QED
    BY <1>1, <2>1, <2>2, <2>3, ResourcePoolAssumption
<1>3. CapacityBound'
  BY <1>2, FitsNext DEF Fits
<1> QED
  BY <1>1, <1>3

LEMMA CapGetReuse ==
    ASSUME CapInv, NEW q \in Req, GetReuse(q)
    PROVE  PendingCounts' /\ CapacityBound'
<1> DEFINE u == asked[q]
<1>1. PICK r \in Lowest(Fresh(u)) :
        /\ state[q] = "new"
        /\ unused' = [unused EXCEPT ![u] = @ \ ({x \in unused[u] : x < r} \union {r})]
        /\ used' = [used EXCEPT ![u] = @ \union {r}]
        /\ state' = [state EXCEPT ![q] = "held"]
        /\ UNCHANGED <<pending, inside, asked>>
  BY DEF GetReuse
<1>2. TypeOK /\ u \in Url /\ r \in unused[u] /\ r \notin used[u]
  BY <1>1 DEF CapInv, PlaceInv, TypeOK, OnePlace, Lowest, Fresh
<1>3. /\ In("retrieving")' = In("retrieving")
      /\ \A v : Coming(state', asked', v) = Coming(state, asked, v)
  <2>1. \A p \in Req : state'[p] = "retrieving" <=> state[p] = "retrieving"
    BY <1>1, <1>2 DEF TypeOK
  <2> QED
    BY <1>1, <2>1, SameComing
<1>4. ASSUME NEW v \in Url
      PROVE  Cardinality(used'[v]) + Cardinality(unused'[v]) <= Cardinality(used[v]) + Cardinality(unused[v])
             /\ Cardinality(used'[v]) \in Nat /\ Cardinality(unused'[v]) \in Nat
  <2>1. /\ IsFiniteSet(used[v]) /\ Cardinality(used[v]) \in Nat
        /\ IsFiniteSet(unused[v]) /\ Cardinality(unused[v]) \in Nat
    BY <1>2, Sizes
  <2>2. CASE v = u
    <3>1. used'[v] = used[v] \union {r} /\ unused'[v] \subseteq unused[v] \ {r}
      BY <1>1, <1>2, <2>2 DEF TypeOK
    <3>2. Cardinality(used'[v]) = Cardinality(used[v]) + 1
      BY <1>2, <2>1, <2>2, <3>1, FS_AddElement
    <3>3. IsFiniteSet(unused[v] \ {r}) /\ Cardinality(unused[v] \ {r}) = Cardinality(unused[v]) - 1
      BY <1>2, <2>1, <2>2, FS_RemoveElement
    <3>4. Cardinality(unused'[v]) <= Cardinality(unused[v] \ {r}) /\ Cardinality(unused'[v]) \in Nat
      BY <3>1, <3>3, FS_Subset, FS_CardinalityType
    <3> QED
      BY <2>1, <3>2, <3>3, <3>4
  <2>3. CASE v # u
    <3>1. used'[v] = used[v] /\ unused'[v] = unused[v]
      BY <1>1, <1>2, <2>3 DEF TypeOK
    <3> QED
      BY <2>1, <3>1
  <2> QED
    BY <2>2, <2>3
<1>5. CapacityBound'
  <2>1. Fits(used, unused, state, asked)
    BY FitsNow DEF CapInv
  <2>2. \A v \in Url : /\ Cardinality(Coming(state, asked, v)) \in Nat
                      /\ Cardinality(used[v]) \in Nat /\ Cardinality(unused[v]) \in Nat
    BY <1>2, Sizes
  <2>3. Fits(used', unused', state', asked')
    BY <1>3, <1>4, <2>1, <2>2, ResourcePoolAssumption DEF Fits
  <2> QED
    BY <2>3, FitsNext
<1>6. PendingCounts'
  BY <1>1, <1>3 DEF CapInv, PendingCounts
<1> QED
  BY <1>5, <1>6

\* There is room by pending_, and pending_ is no less than what is being retrieved.
LEMMA CapGetRetrieve ==
    ASSUME CapInv, NEW q \in Req, GetRetrieve(q)
    PROVE  PendingCounts' /\ CapacityBound'
<1> DEFINE u == asked[q]
<1>1. /\ state[q] = "new" /\ unused' = [unused EXCEPT ![u] = {}]
      /\ Cardinality(used[u]) + pending < MinCapacity
      /\ pending' = pending + 1 /\ state' = [state EXCEPT ![q] = "retrieving"]
      /\ UNCHANGED <<used, inside, asked>>
      /\ TypeOK /\ u \in Url
  BY DEF GetRetrieve, DropUnused, CapInv, PlaceInv, TypeOK
<1>2. /\ Cardinality(In("retrieving")') = Cardinality(In("retrieving")) + 1
      /\ \A v \in Url : Cardinality(Coming(state', asked', v)) =
                        Cardinality(Coming(state, asked, v)) + IF u = v THEN 1 ELSE 0
  BY <1>1, OneMoreComes
<1>3. pending = Cardinality(In("retrieving")) + IF inside THEN 1 ELSE 0
  BY DEF CapInv, PendingCounts
<1>4. Cardinality(In("retrieving")) \in Nat
  BY <1>1, Sizes
<1>5. PendingCounts'
  BY <1>1, <1>2, <1>3, <1>4 DEF PendingCounts
<1>6. ASSUME NEW v \in Url
      PROVE  Cardinality(used'[v]) + Cardinality(unused'[v]) + Cardinality(Coming(state', asked', v))
               <= MinCapacity
  <2>1. /\ Cardinality(used[v]) \in Nat /\ Cardinality(unused[v]) \in Nat
        /\ Cardinality(Coming(state, asked, v)) \in Nat
        /\ Cardinality(Coming(state, asked, v)) <= Cardinality(In("retrieving"))
    BY <1>1, Sizes
  <2>2. CASE v = u
    <3>1. unused'[v] = {} /\ Cardinality({}) = 0
      BY <1>1, <2>2, FS_EmptySet DEF TypeOK
    <3>2. Cardinality(In("retrieving")) <= pending
      BY <1>3, <1>4
    <3>3. Cardinality(Coming(state', asked', v)) = Cardinality(Coming(state, asked, v)) + 1
      BY <1>2, <2>2
    <3>4. Cardinality(used[v]) + pending < MinCapacity /\ used' = used /\ pending \in Int
      BY <1>1, <2>2 DEF TypeOK
    <3> QED
      BY <1>4, <2>1, <3>1, <3>2, <3>3, <3>4, ResourcePoolAssumption
  <2>3. CASE v # u
    <3>1. unused'[v] = unused[v] /\ used' = used
      BY <1>1, <2>3 DEF TypeOK
    <3>2. Cardinality(used[v]) + Cardinality(unused[v]) + Cardinality(Coming(state, asked, v)) <= MinCapacity
      BY FitsNow DEF CapInv, Fits
    <3>3. Cardinality(Coming(state', asked', v)) = Cardinality(Coming(state, asked, v))
      BY <1>2, <2>1, <2>3
    <3> QED
      BY <2>1, <3>1, <3>2, <3>3
  <2> QED
    BY <2>2, <2>3
<1>7. CapacityBound'
  BY <1>6, FitsNext DEF Fits
<1> QED
  BY <1>5, <1>7

\* The connection is counted as used when it stops being counted as coming; its
\* place in pending_ is kept until the continuation has returned.
LEMMA CapCompletes ==
    ASSUME CapInv, NEW q \in Req, Completes(q)
    PROVE  PendingCounts' /\ CapacityBound'
<1>1. PICK s \in {"held", "done"} :
        /\ state[q] = "retrieving" /\ state' = [state EXCEPT ![q] = s]
        /\ ~inside /\ inside' = TRUE /\ UNCHANGED <<unused, pending, asked>>
        /\ \/ used' = used
           \/ \E r \in Res : used' = [used EXCEPT ![asked[q]] = @ \union {r}]
  BY DEF Completes, Retrieved, RetrieveFailed
<1>2. TypeOK
  BY DEF CapInv, PlaceInv
<1>3. /\ Cardinality(In("retrieving")') = Cardinality(In("retrieving")) - 1
      /\ \A v \in Url : Cardinality(Coming(state', asked', v)) =
                        Cardinality(Coming(state, asked, v)) - IF asked[q] = v THEN 1 ELSE 0
  BY <1>1, <1>2, OneLessComes
<1>4. PendingCounts'
  <2>1. pending = Cardinality(In("retrieving")) /\ Cardinality(In("retrieving")) \in Nat
    BY <1>1, <1>2, Sizes DEF CapInv, PendingCounts
  <2>2. Cardinality(In("retrieving")') + 1 = pending
    BY <1>3, <2>1
  <2> QED
    BY <1>1, <2>2 DEF PendingCounts
<1>5. ASSUME NEW v \in Url
      PROVE  Cardinality(used'[v]) + Cardinality(unused'[v]) + Cardinality(Coming(state', asked', v))
               <= MinCapacity
  <2>1. /\ IsFiniteSet(used[v]) /\ Cardinality(used[v]) \in Nat /\ Cardinality(unused[v]) \in Nat
        /\ Cardinality(Coming(state, asked, v)) \in Nat
    BY <1>2, Sizes
  <2>2. Cardinality(used[v]) + Cardinality(unused[v]) + Cardinality(Coming(state, asked, v)) <= MinCapacity
    BY FitsNow DEF CapInv, Fits
  <2>3. CASE v = asked[q]
    <3>1. Cardinality(Coming(state', asked', v)) = Cardinality(Coming(state, asked, v)) - 1
      BY <1>3, <2>3
    <3>2. used'[v] = used[v] \/ \E r : used'[v] = used[v] \union {r}
      BY <1>1, <1>2, <2>3 DEF TypeOK
    <3>3. Cardinality(used'[v]) <= Cardinality(used[v]) + 1 /\ Cardinality(used'[v]) \in Nat
      <4>1. CASE used'[v] = used[v]
        BY <2>1, <4>1
      <4>2. ASSUME NEW r, used'[v] = used[v] \union {r}
            PROVE  Cardinality(used'[v]) <= Cardinality(used[v]) + 1 /\ Cardinality(used'[v]) \in Nat
        <5>1. Cardinality(used[v] \union {r}) = IF r \in used[v] THEN Cardinality(used[v])
                                               ELSE Cardinality(used[v]) + 1
          BY <2>1, FS_AddElement
        <5> QED
          BY <2>1, <4>2, <5>1
      <4> QED
        BY <3>2, <4>1, <4>2
    <3> QED
      BY <1>1, <2>1, <2>2, <3>1, <3>3, ResourcePoolAssumption
  <2>4. CASE v # asked[q]
    <3>1. Cardinality(Coming(state', asked', v)) = Cardinality(Coming(state, asked, v))
      BY <1>3, <2>1, <2>4
    <3>2. used'[v] = used[v] /\ unused' = unused
      BY <1>1, <1>2, <2>4 DEF TypeOK
    <3> QED
      BY <2>2, <3>1, <3>2
  <2> QED
    BY <2>3, <2>4
<1>6. CapacityBound'
  BY <1>5, FitsNext DEF Fits
<1> QED
  BY <1>4, <1>6

LEMMA CapCounted ==
    ASSUME CapInv, Counted
    PROVE  PendingCounts' /\ CapacityBound'
<1>1. inside /\ inside' = FALSE /\ pending' = pending - 1 /\ UNCHANGED <<used, unused, state, asked>>
  BY DEF Counted, reqVars
<1>2. In("retrieving")' = In("retrieving") /\ CapacityBound'
  BY <1>1, KeepsFits
<1>3. pending = Cardinality(In("retrieving")) + 1 /\ Cardinality(In("retrieving")) \in Nat
  BY <1>1, Sizes DEF CapInv, PlaceInv, PendingCounts
<1>4. pending - 1 = Cardinality(In("retrieving"))
  BY <1>3
<1> QED
  BY <1>1, <1>2, <1>3, <1>4 DEF PendingCounts

\* What goes idle is no longer used: the sum stays.
LEMMA CapCollectToUnused ==
    ASSUME CapInv, NEW q \in Req, CollectToUnused(q)
    PROVE  PendingCounts' /\ CapacityBound'
<1> DEFINE u == home[q]
<1>1. /\ state[q] = "held" /\ ~shutdown /\ state' = [state EXCEPT ![q] = "done"]
      /\ used' = [used EXCEPT ![u] = @ \ holds[q]]
      /\ \E X : unused' = [unused EXCEPT ![u] = (unused[u] \union (holds[q] \intersect used[u])) \ X]
      /\ UNCHANGED <<pending, inside, asked>>
      /\ TypeOK /\ u \in Url
  BY DEF CollectToUnused, LetGo, Gone, CapInv, PlaceInv, TypeOK
<1>2. PICK r \in Res : holds[q] = {r} /\ r \in used[u] /\ r \notin unused[u]
  BY <1>1, HolderHas DEF CapInv
<1>3. /\ In("retrieving")' = In("retrieving")
      /\ \A v : Coming(state', asked', v) = Coming(state, asked, v)
  <2>1. \A p \in Req : state'[p] = "retrieving" <=> state[p] = "retrieving"
    BY <1>1 DEF TypeOK
  <2> QED
    BY <1>1, <2>1, SameComing
<1>4. ASSUME NEW v \in Url
      PROVE  Cardinality(used'[v]) + Cardinality(unused'[v]) <= Cardinality(used[v]) + Cardinality(unused[v])
             /\ Cardinality(used'[v]) \in Nat /\ Cardinality(unused'[v]) \in Nat
  <2>1. /\ IsFiniteSet(used[v]) /\ Cardinality(used[v]) \in Nat
        /\ IsFiniteSet(unused[v]) /\ Cardinality(unused[v]) \in Nat
    BY <1>1, Sizes
  <2>2. CASE v = u
    <3>1. used'[v] = used[v] \ {r} /\ unused'[v] \subseteq unused[v] \union {r}
      BY <1>1, <1>2, <2>2 DEF TypeOK
    <3>2. Cardinality(used'[v]) = Cardinality(used[v]) - 1 /\ Cardinality(used'[v]) \in Nat
      BY <1>2, <2>1, <2>2, <3>1, FS_RemoveElement, FS_CardinalityType
    <3>3. IsFiniteSet(unused[v] \union {r}) /\ Cardinality(unused[v] \union {r}) = Cardinality(unused[v]) + 1
      BY <1>2, <2>1, <2>2, FS_AddElement
    <3>4. Cardinality(unused'[v]) <= Cardinality(unused[v] \union {r}) /\ Cardinality(unused'[v]) \in Nat
      BY <3>1, <3>3, FS_Subset, FS_CardinalityType
    <3> QED
      BY <2>1, <3>2, <3>3, <3>4
  <2>3. CASE v # u
    <3>1. used'[v] = used[v] /\ unused'[v] = unused[v]
      BY <1>1, <2>3 DEF TypeOK
    <3> QED
      BY <2>1, <3>1
  <2> QED
    BY <2>2, <2>3
<1>5. CapacityBound'
  <2>1. Fits(used, unused, state, asked)
    BY FitsNow DEF CapInv
  <2>2. \A v \in Url : /\ Cardinality(Coming(state, asked, v)) \in Nat
                      /\ Cardinality(used[v]) \in Nat /\ Cardinality(unused[v]) \in Nat
    BY <1>1, Sizes
  <2>3. Fits(used', unused', state', asked')
    BY <1>3, <1>4, <2>1, <2>2, ResourcePoolAssumption DEF Fits
  <2> QED
    BY <2>3, FitsNext
<1>6. PendingCounts'
  BY <1>1, <1>3 DEF CapInv, PendingCounts
<1> QED
  BY <1>5, <1>6

\* The steps that make no connection, and leave pending_ alone.
LEMMA CapOthers ==
    ASSUME CapInv,
           \/ \E q \in Req : \/ GetWait(q) \/ Invalidate(q) \/ CollectShutdown(q)
                            \/ CollectInvalid(q) \/ CollectToWaiter(q)
           \/ Shutdown \/ ClockTicks \/ UNCHANGED vars
    PROVE  PendingCounts' /\ CapacityBound'
<1>1. TypeOK
  BY DEF CapInv, PlaceInv
<1>2. pending' = pending /\ inside' = inside /\ asked' = asked
  BY DEF GetWait, Invalidate, CollectShutdown, CollectInvalid, CollectToWaiter, LetGo,
         Shutdown, ClockTicks, vars, poolVars, reqVars
<1>3. \A u \in Url : used'[u] \subseteq used[u] /\ unused'[u] \subseteq unused[u]
  <2>1. ASSUME NEW q \in Req, GetWait(q) PROVE <1>3!:
    BY <1>1, <2>1 DEF GetWait, DropUnused, TypeOK
  <2>2. ASSUME NEW q \in Req, CollectInvalid(q) PROVE <1>3!:
    BY <1>1, <2>2 DEF CollectInvalid, TypeOK
  <2>3. ASSUME NEW q \in Req, Invalidate(q) \/ CollectShutdown(q) \/ CollectToWaiter(q) PROVE <1>3!:
    BY <2>3 DEF Invalidate, CollectShutdown, CollectToWaiter
  <2>4. CASE Shutdown
    BY <2>4 DEF Shutdown
  <2>5. CASE ClockTicks \/ UNCHANGED vars
    BY <2>5 DEF ClockTicks, vars, poolVars
  <2> QED
    BY <2>1, <2>2, <2>3, <2>4, <2>5
<1>4. \A p \in Req : state'[p] = "retrieving" <=> state[p] = "retrieving"
  <2>1. ASSUME NEW q \in Req, GetWait(q) PROVE <1>4!:
    BY <1>1, <2>1 DEF GetWait, TypeOK
  <2>2. ASSUME NEW q \in Req, CollectInvalid(q) \/ CollectShutdown(q) PROVE <1>4!:
    BY <1>1, <2>2 DEF CollectInvalid, CollectShutdown, LetGo, Gone, TypeOK
  <2>3. ASSUME NEW q \in Req, CollectToWaiter(q) PROVE <1>4!:
    <3>1. /\ state[q] = "held" /\ waiting # <<>>
          /\ state' = [state EXCEPT ![q] = "done", ![Head(waiting)] = "held"]
      BY <2>3 DEF CollectToWaiter, LetGo
    <3>2. Head(waiting) \in Req /\ state[Head(waiting)] = "waiting"
      BY <1>1, <3>1, HeadTail DEF CapInv, PlaceInv, WaitersWait
    <3> QED
      BY <1>1, <3>1, <3>2 DEF TypeOK
  <2>4. ASSUME NEW q \in Req, Invalidate(q) PROVE <1>4!:
    BY <2>4 DEF Invalidate, reqVars
  <2>5. CASE Shutdown \/ ClockTicks \/ UNCHANGED vars
    BY <2>5 DEF Shutdown, ClockTicks, vars, reqVars
  <2> QED
    BY <2>1, <2>2, <2>3, <2>4, <2>5
<1>5. In("retrieving")' = In("retrieving") /\ CapacityBound'
  BY <1>2, <1>3, <1>4, KeepsFits
<1> QED
  BY <1>2, <1>5 DEF CapInv, PendingCounts

LEMMA StepCapInv == CapInv /\ [Next]_vars => CapInv'
<1> SUFFICES ASSUME CapInv, [Next]_vars PROVE CapInv'
  OBVIOUS
<1>1. PlaceInv'
  BY StepPlaceInv DEF CapInv
<1>2. PendingCounts' /\ CapacityBound'
  <2>1. ASSUME NEW q \in Req, Get(q) \/ Completes(q) \/ Invalidate(q) \/ Collect(q)
        PROVE  PendingCounts' /\ CapacityBound'
    BY <2>1, CapGetReuse, CapGetRetrieve, CapCompletes, CapCollectToUnused, CapOthers DEF Get, Collect
  <2>2. CASE Counted
    BY <2>2, CapCounted
  <2>3. CASE Shutdown \/ ClockTicks \/ UNCHANGED vars
    BY <2>3, CapOthers
  <2> QED
    BY <2>1, <2>2, <2>3 DEF Next
<1> QED
  BY <1>1, <1>2 DEF CapInv

LEMMA InitCapInv == Init => CapInv
<1> SUFFICES ASSUME Init PROVE CapInv
  OBVIOUS
<1>1. PlaceInv
  BY InitPlaceInv
<1>2. In("retrieving") = {} /\ \A u : Coming(state, asked, u) = {}
  BY DEF Init, In, Coming
<1>3. Cardinality({}) = 0
  BY FS_EmptySet
<1>4. PendingCounts
  <2>1. pending = 0 /\ inside = FALSE /\ Cardinality(In("retrieving")) = 0
    BY <1>2, <1>3 DEF Init
  <2> QED
    BY <2>1 DEF PendingCounts
<1>5. CapacityBound
  <2>1. \A u \in Url : used[u] = {} /\ unused[u] = {}
    BY DEF Init
  <2>2. ASSUME NEW u \in Url
        PROVE  /\ Cardinality(used[u]) = 0 /\ Cardinality(unused[u]) = 0
               /\ Cardinality(Coming(state, asked, u)) = 0
    BY <1>2, <1>3, <2>1
  <2>3. Fits(used, unused, state, asked)
    BY <2>2, ResourcePoolAssumption DEF Fits
  <2> QED
    BY <2>3, FitsNow
<1> QED
  BY <1>1, <1>4, <1>5 DEF CapInv

\* The pool never owns or connects more connections to a url than min_capacity_: the
\* test in get() is enough, however calls, failures and returns mix.
THEOREM CapacityBoundHolds == Spec => []CapacityBound
<1>1. Init => CapInv
  BY InitCapInv
<1>2. CapInv /\ [Next]_vars => CapInv'
  BY StepCapInv
<1>3. CapInv => CapacityBound
  BY DEF CapInv
<1> QED
  BY <1>1, <1>2, <1>3, PTL DEF Spec

\* pending_ counts the connections that are being made, and the one whose
\* continuation runs.
THEOREM PendingCountsHolds == Spec => []PendingCounts
<1>1. Init => CapInv
  BY InitCapInv
<1>2. CapInv /\ [Next]_vars => CapInv'
  BY StepCapInv
<1>3. CapInv => PendingCounts
  BY DEF CapInv
<1> QED
  BY <1>1, <1>2, <1>3, PTL DEF Spec
=============================================================================
