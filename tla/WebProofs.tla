---------------------------- MODULE WebProofs ----------------------------
(***************************************************************************)
(* Proofs about the two parts of repro-web: FrontController for any number *)
(* of connections, requests and includes, and WebSocket for every script   *)
(* of the peer and any number of messages sent.                            *)
(*                                                                         *)
(* SessionKept needs, of every session id, who may have it: the ids that a *)
(* request makes are its own until its response is written (Own), nobody   *)
(* has those of requests to come (ToCome), requests that share a session   *)
(* know that they do (Alone); then what is stored is what the last request *)
(* left (Kept), because what is saved undisturbed stays in the store until *)
(* the response is out (Wrote).  FlushFiltersRun needs that a chain which  *)
(* an earlier request left has nothing to run any more (UsedUp).           *)
(*                                                                         *)
(* On a TcpConnection the only ticks are that of run() and those of        *)
(* writes.  HalfDuplex needs that there is never more than one of them     *)
(* (OneTick), and that needs that a write under way has set pending_, or   *)
(* send() would begin another.  QuietAfterClose needs that dispose() leaves*)
(* neither a tick nor a read behind (Disposed).  MessagesExact needs to    *)
(* know where in the stream of the peer the websocket reads (Exact, Place):*)
(* at the first piece of a frame while it may be disturbed, and anywhere   *)
(* else only under pending_, when send() leaves the read alone.            *)
(***************************************************************************)
EXTENDS FrontController, WebSocket, FiniteSetTheorems, SequenceTheorems, WellFoundedInduction, TLAPS

(***************************************************************************)
(* FrontController                                                         *)
(***************************************************************************)

SessionType == [sid : Sid, data : Data, valid : BOOLEAN]

FrontTypes ==
    /\ before \in {<<"session", "auth", "handler">>, <<"auth", "session", "handler">>} /\ provider \in {"memory", "redis"}
    /\ jar \in Sid \union {None}
    /\ store \in [Sid -> Data \union {None}] /\ last \in [Sid -> Data \union {None}]
    /\ begun \in 0 .. MaxRequests
    /\ phase \in [Conn -> Phase] /\ route \in [Conn -> Route] /\ req \in [Conn -> 0 .. MaxRequests]
    /\ it_ \in [Conn -> Nat]
    /\ cookie \in [Conn -> Sid \union {None}] /\ answer \in [Conn -> Sid \union {None}]
    /\ session \in [Conn -> SessionType \union {None}] /\ saw \in [Conn -> Data \union {None}]
    /\ flush_chain \in [Conn -> {<<>>, <<"flush">>, <<"session", "flush">>}] /\ flush_it \in [Conn -> Nat]
    /\ include \in [Conn -> Seq({"asked", "flushed", "done"})]
    /\ resolves_ \in [Conn -> Seq((1 .. Includes) \union {None})] /\ cnt_ \in [Conn -> Nat]
    /\ clean \in [Conn -> BOOLEAN]

-----------------------------------------------------------------------------
(* One connection *)

\* The flush chain, which an earlier request may have left, has nothing to run any more.
UsedUp(c) == flush_chain[c] = <<>> \/ flush_it[c] = Len(flush_chain[c])

\* Nothing is left of the last request.
Reset(c) == phase[c] = "idle" =>
    /\ session[c] = None /\ answer[c] = None /\ cookie[c] = None
    /\ route[c] = "missing" /\ resolves_[c] = <<>>

\* What route and phase say of the flush chain, the session and its cookie
Flushes(c) ==
    /\ route[c] = "missing" => phase[c] \in {"idle", "hook", "write", "stuck"} /\ UsedUp(c)
    /\ route[c] = "plain" =>
          phase[c] \in {"handler", "hook", "write", "stuck"} /\ flush_chain[c] = <<"flush">> /\ flush_it[c] = 1
    /\ route[c] \in Filtered =>
          /\ flush_chain[c] = <<"session", "flush">>
          /\ flush_it[c] = IF phase[c] \in {"write", "stuck"} THEN 2 ELSE 1
          /\ phase[c] \in {"write", "stuck"} =>
                session[c] # None /\ answer[c] = IF session[c].valid THEN session[c].sid ELSE NewId(req[c])
    /\ route[c] \notin Filtered => session[c] = None /\ answer[c] = None
    /\ phase[c] = "get" => session[c] = None /\ cookie[c] # None /\ it_[c] \in 1 .. 3 /\ before[it_[c]] = "session"
    /\ phase[c] \in {"get", "handler", "ssi", "hook"} => answer[c] = None
    /\ phase[c] = "save" => session[c] # None /\ session[c].valid /\ answer[c] = session[c].sid
    /\ phase[c] = "remove" => session[c] # None /\ ~session[c].valid /\ answer[c] = NewId(req[c])

\* The counter of an SSI page counts the parts that are missing, and the others are in their places.
Missing(c) == {n \in 1 .. Includes : include[c][n] # "done"}
Parts(c) ==
    /\ phase[c] = "ssi" =>
          /\ include[c] \in [1 .. Includes -> {"asked", "flushed", "done"}]
          /\ resolves_[c] \in [1 .. Includes -> (1 .. Includes) \union {None}]
          /\ \A n \in 1 .. Includes : include[c][n] = "done" => resolves_[c][n] = n
          /\ cnt_[c] = Cardinality(Missing(c))
    /\ phase[c] # "ssi" => resolves_[c] = <<>> \/ resolves_[c] = [n \in 1 .. Includes |-> n]

Local(c) == Reset(c) /\ Flushes(c) /\ Parts(c)

-----------------------------------------------------------------------------
(* Sessions *)

SidOf(c) == IF session[c] = None THEN None ELSE session[c].sid

\* who has an id, as its session or in a cookie
Knows(c, s) == s \in {cookie[c], answer[c], SidOf(c)}
Uses(c, s) == s = SidOf(c) \/ (s = cookie[c] /\ phase[c] # "lost")

\* The ids that a request may make are its own until its response is written.
Own(c) ==
    phase[c] # "idle" =>
       /\ req[c] \in 1 .. begun
       /\ \A d \in Conn : d # c /\ phase[d] # "idle" => req[d] # req[c]
       /\ \A s \in {OpenedId(req[c]), NewId(req[c])} :
             jar # s /\ cookie[c] # s /\ \A d \in Conn : d # c => ~Knows(d, s)
       /\ SidOf(c) \in {None, IF cookie[c] = None \/ phase[c] = "lost" THEN OpenedId(req[c]) ELSE cookie[c]}
       /\ SidOf(c) = None => last[OpenedId(req[c])] = 0 /\ store[OpenedId(req[c])] = None

\* Nobody has the ids of requests to come.
ToCome ==
    /\ jar # None => jar <= 2 * begun
    /\ \A c \in Conn : \A s \in Sid : Knows(c, s) => s <= 2 * begun
    /\ \A s \in Sid : s > 2 * begun => store[s] = None /\ last[s] = 0

\* Requests that share a session know that they do.
Alone == \A c, d \in Conn : \A s \in Sid : c # d /\ Uses(c, s) /\ Uses(d, s) => ~clean[c]

\* what is stored, where nothing stored is an empty session
Stored(s) == IF store[s] = None THEN 0 ELSE store[s]

\* What is stored is what the last request left, unless one has saved already that is not over.
Saved(c, s) == phase[c] \in {"write", "stuck"} /\ SidOf(c) = s
Kept == \A s \in Sid : last[s] # None => Stored(s) = last[s] \/ \E c \in Conn : Saved(c, s)

\* A request that has saved its session, undisturbed, has it in the store.
Wrote(c) ==
    phase[c] \in {"write", "stuck"} /\ SidOf(c) # None /\ clean[c] =>
       Stored(SidOf(c)) = IF session[c].valid THEN session[c].data ELSE 0

SawLast(c) == SidOf(c) # None /\ clean[c] /\ last[SidOf(c)] # None => saw[c] = last[SidOf(c)]

Sessions == ToCome /\ Alone /\ Kept /\ \A c \in Conn : Own(c) /\ Wrote(c) /\ SawLast(c)

FrontInv == FrontTypes /\ Sessions /\ \A c \in Conn : Local(c)

-----------------------------------------------------------------------------
LEMMA FrontFacts ==
    /\ Includes \in Nat \ {0} /\ MaxRequests \in Nat /\ None \notin Sid /\ None \notin Data /\ None \notin SessionType
    /\ Sid \subseteq Nat /\ Data \subseteq Nat /\ 0 \in Data
<1>1. Sid \subseteq Nat /\ Data \subseteq Nat /\ 0 \in Data
  BY FrontAssumption DEF Sid, Data
<1>2. SessionType \subseteq [sid : Nat, data : Nat, valid : BOOLEAN]
  BY <1>1 DEF SessionType
<1> QED
  BY <1>1, <1>2, FrontAssumption

LEMMA InitFront == Init => FrontInv
<1> SUFFICES ASSUME Init PROVE FrontInv
  OBVIOUS
<1>1. FrontTypes
  <2>1. /\ before \in {<<"session", "auth", "handler">>, <<"auth", "session", "handler">>}
        /\ provider \in {"memory", "redis"}
    BY FrontAssumption DEF Init
  <2>2. <<>> \in Seq({"asked", "flushed", "done"}) /\ <<>> \in Seq((1 .. Includes) \union {None})
    OBVIOUS
  <2> QED
    BY <2>1, <2>2, FrontFacts DEF Init, FrontTypes, Phase, Route
<1>2. \A c \in Conn : Local(c)
  BY DEF Init, Local, Reset, Flushes, Parts, UsedUp, Filtered
<1>3. \A c \in Conn : cookie[c] = None /\ answer[c] = None /\ SidOf(c) = None /\ phase[c] = "idle"
  BY DEF Init, SidOf
<1>4. ToCome
  BY <1>3, FrontFacts DEF ToCome, Init, Knows
<1>5. Alone /\ Kept
  BY <1>3, FrontFacts DEF Alone, Kept, Uses, Init, Stored
<1>6. \A c \in Conn : Own(c) /\ Wrote(c) /\ SawLast(c)
  BY <1>3 DEF Own, Wrote, SawLast
<1> QED
  BY <1>1, <1>2, <1>4, <1>5, <1>6 DEF FrontInv, Sessions

\* The entries of a connection that a step leaves alone
Same(d) ==
    /\ phase'[d] = phase[d] /\ req'[d] = req[d] /\ route'[d] = route[d] /\ cookie'[d] = cookie[d]
    /\ it_'[d] = it_[d] /\ session'[d] = session[d] /\ answer'[d] = answer[d] /\ saw'[d] = saw[d]
    /\ flush_chain'[d] = flush_chain[d] /\ flush_it'[d] = flush_it[d]
    /\ include'[d] = include[d] /\ resolves_'[d] = resolves_[d] /\ cnt_'[d] = cnt_[d]

LEMMA LocalFrame ==
    ASSUME NEW d \in Conn, Local(d), Same(d), before' = before
    PROVE  Local(d)'
<1>1. Reset(d)'
  BY DEF Local, Same, Reset
<1>2. Flushes(d)'
  BY DEF Local, Same, Flushes, UsedUp
<1>3. Parts(d)'
  BY DEF Local, Same, Parts, Missing
<1> QED
  BY <1>1, <1>2, <1>3 DEF Local

\* A chain runs up to the first filter that does not go on, or to the handler.
Ran(c, n, r, k, s, o, p, j) ==
    /\ session' = [session EXCEPT ![c] = o]
    /\ saw' = [saw EXCEPT ![c] = IF o = None THEN None ELSE o.data]
    /\ o = s \/ (s = None /\ k = None /\ r \in Filtered /\ o = Session(OpenedId(n), 0))
    /\ phase' = [phase EXCEPT ![c] = p] /\ it_' = [it_ EXCEPT ![c] = j] /\ j \in 1 .. 3
    /\ p \in {"get", "hook", "handler", "ssi"}
    /\ r = "plain" => p = "handler"
    /\ p = "get" => s = None /\ o = None /\ k # None /\ r \in Filtered /\ before[j] = "session"
    /\ IF p = "ssi"
       THEN /\ include' = [include EXCEPT ![c] = [m \in 1 .. Includes |-> "asked"]]
            /\ resolves_' = [resolves_ EXCEPT ![c] = [m \in 1 .. Includes |-> None]]
            /\ cnt_' = [cnt_ EXCEPT ![c] = Includes]
       ELSE UNCHANGED page

LEMMA RunChainDoes ==
    ASSUME FrontTypes, NEW c \in Conn, NEW n, NEW r \in {"page", "ssi", "plain"}, NEW k, NEW i \in 1 .. 3, NEW s,
           \/ i = 1 /\ s = None
           \/ s # None /\ r \in Filtered /\ before[i] = "session",
           RunChain(c, n, r, k, i, s)
    PROVE  \E o, p, j : Ran(c, n, r, k, s, o, p, j)
<1>1. PICK chain : chain = FilterChain(r)
  OBVIOUS
<1>2. /\ Len(chain) \in {1, 3} /\ chain[Len(chain)] = "handler"
      /\ r \in Filtered => chain = before /\ Len(chain) = 3 /\ chain[1] \in {"session", "auth"} /\ chain[2] \in {"session", "auth"}
      /\ r \notin Filtered => chain = <<"handler">>
  <2>1. CASE r \in Filtered
    <3>1. chain = before
      BY <1>1, <2>1 DEF FilterChain
    <3>2. before = <<"session", "auth", "handler">> \/ before = <<"auth", "session", "handler">>
      BY DEF FrontTypes
    <3>3. CASE chain = <<"session", "auth", "handler">>
      BY <2>1, <3>1, <3>3
    <3>4. CASE chain = <<"auth", "session", "handler">>
      BY <2>1, <3>1, <3>4
    <3> QED
      BY <3>1, <3>2, <3>3, <3>4
  <2>2. CASE r \notin Filtered
    <3>1. chain = <<"handler">>
      BY <1>1, <2>2 DEF FilterChain
    <3> QED
      BY <2>2, <3>1
  <2> QED
    BY <2>1, <2>2
<1>3. PICK j \in i .. Len(chain) :
        LET passed == \E m \in i .. j - 1 : chain[m] = "session"
        IN  /\ passed => k = None \/ s # None
            /\ LET opened == IF passed /\ s = None THEN Session(OpenedId(n), 0) ELSE s
               IN  /\ session' = [session EXCEPT ![c] = opened]
                   /\ saw' = [saw EXCEPT ![c] = IF opened = None THEN None ELSE opened.data]
            /\ it_' = [it_ EXCEPT ![c] = j]
            /\ CASE chain[j] = "session" ->
                      /\ s = None /\ k # None
                      /\ phase' = [phase EXCEPT ![c] = "get"] /\ UNCHANGED page
                 [] chain[j] = "auth" ->
                      phase' = [phase EXCEPT ![c] = "hook"] /\ UNCHANGED page
                 [] OTHER -> Invoke(c, r)
  BY <1>1 DEF RunChain
<1>11. j \in i .. Len(chain)
  BY <1>3
<1>4. PICK o : o = IF (\E m \in i .. j - 1 : chain[m] = "session") /\ s = None THEN Session(OpenedId(n), 0) ELSE s
  OBVIOUS
<1>5. j \in 1 .. 3 /\ j \in 1 .. Len(chain)
  BY <1>2
<1>6. /\ session' = [session EXCEPT ![c] = o]
      /\ saw' = [saw EXCEPT ![c] = IF o = None THEN None ELSE o.data]
      /\ it_' = [it_ EXCEPT ![c] = j]
  BY <1>3, <1>4
<1>7. o = s \/ (s = None /\ k = None /\ r \in Filtered /\ o = Session(OpenedId(n), 0))
  <2>1. ASSUME NEW m \in i .. j - 1, chain[m] = "session" PROVE r \in Filtered
    <3>1. ASSUME r \notin Filtered PROVE FALSE
      <4>1. Len(chain) = 1 /\ i = 1
        BY <1>2, <3>1
      <4>2. j \in 1 .. 1
        BY ONLY <1>11, <4>1
      <4>3. m \in 1 .. 0
        BY <2>1, <4>1, <4>2
      <4> QED
        BY <4>3
    <3> QED
      BY <3>1
  <2> QED
    BY <1>3, <1>4, <2>1
<1>8. CASE chain[j] = "session"
  <2>1. s = None /\ k # None /\ phase' = [phase EXCEPT ![c] = "get"] /\ UNCHANGED page
    BY <1>3, <1>8
  <2>2. r \in Filtered /\ before[j] = "session"
    BY <1>2, <1>5, <1>8
  <2>3. o = None
    BY <1>7, <2>1
  <2>4. r # "plain"
    BY <2>2 DEF Filtered
  <2>5. Ran(c, n, r, k, s, o, "get", j)
    BY <1>5, <1>6, <1>7, <2>1, <2>2, <2>3, <2>4 DEF Ran
  <2> QED
    BY <2>5
<1>9. CASE chain[j] = "auth"
  <2>1. phase' = [phase EXCEPT ![c] = "hook"] /\ UNCHANGED page
    BY <1>3, <1>9
  <2>2. r \in Filtered /\ r # "plain"
    BY <1>2, <1>5, <1>9 DEF Filtered
  <2>3. Ran(c, n, r, k, s, o, "hook", j)
    BY <1>5, <1>6, <1>7, <2>1, <2>2 DEF Ran
  <2> QED
    BY <2>3
<1>10. CASE chain[j] # "session" /\ chain[j] # "auth"
  <2>1. Invoke(c, r)
    BY <1>3, <1>10
  <2>2. ASSUME r = "ssi" PROVE Ran(c, n, r, k, s, o, "ssi", j)
    BY <1>5, <1>6, <1>7, <2>1, <2>2 DEF Invoke, Ran
  <2>3. ASSUME r # "ssi" PROVE Ran(c, n, r, k, s, o, "handler", j)
    BY <1>5, <1>6, <1>7, <2>1, <2>3 DEF Invoke, Ran
  <2> QED
    BY <2>2, <2>3
<1> QED
  BY <1>8, <1>9, <1>10

\* The session of a connection and its id
LEMMA SidFacts ==
    ASSUME FrontTypes, NEW c \in Conn
    PROVE  /\ SidOf(c) \in Sid \union {None} /\ (SidOf(c) = None <=> session[c] = None)
           /\ session[c] # None => session[c] \in SessionType /\ SidOf(c) = session[c].sid
BY FrontFacts DEF FrontTypes, SidOf, SessionType

\* A request goes on with the ids it has, or gets the one that it may make.
LEMMA StepSessions ==
    ASSUME FrontTypes, Sessions, NEW c \in Conn, phase[c] \notin {"idle", "write", "stuck", "lost"},
           UNCHANGED <<jar, store, last, begun, req, cookie, saw, clean>>,
           \A d \in Conn : SidOf(d)' = SidOf(d),
           \A d \in Conn : d # c => answer'[d] = answer[d] /\ phase'[d] = phase[d] /\ session'[d] = session[d],
           answer'[c] \in {answer[c], SidOf(c), NewId(req[c])},
           phase'[c] \notin {"idle", "lost"}, phase'[c] \in {"write", "stuck"} => SidOf(c) = None
    PROVE  Sessions'
<1>1. req[c] \in 1 .. begun /\ begun \in Nat /\ MaxRequests \in Nat /\ begun <= MaxRequests
  BY FrontFacts DEF Sessions, Own, FrontTypes
<1>2. NewId(req[c]) \in Sid /\ NewId(req[c]) <= 2 * begun
  BY <1>1 DEF NewId, Sid
<1>3. \A d \in Conn : \A s \in Sid : Knows(d, s)' => Knows(d, s) \/ (d = c /\ s = NewId(req[c]))
  BY DEF Knows
<1>4. ToCome'
  BY <1>2, <1>3 DEF Sessions, ToCome
<1>5. Alone'
  BY DEF Sessions, Alone, Uses
<1>6. Kept'
  <2>1. \A d \in Conn : \A s \in Sid : Saved(d, s) => Saved(d, s)'
    BY DEF Saved
  <2>2. \A s \in Sid : Stored(s)' = Stored(s)
    BY DEF Stored
  <2> QED
    BY <2>1, <2>2 DEF Sessions, Kept
<1>7. ASSUME NEW d \in Conn PROVE Own(d)'
  <2>1. SUFFICES ASSUME phase[d] # "idle" PROVE Own(d)'
    BY DEF Own
  <2>2. Own(d) /\ Own(c)
    BY DEF Sessions
  <2>3. ASSUME NEW s \in {OpenedId(req[d]), NewId(req[d])}, NEW e \in Conn, e # d PROVE ~Knows(e, s)'
    <3>1. ~Knows(e, s)
      BY <2>1, <2>2, <2>3 DEF Own
    <3>2. CASE e = c
      <4>1. s # NewId(req[c])
        <5>1. req[d] # req[c] /\ req[d] \in Nat /\ req[c] \in Nat
          BY <1>1, <2>1, <2>2, <2>3, <3>2 DEF Own, FrontTypes
        <5> QED
          BY <2>3, <5>1 DEF OpenedId, NewId
      <4> QED
        BY <3>1, <3>2, <4>1 DEF Knows
    <3>3. CASE e # c
      BY <3>1, <3>3 DEF Knows
    <3> QED
      BY <3>2, <3>3
  <2> QED
    BY <2>1, <2>2, <2>3 DEF Own
<1>8. ASSUME NEW d \in Conn PROVE Wrote(d)'
  <2>1. CASE d = c
    BY <2>1 DEF Wrote
  <2>2. CASE d # c
    <3>1. Wrote(d)
      BY DEF Sessions
    <3> QED
      BY <2>2, <3>1 DEF Wrote, Stored
  <2> QED
    BY <2>1, <2>2
<1>9. \A d \in Conn : SawLast(d)'
  BY DEF Sessions, SawLast
<1> QED
  BY <1>4, <1>5, <1>6, <1>7, <1>8, <1>9 DEF Sessions

\* A step of one connection keeps what is said of the others.
LEMMA OneConnection ==
    ASSUME FrontInv, NEW c \in Conn, before' = before, \A d \in Conn : d # c => Same(d), Local(c)'
    PROVE  \A d \in Conn : Local(d)'
<1>1. ASSUME NEW d \in Conn, d # c PROVE Local(d)'
  BY <1>1, LocalFrame DEF FrontInv
<1> QED
  BY <1>1

\* The handler flushes.
LEMMA HandlerKeeps ==
    ASSUME FrontInv, NEW c \in Conn, HandlerFlushes(c)
    PROVE  FrontInv'
<1>1. FrontTypes /\ Sessions /\ Local(c)
  BY DEF FrontInv
<1>2. /\ phase[c] = "handler" /\ phase' = [phase EXCEPT ![c] = "hook"]
      /\ UNCHANGED <<before, provider, jar, store, begun, req, route, cookie, it_, answer, flush_chain, flush_it,
                     include, resolves_, cnt_, clean, saw, last>>
  BY DEF HandlerFlushes, setup, flushing, page
<1>3. PICK x : x = session'[c]
  OBVIOUS
<1>4. /\ x \in SessionType \union {None} /\ (x = None <=> session[c] = None) /\ (x # None => x.sid = session[c].sid)
      /\ session' = [session EXCEPT ![c] = x]
  <2>1. session[c] \in SessionType \union {None} /\ session \in [Conn -> SessionType \union {None}] /\ req[c] \in Data
    BY <1>1 DEF FrontTypes, Data
  <2>2. CASE UNCHANGED session
    BY <1>3, <2>1, <2>2
  <2>3. ASSUME session[c] # None, NEW y \in SessionType, y.sid = session[c].sid, session' = [session EXCEPT ![c] = y]
        PROVE  <1>4
    BY <1>3, <2>1, <2>3, FrontFacts
  <2>4. ASSUME session[c] # None, session' = [session EXCEPT ![c].data = req[c]] PROVE <1>4
    <3>1. PICK y : y = [session[c] EXCEPT !.data = req[c]]
      OBVIOUS
    <3>2. y \in SessionType /\ y.sid = session[c].sid
      BY <2>1, <2>4, <3>1 DEF SessionType
    <3>3. session' = [session EXCEPT ![c] = y]
      BY <2>4, <3>1
    <3> QED
      BY <2>3, <2>4, <3>2, <3>3
  <2>5. ASSUME session[c] # None, session' = [session EXCEPT ![c].valid = FALSE] PROVE <1>4
    <3>1. PICK y : y = [session[c] EXCEPT !.valid = FALSE]
      OBVIOUS
    <3>2. y \in SessionType /\ y.sid = session[c].sid
      BY <2>1, <2>5, <3>1 DEF SessionType
    <3>3. session' = [session EXCEPT ![c] = y]
      BY <2>5, <3>1
    <3> QED
      BY <2>3, <2>5, <3>2, <3>3
  <2> QED
    BY <2>2, <2>4, <2>5 DEF HandlerFlushes
<1>5. FrontTypes'
  BY <1>1, <1>2, <1>4 DEF FrontTypes, Phase
<1>6. \A d \in Conn : d # c => Same(d)
  BY <1>1, <1>2, <1>4 DEF Same, FrontTypes
<1>7. phase'[c] = "hook" /\ session'[c] = x
  BY <1>1, <1>2, <1>3 DEF FrontTypes
<1>8. Local(c)'
  <2>1. Reset(c)'
    BY <1>7 DEF Reset
  <2>2. Flushes(c)'
    BY <1>1, <1>2, <1>4, <1>7 DEF Local, Flushes, UsedUp, Filtered
  <2>3. Parts(c)'
    BY <1>1, <1>2, <1>7 DEF Local, Parts
  <2> QED
    BY <2>1, <2>2, <2>3 DEF Local
<1>9. \A d \in Conn : SidOf(d)' = SidOf(d)
  BY <1>1, <1>4, <1>6, <1>7 DEF SidOf, Same
<1>10. Sessions'
  BY <1>1, <1>2, <1>6, <1>7, <1>9, StepSessions DEF Same
<1> QED
  BY <1>2, <1>5, <1>6, <1>8, <1>10, OneConnection DEF FrontInv

\* A part of an SSI page is asked for, or put into its place.
LEMMA SubKeeps ==
    ASSUME FrontInv, NEW c \in Conn, NEW n \in 1 .. Includes, Dispatch(c, n) \/ Included(c, n)
    PROVE  FrontInv'
<1>1. FrontTypes /\ Sessions /\ Local(c)
  BY DEF FrontInv
<1>2. /\ phase[c] = "ssi"
      /\ UNCHANGED <<before, provider, jar, store, begun, req, route, cookie, it_, session, answer, flush_chain, flush_it,
                     clean, saw, last>>
  BY DEF Dispatch, Included, SubRequests, setup, flushing
<1>3. PICK i \in [1 .. Includes -> {"asked", "flushed", "done"}] : i = include[c]
  BY <1>1, <1>2 DEF Local, Parts
<1>4. PICK v \in [1 .. Includes -> (1 .. Includes) \union {None}] : v = resolves_[c]
  BY <1>1, <1>2 DEF Local, Parts
<1>5. Includes \in Nat /\ IsFiniteSet(1 .. Includes) /\ (\A m \in 1 .. Includes : i[m] = "done" => v[m] = m)
  BY <1>1, <1>2, <1>3, <1>4, FrontFacts, FS_Interval DEF Local, Parts
<1>6. PICK S : S = {m \in 1 .. Includes : i[m] # "done"}
  OBVIOUS
<1>7. IsFiniteSet(S) /\ cnt_[c] = Cardinality(S) /\ Cardinality(S) \in Nat /\ n \in 1 .. Includes
  <2>1. S \subseteq 1 .. Includes
    BY <1>6
  <2>2. cnt_[c] = Cardinality(S)
    BY <1>1, <1>2, <1>3, <1>6 DEF Local, Parts, Missing
  <2> QED
    BY <1>5, <2>1, <2>2, FS_Subset, FS_CardinalityType
<1>8. ASSUME NEW j \in [1 .. Includes -> {"asked", "flushed", "done"}], NEW w \in [1 .. Includes -> (1 .. Includes) \union {None}],
             NEW k \in Nat, NEW p \in {"ssi", "hook"},
             include' = [include EXCEPT ![c] = j], resolves_' = [resolves_ EXCEPT ![c] = w],
             cnt_' = [cnt_ EXCEPT ![c] = k], phase' = [phase EXCEPT ![c] = p],
             \A m \in 1 .. Includes : j[m] = "done" => w[m] = m,
             k = Cardinality({m \in 1 .. Includes : j[m] # "done"}),
             p = "hook" => \A m \in 1 .. Includes : w[m] = m
      PROVE  FrontInv'
  <2>1. j \in Seq({"asked", "flushed", "done"}) /\ w \in Seq((1 .. Includes) \union {None})
    BY <1>5
  <2>2. FrontTypes'
    BY <1>1, <1>2, <1>8, <2>1 DEF FrontTypes, Phase
  <2>3. \A d \in Conn : d # c => Same(d)
    BY <1>1, <1>2, <1>8 DEF Same, FrontTypes
  <2>4. phase'[c] = p /\ include'[c] = j /\ resolves_'[c] = w /\ cnt_'[c] = k
    BY <1>1, <1>8 DEF FrontTypes
  <2>5. Reset(c)'
    BY <2>4 DEF Reset
  <2>6. Flushes(c)'
    BY <1>1, <1>2, <2>4 DEF Local, Flushes, UsedUp, Filtered
  <2>7. p = "hook" => w = [m \in 1 .. Includes |-> m]
    BY <1>8
  <2>8. Parts(c)'
    <3>1. Missing(c)' = {m \in 1 .. Includes : j[m] # "done"}
      BY <2>4 DEF Missing
    <3> QED
      BY <1>8, <2>4, <2>7, <3>1 DEF Parts
  <2>9. Local(c)'
    BY <2>5, <2>6, <2>8 DEF Local
  <2>10. \A d \in Conn : SidOf(d)' = SidOf(d)
    BY <1>2 DEF SidOf
  <2>11. Sessions'
    BY <1>1, <1>2, <2>3, <2>4, <2>10, StepSessions DEF Same
  <2> QED
    BY <1>2, <2>2, <2>3, <2>9, <2>11, OneConnection DEF FrontInv
<1>9. CASE Dispatch(c, n)
  <2>1. /\ i[n] = "asked" /\ include' = [include EXCEPT ![c][n] = "flushed"]
        /\ UNCHANGED <<phase, resolves_, cnt_>>
    BY <1>3, <1>9 DEF Dispatch
  <2>2. PICK j : j = [i EXCEPT ![n] = "flushed"]
    OBVIOUS
  <2>3. j \in [1 .. Includes -> {"asked", "flushed", "done"}] /\ \A m \in 1 .. Includes : j[m] = "done" <=> i[m] = "done"
    BY <2>1, <2>2
  <2>4. include' = [include EXCEPT ![c] = j]
    BY <1>3, <2>1, <2>2
  <2>5. S = {m \in 1 .. Includes : j[m] # "done"}
    BY <1>6, <2>3
  <2>6. resolves_' = [resolves_ EXCEPT ![c] = v] /\ cnt_' = [cnt_ EXCEPT ![c] = Cardinality(S)]
        /\ phase' = [phase EXCEPT ![c] = "ssi"]
    BY <1>1, <1>2, <1>4, <1>7, <2>1 DEF FrontTypes
  <2> QED
    BY <1>5, <1>7, <1>8, <2>3, <2>4, <2>5, <2>6
<1>10. CASE Included(c, n)
  <2>1. /\ i[n] = "flushed" /\ include' = [include EXCEPT ![c][n] = "done"]
        /\ resolves_' = [resolves_ EXCEPT ![c][n] = n] /\ cnt_' = [cnt_ EXCEPT ![c] = @ - 1]
        /\ phase' = IF cnt_'[c] = 0 THEN [phase EXCEPT ![c] = "hook"] ELSE phase
    BY <1>3, <1>10 DEF Included
  <2>2. PICK j : j = [i EXCEPT ![n] = "done"]
    OBVIOUS
  <2>3. j \in [1 .. Includes -> {"asked", "flushed", "done"}] /\ j[n] = "done" /\ \A m \in 1 .. Includes : m # n => j[m] = i[m]
    BY <1>7, <2>2
  <2>4. PICK w : w = [v EXCEPT ![n] = n]
    OBVIOUS
  <2>5. w \in [1 .. Includes -> (1 .. Includes) \union {None}] /\ w[n] = n /\ \A m \in 1 .. Includes : m # n => w[m] = v[m]
    BY <1>7, <2>4
  <2>6. include' = [include EXCEPT ![c] = j] /\ resolves_' = [resolves_ EXCEPT ![c] = w]
    BY <1>3, <1>4, <2>1, <2>2, <2>4
  <2>7. PICK T : T = {m \in 1 .. Includes : j[m] # "done"}
    OBVIOUS
  <2>8. n \in S /\ T = S \ {n}
    BY <1>6, <1>7, <2>1, <2>3, <2>7
  <2>9. Cardinality(T) = Cardinality(S) - 1 /\ IsFiniteSet(T) /\ Cardinality(T) \in Nat
    BY <1>7, <2>8, FS_RemoveElement, FS_CardinalityType
  <2>10. cnt_' = [cnt_ EXCEPT ![c] = Cardinality(T)] /\ cnt_'[c] = Cardinality(T)
    BY <1>1, <1>7, <2>1, <2>9 DEF FrontTypes
  <2>11. \A m \in 1 .. Includes : j[m] = "done" => w[m] = m
    BY <1>5, <2>3, <2>5
  <2>12. CASE Cardinality(T) = 0
    <3>1. T = {}
      BY <2>9, <2>12, FS_EmptySet
    <3>2. \A m \in 1 .. Includes : w[m] = m
      BY <2>3, <2>7, <2>11, <3>1
    <3>3. phase' = [phase EXCEPT ![c] = "hook"]
      BY <2>1, <2>10, <2>12
    <3> QED
      BY <1>8, <2>3, <2>5, <2>6, <2>7, <2>9, <2>10, <2>11, <3>2, <3>3
  <2>13. CASE Cardinality(T) # 0
    <3>1. phase' = [phase EXCEPT ![c] = "ssi"]
      BY <1>1, <1>2, <2>1, <2>10, <2>13 DEF FrontTypes
    <3> QED
      BY <1>8, <2>3, <2>5, <2>6, <2>7, <2>9, <2>10, <2>11, <3>1
  <2> QED
    BY <2>12, <2>13
<1> QED
  BY <1>9, <1>10

\* A tick of the chain before the response.
LEMMA FlushKeeps ==
    ASSUME FrontInv, NEW c \in Conn, FlushTick(c)
    PROVE  FrontInv'
<1>1. FrontTypes /\ Sessions /\ Local(c) /\ Flushes(c)
  BY DEF FrontInv, Local
<1>2. /\ phase[c] = "hook"
      /\ UNCHANGED <<before, provider, jar, store, begun, req, route, cookie, it_, session, flush_chain,
                     include, resolves_, cnt_, clean, saw, last>>
  BY DEF FlushTick, Flushing, setup, page
<1>3. /\ phase \in [Conn -> Phase] /\ answer \in [Conn -> Sid \union {None}] /\ flush_it \in [Conn -> Nat]
      /\ session[c] = None <=> SidOf(c) = None
      /\ session[c] # None => session[c] \in SessionType /\ SidOf(c) = session[c].sid /\ SidOf(c) \in Sid
      /\ NewId(req[c]) \in Sid /\ answer[c] = None
  <2>1. req[c] \in 1 .. begun /\ begun <= MaxRequests /\ begun \in Nat /\ MaxRequests \in Nat
    BY <1>1, <1>2, FrontFacts DEF Sessions, Own, FrontTypes
  <2>2. NewId(req[c]) \in Sid
    BY <2>1 DEF NewId, Sid
  <2> QED
    BY <1>1, <1>2, <2>2, SidFacts DEF FrontTypes, Flushes
<1>4. ASSUME NEW p \in {"hook", "save", "remove", "write", "stuck"}, NEW a \in {None, SidOf(c), NewId(req[c])}, NEW f \in Nat,
             phase' = [phase EXCEPT ![c] = p], answer' = [answer EXCEPT ![c] = a], flush_it' = [flush_it EXCEPT ![c] = f],
             p \in {"write", "stuck"} => SidOf(c) = None,
             Flushes(c)'
      PROVE  FrontInv'
  <2>1. FrontTypes'
    <3>1. a \in Sid \union {None} /\ p \in Phase
      BY <1>3, <1>4 DEF Phase
    <3> QED
      BY <1>1, <1>2, <1>4, <3>1 DEF FrontTypes
  <2>2. \A d \in Conn : d # c => Same(d)
    BY <1>1, <1>2, <1>3, <1>4 DEF Same
  <2>3. phase'[c] = p /\ answer'[c] = a
    BY <1>3, <1>4
  <2>4. Reset(c)'
    BY <2>3 DEF Reset
  <2>5. Parts(c)'
    BY <1>1, <1>2, <2>3 DEF Local, Parts
  <2>6. Local(c)'
    BY <1>4, <2>4, <2>5 DEF Local
  <2>7. \A d \in Conn : SidOf(d)' = SidOf(d)
    BY <1>2 DEF SidOf
  <2>8. Sessions'
    <3>1. \A d \in Conn : d # c => answer'[d] = answer[d] /\ phase'[d] = phase[d] /\ session'[d] = session[d]
      BY <2>2 DEF Same
    <3>2. answer'[c] \in {answer[c], SidOf(c), NewId(req[c])}
      BY <1>3, <2>3
    <3> QED
      BY <1>1, <1>2, <1>4, <2>3, <2>7, <3>1, <3>2, StepSessions
  <2> QED
    BY <1>2, <2>1, <2>2, <2>6, <2>8, OneConnection DEF FrontInv
<1>5. flush_it[c] \in Nat /\ phase[c] \in Phase
  BY <1>3
<1>6. ASSUME route[c] \notin Filtered, NEW p \in {"write", "stuck"}, NEW f \in Nat, f = flush_it[c],
             phase' = [phase EXCEPT ![c] = p], answer' = answer, flush_it' = [flush_it EXCEPT ![c] = f]
      PROVE  FrontInv'
  <2>1. SidOf(c) = None
    BY <1>1, <1>3, <1>6 DEF Flushes
  <2>2. phase'[c] = p /\ flush_it'[c] = flush_it[c] /\ answer' = [answer EXCEPT ![c] = None]
    BY <1>3, <1>6
  <2>3. Flushes(c)'
    BY <1>1, <1>2, <1>6, <2>2 DEF Flushes, UsedUp
  <2> QED
    BY <1>4, <1>6, <2>1, <2>2, <2>3
<1>7. CASE flush_chain[c] = <<>>
  <2>1. route[c] \notin Filtered
    BY <1>1, <1>7 DEF Flushes
  <2>2. phase' = [phase EXCEPT ![c] = "write"] /\ UNCHANGED <<flush_it, flushed, answer, spun>>
    BY <1>7 DEF FlushTick
  <2>3. flush_it' = [flush_it EXCEPT ![c] = flush_it[c]]
    BY <1>3, <2>2
  <2> QED
    BY <1>5, <1>6, <2>1, <2>2, <2>3
<1>8. CASE flush_chain[c] # <<>> /\ flush_chain[c][flush_it[c]] = "session"
  <2>1. After(c)
    BY <1>8 DEF FlushTick
  <2>2. route[c] \in Filtered
    <3>1. flush_chain[c] \in {<<"flush">>, <<"session", "flush">>}
      BY <1>1, <1>8 DEF FrontTypes
    <3>2. ASSUME UsedUp(c) PROVE FALSE
      BY <1>8, <3>1, <3>2 DEF UsedUp
    <3>3. route[c] \in Route /\ route[c] # "missing"
      BY <1>1, <3>2 DEF FrontTypes, Flushes
    <3>4. route[c] # "plain"
      BY <1>1, <1>8 DEF Flushes
    <3> QED
      BY <3>3, <3>4 DEF Route, Filtered
  <2>3. flush_it' = [flush_it EXCEPT ![c] = flush_it[c]]
    BY <1>3, <2>1 DEF After
  <2>4. CASE session[c] = None
    <3>1. phase' = phase /\ answer' = answer
      BY <2>1, <2>4 DEF After
    <3>2. phase' = [phase EXCEPT ![c] = "hook"] /\ answer' = [answer EXCEPT ![c] = None]
      BY <1>2, <1>3, <3>1
    <3>3. Flushes(c)'
      BY <1>1, <1>2, <1>3, <2>3, <3>1 DEF Flushes, UsedUp
    <3> QED
      BY <1>4, <1>5, <2>3, <3>2, <3>3
  <2>5. CASE session[c] # None /\ session[c].valid
    <3>1. answer' = [answer EXCEPT ![c] = SidOf(c)] /\ phase' = [phase EXCEPT ![c] = "save"]
      BY <1>3, <2>1, <2>5 DEF After
    <3>2. phase'[c] = "save" /\ answer'[c] = SidOf(c) /\ flush_it'[c] = flush_it[c]
      BY <1>3, <2>3, <3>1
    <3>3. Flushes(c)'
      BY <1>1, <1>2, <1>3, <2>2, <2>5, <3>2 DEF Flushes, Filtered
    <3> QED
      BY <1>4, <1>5, <2>3, <3>1, <3>3
  <2>6. CASE session[c] # None /\ ~session[c].valid
    <3>1. answer' = [answer EXCEPT ![c] = NewId(req[c])] /\ phase' = [phase EXCEPT ![c] = "remove"]
      BY <2>1, <2>6 DEF After
    <3>2. phase'[c] = "remove" /\ answer'[c] = NewId(req[c]) /\ flush_it'[c] = flush_it[c]
      BY <1>3, <2>3, <3>1
    <3>3. Flushes(c)'
      BY <1>1, <1>2, <1>3, <2>2, <2>6, <3>2 DEF Flushes, Filtered
    <3> QED
      BY <1>4, <1>5, <2>3, <3>1, <3>3
  <2> QED
    BY <2>4, <2>5, <2>6
<1>9. CASE flush_chain[c] # <<>> /\ flush_chain[c][flush_it[c]] # "session"
  <2>1. Terminate(c) /\ answer' = answer
    BY <1>9 DEF FlushTick
  <2>2. route[c] \notin Filtered
    BY <1>1, <1>2, <1>9 DEF Flushes
  <2>3. flush_it[c] = Len(flush_chain[c])
    <3>1. route[c] \in {"missing", "plain"}
      BY <1>1, <2>2 DEF FrontTypes, Route, Filtered
    <3>2. Len(<<"flush">>) = 1
      OBVIOUS
    <3>3. CASE route[c] = "plain"
      BY <1>1, <3>2, <3>3 DEF Flushes
    <3>4. CASE route[c] = "missing"
      BY <1>1, <1>9, <3>4 DEF Flushes, UsedUp
    <3> QED
      BY <3>1, <3>3, <3>4
  <2>4. PICK p \in {"write", "stuck"} : phase' = [phase EXCEPT ![c] = p]
    BY <2>1 DEF Terminate
  <2>5. flush_it' = [flush_it EXCEPT ![c] = flush_it[c]]
    BY <2>1, <2>3 DEF Terminate
  <2> QED
    BY <1>5, <1>6, <2>1, <2>2, <2>4, <2>5
<1> QED
  BY <1>7, <1>8, <1>9

\* A session is saved or removed, or redis fails to.
LEMMA SaveSessions ==
    ASSUME FrontTypes, Sessions, NEW c \in Conn, phase[c] \notin {"idle", "write", "stuck", "lost"},
           NEW s \in Sid, s = SidOf(c),
           UNCHANGED <<jar, last, begun, req, cookie, saw, session, answer>>,
           NEW p \in {"write", "stuck"}, phase' = [phase EXCEPT ![c] = p],
           NEW v \in Data \union {None}, (IF v = None THEN 0 ELSE v) = IF session[c].valid THEN session[c].data ELSE 0,
           \/ store' = [store EXCEPT ![s] = v] /\ clean' = clean
           \/ store' = store /\ clean' = [clean EXCEPT ![c] = FALSE]
    PROVE  Sessions'
<1>1. \A d \in Conn : SidOf(d)' = SidOf(d) /\ phase'[d] = IF d = c THEN p ELSE phase[d]
  BY DEF SidOf, FrontTypes
<1>2. /\ \A t \in Sid : t # s => store'[t] = store[t]
      /\ \A d \in Conn : clean'[d] => clean[d]
      /\ clean'[c] => store'[s] = v
      /\ clean \in [Conn -> BOOLEAN] /\ store \in [Sid -> Data \union {None}]
  BY DEF FrontTypes
<1>3. \A d \in Conn : \A t : Knows(d, t)' = Knows(d, t) /\ Uses(d, t)' = Uses(d, t)
  BY <1>1 DEF Knows, Uses
<1>4. Knows(c, s) /\ Uses(c, s)
  BY DEF Knows, Uses
<1>5. ToCome'
  <2>1. s <= 2 * begun
    BY <1>4 DEF Sessions, ToCome
  <2>2. s \in Nat /\ begun \in Nat
    BY FrontFacts DEF FrontTypes
  <2>3. ASSUME NEW t \in Sid, t > 2 * begun PROVE t # s
    BY <2>1, <2>2, <2>3
  <2> QED
    BY <1>2, <1>3, <2>3 DEF Sessions, ToCome
<1>6. Alone'
  BY <1>2, <1>3 DEF Sessions, Alone
<1>7. Kept'
  <2>1. ASSUME NEW t \in Sid, last[t] # None PROVE Stored(t)' = last[t] \/ \E d \in Conn : Saved(d, t)'
    <3>1. CASE t = s
      BY <1>1, <3>1 DEF Saved
    <3>2. ASSUME t # s, NEW d \in Conn, Saved(d, t) PROVE Saved(d, t)'
      BY <1>1, <3>2 DEF Saved
    <3>3. CASE t # s
      BY <1>2, <2>1, <3>2, <3>3 DEF Sessions, Kept, Stored
    <3> QED
      BY <3>1, <3>3
  <2> QED
    BY <2>1 DEF Kept
<1>8. ASSUME NEW d \in Conn PROVE Own(d)'
  <2>1. SUFFICES ASSUME phase[d] # "idle" PROVE Own(d)'
    BY <1>1 DEF Own
  <2>2. Own(d)
    BY DEF Sessions
  <2>3. SidOf(d) = None => last[OpenedId(req[d])] = 0 /\ store'[OpenedId(req[d])] = None
    <3>1. SUFFICES ASSUME SidOf(d) = None PROVE last[OpenedId(req[d])] = 0 /\ store'[OpenedId(req[d])] = None
      OBVIOUS
    <3>2. d # c
      BY <3>1, FrontFacts
    <3>3. OpenedId(req[d]) # s
      BY <1>4, <2>1, <2>2, <3>2 DEF Own
    <3>4. OpenedId(req[d]) \in Sid
      <4>1. req[d] \in 1 .. begun /\ begun <= MaxRequests /\ begun \in Nat /\ MaxRequests \in Nat
        BY <2>1, <2>2, FrontFacts DEF Own, FrontTypes
      <4> QED
        BY <4>1 DEF OpenedId, Sid
    <3> QED
      BY <1>2, <2>1, <2>2, <3>1, <3>3, <3>4 DEF Own
  <2> QED
    BY <1>1, <1>3, <2>1, <2>2, <2>3 DEF Own
<1>9. ASSUME NEW d \in Conn PROVE Wrote(d)'
  <2>1. CASE d = c
    <3>1. ASSUME clean'[c] PROVE Stored(s)' = IF session[c].valid THEN session[c].data ELSE 0
      BY <1>2, <3>1 DEF Stored
    <3> QED
      BY <1>1, <2>1, <3>1 DEF Wrote
  <2>2. CASE d # c /\ SidOf(d) = s
    <3>1. Uses(d, s)
      BY <2>2 DEF Uses
    <3>2. ~clean[d]
      BY <1>4, <2>2, <3>1 DEF Sessions, Alone
    <3> QED
      BY <1>1, <1>2, <3>2 DEF Wrote
  <2>3. CASE d # c /\ SidOf(d) # s
    <3>1. Wrote(d)
      BY DEF Sessions
    <3>2. SidOf(d) # None => Stored(SidOf(d))' = Stored(SidOf(d))
      BY <1>1, <1>2, <2>3, SidFacts DEF Stored
    <3> QED
      BY <1>1, <1>2, <2>3, <3>1, <3>2 DEF Wrote
  <2> QED
    BY <2>1, <2>2, <2>3
<1>10. \A d \in Conn : SawLast(d)'
  BY <1>1, <1>2 DEF Sessions, SawLast
<1> QED
  BY <1>5, <1>6, <1>7, <1>8, <1>9, <1>10 DEF Sessions

LEMMA SaveKeeps ==
    ASSUME FrontInv, NEW c \in Conn, MemorySave(c) \/ RedisSave(c)
    PROVE  FrontInv'
<1>1. FrontTypes /\ Sessions /\ Local(c) /\ Flushes(c)
  BY DEF FrontInv, Local
<1>2. PICK v : v = IF phase[c] = "save" THEN session[c].data ELSE None
  OBVIOUS
<1>3. PICK s : s = SidOf(c)
  OBVIOUS
<1>4. /\ phase[c] \in {"save", "remove"} /\ session[c] \in SessionType /\ s \in Sid /\ s = session[c].sid
      /\ v \in Data \union {None} /\ (IF v = None THEN 0 ELSE v) = IF session[c].valid THEN session[c].data ELSE 0
      /\ session[c] # None
  <2>1. phase[c] \in {"save", "remove"} /\ session[c] # None /\ session[c].valid = (phase[c] = "save")
    BY <1>1, SidFacts DEF MemorySave, RedisSave, Flushes, SessionType
  <2>2. session[c] \in SessionType /\ s = session[c].sid
    BY <1>1, <1>3, <2>1, SidFacts
  <2> QED
    BY <1>2, <2>1, <2>2, FrontFacts DEF SessionType
<1>5. /\ UNCHANGED <<before, provider, jar, begun, req, route, cookie, it_, session, answer, flush_chain,
                     include, resolves_, cnt_, saw, last>>
      /\ Terminate(c)
  BY DEF MemorySave, RedisSave, Flushing, setup, page
<1>6. \/ store' = [store EXCEPT ![s] = v] /\ clean' = clean
      \/ store' = store /\ clean' = [clean EXCEPT ![c] = FALSE]
  BY <1>2, <1>4 DEF MemorySave, RedisSave
<1>7. PICK p \in {"write", "stuck"} : phase' = [phase EXCEPT ![c] = p]
  BY <1>5 DEF Terminate
<1>8. route[c] \in Filtered /\ flush_chain[c] = <<"session", "flush">> /\ flush_it' = [flush_it EXCEPT ![c] = 2]
  <2>1. route[c] \in Filtered /\ flush_chain[c] = <<"session", "flush">>
    BY <1>1, <1>4 DEF Flushes
  <2> QED
    BY <1>5, <2>1 DEF Terminate
<1>9. phase'[c] = p /\ flush_it'[c] = 2
  BY <1>1, <1>7, <1>8 DEF FrontTypes
<1>10. FrontTypes'
  <2>1. store' \in [Sid -> Data \union {None}] /\ clean' \in [Conn -> BOOLEAN]
    BY <1>1, <1>4, <1>6 DEF FrontTypes
  <2> QED
    BY <1>1, <1>5, <1>7, <1>8, <2>1 DEF FrontTypes, Phase
<1>11. \A d \in Conn : d # c => Same(d)
  BY <1>1, <1>5, <1>7, <1>8 DEF Same, FrontTypes
<1>12. Local(c)'
  <2>1. Reset(c)'
    BY <1>9 DEF Reset
  <2>2. Flushes(c)'
    BY <1>1, <1>4, <1>5, <1>8, <1>9 DEF Flushes, Filtered
  <2>3. Parts(c)'
    BY <1>1, <1>4, <1>5, <1>9 DEF Local, Parts
  <2> QED
    BY <2>1, <2>2, <2>3 DEF Local
<1>13. Sessions'
  <2>1. phase[c] \notin {"idle", "write", "stuck", "lost"}
    BY <1>4
  <2> QED
    BY <1>1, <1>3, <1>4, <1>5, <1>6, <1>7, <2>1, SaveSessions
<1> QED
  BY <1>5, <1>10, <1>11, <1>12, <1>13, OneConnection DEF FrontInv

\* What a chain that ran leaves
RanTo(c, o, p, j) ==
    /\ session' \in [Conn -> SessionType \union {None}] /\ saw' \in [Conn -> Data \union {None}]
    /\ phase' \in [Conn -> Phase] /\ it_' \in [Conn -> Nat]
    /\ include' \in [Conn -> Seq({"asked", "flushed", "done"})]
    /\ resolves_' \in [Conn -> Seq((1 .. Includes) \union {None})] /\ cnt_' \in [Conn -> Nat]
    /\ session'[c] = o /\ saw'[c] = (IF o = None THEN None ELSE o.data) /\ phase'[c] = p /\ it_'[c] = j
    /\ \A d \in Conn : d # c =>
          /\ session'[d] = session[d] /\ saw'[d] = saw[d] /\ phase'[d] = phase[d] /\ it_'[d] = it_[d]
          /\ include'[d] = include[d] /\ resolves_'[d] = resolves_[d] /\ cnt_'[d] = cnt_[d]
    /\ Parts(c)'
    /\ o \in SessionType \union {None}

LEMMA RanLeaves ==
    ASSUME FrontTypes, NEW c \in Conn, NEW n \in 1 .. MaxRequests, NEW r, NEW k, NEW s \in SessionType \union {None},
           NEW o, NEW p, NEW j, Ran(c, n, r, k, s, o, p, j), phase[c] # "ssi", Parts(c)
    PROVE  RanTo(c, o, p, j)
<1>1. o \in SessionType \union {None}
  <2>1. Session(OpenedId(n), 0) \in SessionType
    <3>1. OpenedId(n) \in Sid
      BY FrontFacts DEF OpenedId, Sid
    <3> QED
      BY <3>1, FrontFacts DEF Session, SessionType
  <2> QED
    BY <2>1 DEF Ran
<1>2. /\ session' = [session EXCEPT ![c] = o] /\ saw' = [saw EXCEPT ![c] = IF o = None THEN None ELSE o.data]
      /\ phase' = [phase EXCEPT ![c] = p] /\ it_' = [it_ EXCEPT ![c] = j] /\ j \in Nat /\ p \in Phase
      /\ p \in {"get", "hook", "handler", "ssi"}
  BY DEF Ran, Phase
<1>3. (IF o = None THEN None ELSE o.data) \in Data \union {None}
  BY <1>1 DEF SessionType
<1>4. /\ session' \in [Conn -> SessionType \union {None}] /\ saw' \in [Conn -> Data \union {None}]
      /\ phase' \in [Conn -> Phase] /\ it_' \in [Conn -> Nat]
      /\ session'[c] = o /\ saw'[c] = (IF o = None THEN None ELSE o.data) /\ phase'[c] = p /\ it_'[c] = j
      /\ \A d \in Conn : d # c => session'[d] = session[d] /\ saw'[d] = saw[d] /\ phase'[d] = phase[d] /\ it_'[d] = it_[d]
  BY <1>1, <1>2, <1>3 DEF FrontTypes
<1>5. /\ include \in [Conn -> Seq({"asked", "flushed", "done"})] /\ cnt_ \in [Conn -> Nat]
      /\ resolves_ \in [Conn -> Seq((1 .. Includes) \union {None})] /\ Includes \in Nat
  BY FrontFacts DEF FrontTypes
<1>6. /\ include' \in [Conn -> Seq({"asked", "flushed", "done"})]
      /\ resolves_' \in [Conn -> Seq((1 .. Includes) \union {None})] /\ cnt_' \in [Conn -> Nat]
      /\ \A d \in Conn : d # c => include'[d] = include[d] /\ resolves_'[d] = resolves_[d] /\ cnt_'[d] = cnt_[d]
      /\ Parts(c)'
  <2>1. CASE p = "ssi"
    <3>1. PICK i : i = [m \in 1 .. Includes |-> "asked"]
      OBVIOUS
    <3>2. PICK w : w = [m \in 1 .. Includes |-> None]
      OBVIOUS
    <3>3. /\ include' = [include EXCEPT ![c] = i] /\ resolves_' = [resolves_ EXCEPT ![c] = w]
          /\ cnt_' = [cnt_ EXCEPT ![c] = Includes]
      BY <2>1, <3>1, <3>2 DEF Ran
    <3>4. /\ i \in [1 .. Includes -> {"asked", "flushed", "done"}] /\ w \in [1 .. Includes -> (1 .. Includes) \union {None}]
          /\ \A m \in 1 .. Includes : i[m] = "asked"
      BY <3>1, <3>2
    <3>5. i \in Seq({"asked", "flushed", "done"}) /\ w \in Seq((1 .. Includes) \union {None})
      BY <1>5, <3>4
    <3>6. include'[c] = i /\ resolves_'[c] = w /\ cnt_'[c] = Includes
      BY <1>5, <3>3
    <3>7. {m \in 1 .. Includes : i[m] # "done"} = 1 .. Includes
      BY <3>4
    <3>8. Cardinality(1 .. Includes) = Includes
      <4>1. 1 \in Int /\ Includes \in Int /\ 1 <= Includes
        BY FrontFacts
      <4>2. Cardinality(1 .. Includes) = IF 1 > Includes THEN 0 ELSE Includes - 1 + 1
        BY <4>1, FS_Interval
      <4> QED
        BY <4>1, <4>2
    <3>9. Missing(c)' = 1 .. Includes
      BY <3>6, <3>7 DEF Missing
    <3>10. Parts(c)'
      BY <1>4, <2>1, <3>4, <3>6, <3>8, <3>9 DEF Parts
    <3> QED
      BY <1>5, <3>3, <3>5, <3>10
  <2>2. CASE p # "ssi"
    <3>1. include' = include /\ resolves_' = resolves_ /\ cnt_' = cnt_
      BY <2>2 DEF Ran, page
    <3>2. Parts(c)'
      BY <1>4, <2>2, <3>1 DEF Parts
    <3> QED
      BY <1>5, <3>1, <3>2
  <2> QED
    BY <2>1, <2>2
<1> QED
  BY <1>1, <1>4, <1>6 DEF RanTo

\* A filter or the handler throws to nobody: the request has a session of its own that it does not use.
LEMMA LosesKeeps ==
    ASSUME FrontInv, NEW c \in Conn, phase[c] = "get", Loses(c),
           UNCHANGED <<setup, jar, begun, req, route, cookie, answer, flushing, spun, last>>,
           store' \in [Sid -> Data \union {None}], \A t \in Sid : Stored(t)' = Stored(t) /\ (t # cookie[c] => store'[t] = store[t]),
           clean' = clean \/ clean' = [clean EXCEPT ![c] = FALSE]
    PROVE  FrontInv'
<1>1. FrontTypes /\ Sessions /\ Local(c) /\ Flushes(c) /\ Parts(c) /\ Own(c)
  BY DEF FrontInv, Local, Sessions
<1>2. UNCHANGED <<before, provider, jar, begun, req, route, cookie, answer, flush_chain, flush_it, last, include, resolves_, cnt_>>
  BY DEF Loses, setup, flushing, page
<1>3. PICK k \in Sid : k = cookie[c]
  BY <1>1, FrontFacts DEF Flushes, FrontTypes
<1>4. /\ session[c] = None /\ it_[c] \in 1 .. 3 /\ answer[c] = None
      /\ req[c] \in 1 .. MaxRequests /\ req[c] \in 1 .. begun /\ begun \in Nat /\ MaxRequests \in Nat
  BY <1>1, FrontFacts DEF Flushes, Own, FrontTypes
<1>5. PICK m \in Sid : m = OpenedId(req[c]) /\ m <= 2 * begun
  <2>1. OpenedId(req[c]) \in Sid /\ OpenedId(req[c]) <= 2 * begun
    BY <1>4 DEF OpenedId, Sid
  <2> QED
    BY <2>1
<1>6. PICK s \in SessionType : s = Session(m, 0) /\ s # None /\ s.sid = m
  <2>1. Session(m, 0) \in SessionType
    BY FrontFacts DEF Session, SessionType
  <2>2. Session(m, 0).sid = m
    BY DEF Session
  <2> QED
    BY <2>1, <2>2, FrontFacts
<1>7. PICK j \in Nat : it_' = [it_ EXCEPT ![c] = j]
  <2>1. Len(before) \in Nat
    <3>1. before = <<"session", "auth", "handler">> \/ before = <<"auth", "session", "handler">>
      BY <1>1 DEF FrontTypes
    <3> QED
      BY <3>1
  <2>2. PICK j \in it_[c] + 1 .. Len(before) : it_' = [it_ EXCEPT ![c] = j]
    BY DEF Loses
  <2>3. j \in Nat
    BY <1>4, <2>1, <2>2
  <2> QED
    BY <2>2, <2>3
<1>8. /\ session' = [session EXCEPT ![c] = s] /\ saw' = [saw EXCEPT ![c] = 0] /\ phase' = [phase EXCEPT ![c] = "lost"]
  BY <1>5, <1>6 DEF Loses
<1>9. /\ session'[c] = s /\ saw'[c] = 0 /\ phase'[c] = "lost"
      /\ \A d \in Conn : d # c => session'[d] = session[d] /\ saw'[d] = saw[d] /\ phase'[d] = phase[d] /\ it_'[d] = it_[d]
  BY <1>1, <1>7, <1>8 DEF FrontTypes
<1>10. clean' \in [Conn -> BOOLEAN] /\ \A d \in Conn : clean'[d] => clean[d]
  BY <1>1 DEF FrontTypes
<1>11. FrontTypes'
  BY <1>1, <1>2, <1>7, <1>8, <1>10, FrontFacts DEF FrontTypes, Phase
<1>12. \A d \in Conn : d # c => Same(d)
  BY <1>2, <1>9 DEF Same
<1>13. Local(c)'
  <2>1. Reset(c)'
    BY <1>9 DEF Reset
  <2>2. Flushes(c)'
    <3>1. route[c] \in Filtered /\ route[c] \notin {"missing", "plain"}
      BY <1>1 DEF Flushes, FrontTypes, Route, Filtered
    <3> QED
      BY <1>1, <1>2, <1>9, <3>1 DEF Flushes
  <2>3. Parts(c)'
    BY <1>1, <1>2, <1>9 DEF Parts
  <2> QED
    BY <2>1, <2>2, <2>3 DEF Local
<1>14. SidOf(c)' = m /\ SidOf(c) = None /\ \A d \in Conn : d # c => SidOf(d)' = SidOf(d)
  BY <1>4, <1>6, <1>9 DEF SidOf
<1>15. \A d \in Conn : \A t \in Sid : d # c => (Knows(d, t)' <=> Knows(d, t)) /\ (Uses(d, t)' <=> Uses(d, t))
  BY <1>2, <1>9, <1>14 DEF Knows, Uses
<1>16. \A t \in Sid : (Knows(c, t)' <=> Knows(c, t) \/ t = m) /\ (Uses(c, t)' => t = m)
  BY <1>2, <1>9, <1>14, FrontFacts DEF Knows, Uses
<1>17. /\ Knows(c, k) /\ m # k /\ jar # m /\ store[m] = None /\ last[m] = 0
       /\ \A d \in Conn : d # c => ~Knows(d, m) /\ ~Uses(d, m)
  BY <1>1, <1>3, <1>5, <1>14 DEF Own, Knows, Uses
<1>18. ToCome'
  <2>1. k <= 2 * begun /\ k \in Nat /\ begun \in Nat
    BY <1>1, <1>17, FrontFacts DEF Sessions, ToCome, FrontTypes
  <2>2. ASSUME NEW t \in Sid, t > 2 * begun PROVE store'[t] = store[t]
    <3>1. t \in Nat
      BY FrontFacts
    <3>2. t # k
      BY <2>1, <2>2, <3>1
    <3> QED
      BY <1>3, <3>2
  <2> QED
    BY <1>1, <1>2, <1>5, <1>15, <1>16, <2>2 DEF Sessions, ToCome
<1>19. Alone'
  BY <1>1, <1>10, <1>15, <1>16, <1>17 DEF Sessions, Alone
<1>20. \A d \in Conn : \A t \in Sid : Saved(d, t)' <=> Saved(d, t)
  BY <1>9, <1>14 DEF Saved
<1>21. Kept'
  BY <1>1, <1>2, <1>20 DEF Sessions, Kept
<1>22. ASSUME NEW d \in Conn PROVE Own(d)'
  <2>1. (\A e \in Conn : phase'[e] = "idle" <=> phase[e] = "idle") /\ Own(d)
    BY <1>1, <1>9 DEF Sessions
  <2>2. SUFFICES ASSUME phase[d] # "idle" PROVE Own(d)'
    BY <2>1 DEF Own
  <2>3. OpenedId(req[d]) \in Sid /\ NewId(req[d]) \in Sid /\ (d # c => OpenedId(req[d]) # m /\ NewId(req[d]) # m)
    <3>1. req[d] \in 1 .. begun /\ begun <= MaxRequests /\ (d # c => req[d] # req[c])
      BY <1>1, <1>4, <2>1, <2>2, FrontFacts DEF Own, FrontTypes
    <3>2. m = 2 * req[c] - 1 /\ req[c] \in Nat /\ req[d] \in Nat
      BY <1>4, <1>5, <3>1 DEF OpenedId
    <3>3. OpenedId(req[d]) = 2 * req[d] - 1 /\ NewId(req[d]) = 2 * req[d]
      BY DEF OpenedId, NewId
    <3>4. 2 * req[d] - 1 \in Sid /\ 2 * req[d] \in Sid
      BY <1>4, <3>1 DEF Sid
    <3>5. d # c => 2 * req[d] - 1 # m /\ 2 * req[d] # m
      BY <3>1, <3>2
    <3> QED
      BY <3>3, <3>4, <3>5
  <2>4. ASSUME SidOf(d)' = None PROVE last[OpenedId(req[d])] = 0 /\ store'[OpenedId(req[d])] = None
    <3>1. d # c /\ SidOf(d) = None
      BY <1>14, <2>4, FrontFacts
    <3>2. OpenedId(req[d]) # k
      BY <1>17, <2>1, <2>2, <3>1 DEF Own
    <3> QED
      BY <1>3, <2>1, <2>2, <2>3, <3>1, <3>2 DEF Own
  <2>5. SidOf(d)' \in {None, IF cookie[d] = None \/ phase'[d] = "lost" THEN OpenedId(req[d]) ELSE cookie[d]}
    BY <1>5, <1>9, <1>14, <2>1, <2>2 DEF Own
  <2>6. \A t \in {OpenedId(req[d]), NewId(req[d])} :
           jar # t /\ cookie[d] # t /\ \A e \in Conn : e # d => ~Knows(e, t)'
    BY <1>15, <1>16, <2>1, <2>2, <2>3 DEF Own
  <2> QED
    BY <1>2, <2>1, <2>2, <2>4, <2>5, <2>6 DEF Own
<1>23. ASSUME NEW d \in Conn PROVE Wrote(d)'
  <2>1. CASE d = c
    BY <1>9, <2>1 DEF Wrote
  <2>2. CASE d # c
    <3>1. Wrote(d)
      BY <1>1 DEF Sessions
    <3>2. SidOf(d) # None => Stored(SidOf(d))' = Stored(SidOf(d))
      BY <1>1, <1>14, <2>2, SidFacts DEF Stored
    <3> QED
      BY <1>9, <1>10, <1>14, <2>2, <3>1, <3>2 DEF Wrote
  <2> QED
    BY <2>1, <2>2
<1>24. ASSUME NEW d \in Conn PROVE SawLast(d)'
  <2>1. CASE d = c
    BY <1>2, <1>9, <1>14, <1>17, <2>1 DEF SawLast
  <2>2. CASE d # c
    BY <1>1, <1>2, <1>9, <1>10, <1>14, <2>2 DEF Sessions, SawLast
  <2> QED
    BY <2>1, <2>2
<1>25. Sessions'
  BY <1>18, <1>19, <1>21, <1>22, <1>23, <1>24 DEF Sessions
<1> QED
  BY <1>2, <1>11, <1>12, <1>13, <1>25, OneConnection DEF FrontInv

\* A session is there: the chain goes on.
LEMMA RunOnKeeps ==
    ASSUME FrontInv, NEW c \in Conn, phase[c] = "get", NEW data \in Data,
           RunChain(c, req[c], route[c], cookie[c], it_[c], Session(cookie[c], data)),
           UNCHANGED <<setup, jar, begun, req, route, cookie, answer, flushing, spun, last>>,
           store' \in [Sid -> Data \union {None}], \A t \in Sid : Stored(t)' = Stored(t) /\ (t # cookie[c] => store'[t] = store[t]),
           \/ clean' = clean /\ data = Stored(cookie[c])
           \/ clean' = [clean EXCEPT ![c] = FALSE]
    PROVE  FrontInv'
<1>1. FrontTypes /\ Sessions /\ Local(c) /\ Flushes(c) /\ Parts(c) /\ Own(c)
  BY DEF FrontInv, Local, Sessions
<1>2. /\ RunChain(c, req[c], route[c], cookie[c], it_[c], Session(cookie[c], data))
      /\ UNCHANGED <<before, provider, jar, begun, req, route, cookie, answer, flush_chain, flush_it, last>>
  BY DEF setup, flushing
<1>3. PICK k \in Sid : k = cookie[c]
  BY <1>1, FrontFacts DEF Flushes, FrontTypes
<1>4. PICK s \in SessionType : s = Session(k, data)
  BY DEF Session, SessionType
<1>5. s # None /\ s.sid = k /\ s.data = data
  BY <1>4, FrontFacts DEF Session
<1>6. /\ session[c] = None /\ it_[c] \in 1 .. 3 /\ before[it_[c]] = "session" /\ answer[c] = None
      /\ req[c] \in 1 .. MaxRequests /\ req[c] \in 1 .. begun
  BY <1>1, FrontFacts DEF Flushes, Own, FrontTypes
<1>7. route[c] \in Filtered
  BY <1>1 DEF Flushes, FrontTypes, Route, Filtered
<1>8. route[c] \in {"page", "ssi", "plain"}
  BY <1>7 DEF Filtered
<1>9. \E o, p, j : Ran(c, req[c], route[c], k, s, o, p, j)
  BY <1>1, <1>2, <1>3, <1>4, <1>5, <1>6, <1>7, <1>8, RunChainDoes
<1>10. PICK p, j : Ran(c, req[c], route[c], k, s, s, p, j) /\ p \in {"hook", "handler", "ssi"}
  BY <1>5, <1>9 DEF Ran
<1>11. /\ session' \in [Conn -> SessionType \union {None}] /\ saw' \in [Conn -> Data \union {None}]
       /\ phase' \in [Conn -> Phase] /\ it_' \in [Conn -> Nat]
       /\ include' \in [Conn -> Seq({"asked", "flushed", "done"})]
       /\ resolves_' \in [Conn -> Seq((1 .. Includes) \union {None})] /\ cnt_' \in [Conn -> Nat]
       /\ session'[c] = s /\ saw'[c] = data /\ phase'[c] = p
       /\ \A d \in Conn : d # c =>
             /\ session'[d] = session[d] /\ saw'[d] = saw[d] /\ phase'[d] = phase[d] /\ it_'[d] = it_[d]
             /\ include'[d] = include[d] /\ resolves_'[d] = resolves_[d] /\ cnt_'[d] = cnt_[d]
       /\ Parts(c)'
  <2>1. s \in SessionType \union {None} /\ phase[c] # "ssi" /\ Ran(c, req[c], route[c], k, s, s, p, j)
    BY <1>10
  <2>2. RanTo(c, s, p, j)
    BY <1>1, <1>6, <2>1, RanLeaves
  <2>3. saw'[c] = data
    BY <1>5, <2>2 DEF RanTo
  <2> QED
    BY <2>2, <2>3 DEF RanTo
<1>12. clean' \in [Conn -> BOOLEAN] /\ (\A d \in Conn : clean'[d] => clean[d]) /\ (clean'[c] => data = Stored(k))
  BY <1>1, <1>3 DEF FrontTypes
<1>13. FrontTypes'
  BY <1>1, <1>2, <1>11, <1>12 DEF FrontTypes
<1>14. \A d \in Conn : d # c => Same(d)
  BY <1>2, <1>11 DEF Same
<1>15. Local(c)'
  <2>1. Reset(c)'
    BY <1>10, <1>11 DEF Reset
  <2>2. Flushes(c)'
    BY <1>1, <1>2, <1>6, <1>7, <1>10, <1>11 DEF Flushes, Filtered
  <2> QED
    BY <1>11, <2>1, <2>2 DEF Local
<1>16. SidOf(c)' = k /\ SidOf(c) = None /\ \A d \in Conn : d # c => SidOf(d)' = SidOf(d)
  BY <1>5, <1>6, <1>11 DEF SidOf
<1>17. \A d \in Conn : \A t \in Sid : (Knows(d, t)' <=> Knows(d, t)) /\ (Uses(d, t)' <=> Uses(d, t))
  BY <1>2, <1>3, <1>10, <1>11, <1>16, FrontFacts DEF Knows, Uses
<1>18. Knows(c, k) /\ Uses(c, k)
  BY <1>3 DEF Knows, Uses
<1>19. ToCome'
  <2>1. k <= 2 * begun /\ k \in Nat /\ begun \in Nat
    BY <1>1, <1>18, FrontFacts DEF Sessions, ToCome, FrontTypes
  <2>2. ASSUME NEW t \in Sid, t > 2 * begun PROVE store'[t] = store[t]
    <3>1. t \in Nat
      BY FrontFacts
    <3>2. t # k
      BY <2>1, <2>2, <3>1
    <3> QED
      BY <1>3, <3>2
  <2> QED
    BY <1>1, <1>2, <1>17, <2>2 DEF Sessions, ToCome
<1>20. Alone'
  BY <1>1, <1>12, <1>17 DEF Sessions, Alone
<1>21. \A d \in Conn : \A t \in Sid : Saved(d, t)' <=> Saved(d, t)
  BY <1>10, <1>11, <1>16 DEF Saved
<1>22. Kept'
  BY <1>1, <1>2, <1>21 DEF Sessions, Kept
<1>23. ASSUME NEW d \in Conn, phase[d] # "idle" PROVE OpenedId(req[d]) \in Sid /\ NewId(req[d]) \in Sid
  <2>1. req[d] \in 1 .. begun /\ begun <= MaxRequests /\ begun \in Nat /\ MaxRequests \in Nat
    BY <1>1, <1>23, FrontFacts DEF Sessions, Own, FrontTypes
  <2> QED
    BY <2>1 DEF OpenedId, NewId, Sid
<1>24. ASSUME NEW d \in Conn PROVE Own(d)'
  <2>1. /\ phase'[d] = "idle" <=> phase[d] = "idle"
        /\ phase'[d] = "lost" <=> phase[d] = "lost"
        /\ \A e \in Conn : phase'[e] = "idle" <=> phase[e] = "idle"
        /\ Own(d)
    BY <1>1, <1>10, <1>11 DEF Sessions
  <2>2. SUFFICES ASSUME phase[d] # "idle" PROVE Own(d)'
    BY <2>1 DEF Own
  <2>3. SidOf(d)' = None => last[OpenedId(req[d])] = 0 /\ store'[OpenedId(req[d])] = None
    <3>1. SUFFICES ASSUME SidOf(d)' = None PROVE last[OpenedId(req[d])] = 0 /\ store'[OpenedId(req[d])] = None
      OBVIOUS
    <3>2. d # c /\ SidOf(d) = None
      BY <1>16, <3>1, FrontFacts
    <3>3. OpenedId(req[d]) # k
      BY <1>18, <2>1, <2>2, <3>2 DEF Own
    <3> QED
      BY <1>3, <1>23, <2>1, <2>2, <3>2, <3>3 DEF Own
  <2>4. SidOf(d)' \in {None, IF cookie[d] = None \/ phase'[d] = "lost" THEN OpenedId(req[d]) ELSE cookie[d]}
    <3>1. CASE d = c
      BY <1>3, <1>10, <1>11, <1>16, <3>1, FrontFacts
    <3>2. CASE d # c
      BY <1>16, <2>1, <2>2, <3>2 DEF Own
    <3> QED
      BY <3>1, <3>2
  <2>5. \A t \in {OpenedId(req[d]), NewId(req[d])} :
           jar # t /\ cookie[d] # t /\ \A e \in Conn : e # d => ~Knows(e, t)'
    BY <1>17, <1>23, <2>1, <2>2 DEF Own
  <2> QED
    BY <1>2, <2>1, <2>2, <2>3, <2>4, <2>5 DEF Own
<1>25. ASSUME NEW d \in Conn PROVE Wrote(d)'
  <2>1. CASE d = c
    BY <1>10, <1>11, <2>1 DEF Wrote
  <2>2. CASE d # c
    <3>1. Wrote(d)
      BY <1>1 DEF Sessions
    <3>2. SidOf(d) # None => Stored(SidOf(d))' = Stored(SidOf(d))
      BY <1>1, <1>16, <2>2, SidFacts DEF Stored
    <3> QED
      BY <1>11, <1>12, <1>16, <2>2, <3>1, <3>2 DEF Wrote
  <2> QED
    BY <2>1, <2>2
<1>26. ASSUME NEW d \in Conn PROVE SawLast(d)'
  <2>1. CASE d = c
    <3>1. ASSUME clean'[c], last[k] # None PROVE data = last[k]
      <4>1. data = Stored(k) /\ clean[c]
        BY <1>12, <3>1
      <4>2. ASSUME NEW e \in Conn, Saved(e, k) PROVE FALSE
        <5>1. e # c /\ Uses(e, k)
          BY <4>2 DEF Saved, Uses
        <5> QED
          BY <1>1, <1>18, <4>1, <5>1 DEF Sessions, Alone
      <4> QED
        BY <1>1, <3>1, <4>1, <4>2 DEF Sessions, Kept
    <3> QED
      BY <1>2, <1>11, <1>16, <2>1, <3>1 DEF SawLast
  <2>2. CASE d # c
    BY <1>1, <1>2, <1>11, <1>12, <1>16, <2>2 DEF Sessions, SawLast
  <2> QED
    BY <2>1, <2>2
<1>27. Sessions'
  BY <1>19, <1>20, <1>22, <1>24, <1>25, <1>26 DEF Sessions
<1> QED
  BY <1>2, <1>13, <1>14, <1>15, <1>27, OneConnection DEF FrontInv

LEMMA ResumeKeeps ==
    ASSUME FrontInv, NEW c \in Conn, phase[c] = "get", NEW data \in Data, Resume(c, Session(cookie[c], data)),
           store' \in [Sid -> Data \union {None}], \A t \in Sid : Stored(t)' = Stored(t) /\ (t # cookie[c] => store'[t] = store[t]),
           \/ clean' = clean /\ data = Stored(cookie[c])
           \/ clean' = [clean EXCEPT ![c] = FALSE]
    PROVE  FrontInv'
<1>1. UNCHANGED <<setup, jar, begun, req, route, cookie, answer, flushing, spun, last>>
  BY DEF Resume
<1>2. CASE RunChain(c, req[c], route[c], cookie[c], it_[c], Session(cookie[c], data))
  BY <1>1, <1>2, RunOnKeeps
<1>3. CASE Loses(c)
  BY <1>1, <1>3, LosesKeeps
<1> QED
  BY <1>2, <1>3 DEF Resume

LEMMA GetKeeps ==
    ASSUME FrontInv, NEW c \in Conn, MemoryGet(c) \/ RedisGet(c) \/ RedisGetFails(c)
    PROVE  FrontInv'
<1>1. phase[c] = "get" /\ FrontTypes
  BY DEF MemoryGet, RedisGet, RedisGetFails, FrontInv
<1>2. PICK k \in Sid : k = cookie[c]
  BY <1>1, FrontFacts DEF FrontInv, Local, Flushes, FrontTypes
<1>3. store \in [Sid -> Data \union {None}]
  BY <1>1 DEF FrontTypes
<1>4. CASE MemoryGet(c)
  <2>1. store' = [store EXCEPT ![k] = IF @ = None THEN 0 ELSE @] /\ clean' = clean
    BY <1>2, <1>4 DEF MemoryGet
  <2>2. store' \in [Sid -> Data \union {None}] /\ store'[k] = Stored(k) /\ Stored(k) \in Data
    BY <1>3, <2>1, FrontFacts DEF Stored
  <2>3. \A t \in Sid : Stored(t)' = Stored(t) /\ (t # k => store'[t] = store[t])
    BY <1>3, <2>1, FrontFacts DEF Stored
  <2>4. Resume(c, Session(k, Stored(k)))
    BY <1>2, <1>4, <2>2 DEF MemoryGet
  <2> QED
    BY <1>1, <1>2, <2>1, <2>2, <2>3, <2>4, ResumeKeeps
<1>5. CASE RedisGet(c)
  <2>1. store' = store /\ clean' = clean /\ Resume(c, Session(k, Stored(k)))
    BY <1>2, <1>5 DEF RedisGet, Stored
  <2>2. Stored(k) \in Data /\ \A t \in Sid : Stored(t)' = Stored(t)
    BY <1>3, <2>1, FrontFacts DEF Stored
  <2> QED
    BY <1>1, <1>2, <1>3, <2>1, <2>2, ResumeKeeps
<1>6. CASE RedisGetFails(c)
  <2>1. store' = store /\ clean' = [clean EXCEPT ![c] = FALSE] /\ Resume(c, Session(k, 0))
    BY <1>2, <1>6 DEF RedisGetFails
  <2>2. \A t \in Sid : Stored(t)' = Stored(t)
    BY <2>1 DEF Stored
  <2> QED
    BY <1>1, <1>2, <1>3, <2>1, <2>2, ResumeKeeps, FrontFacts
<1> QED
  BY <1>4, <1>5, <1>6

\* A request has ids of its own, and knows who else has its cookie.
LEMMA RequestSessions ==
    ASSUME FrontInv, NEW c \in Conn, phase[c] = "idle", begun < MaxRequests,
           begun' = begun + 1, req' = [req EXCEPT ![c] = begun + 1], cookie' = [cookie EXCEPT ![c] = jar],
           UNCHANGED <<jar, store, answer, last>>,
           clean' = LET others == {d \in Conn \ {c} : Works(d) /\ jar # None /\ cookie[d] = jar}
                    IN  [d \in Conn |-> IF d = c THEN others = {} ELSE clean[d] /\ d \notin others],
           \A d \in Conn : d # c => session'[d] = session[d] /\ saw'[d] = saw[d] /\ phase'[d] = phase[d],
           phase'[c] \in {"get", "hook", "handler", "ssi"},
           \/ session'[c] = None
           \/ jar = None /\ session'[c] = Session(OpenedId(begun + 1), 0) /\ saw'[c] = 0
    PROVE  Sessions'
<1>1. FrontTypes /\ Sessions /\ \A d \in Conn : Local(d)
  BY DEF FrontInv
<1>2. /\ begun \in Nat /\ begun + 1 \in Nat /\ begun + 1 <= MaxRequests /\ MaxRequests \in Nat
      /\ begun' \in Nat /\ 2 * begun' = 2 * begun + 2
  <2>1. begun \in Nat /\ MaxRequests \in Nat
    BY <1>1, FrontFacts DEF FrontTypes
  <2> QED
    BY <2>1
<1>3. /\ \A d \in Conn : d # c => req'[d] = req[d] /\ cookie'[d] = cookie[d]
      /\ req'[c] = begun + 1 /\ cookie'[c] = jar
      /\ \A d \in Conn : answer'[d] = answer[d]
      /\ session[c] = None /\ answer[c] = None /\ cookie[c] = None
  BY <1>1 DEF FrontTypes, Local, Reset
<1>4. PICK m \in Sid : m = OpenedId(begun + 1) /\ m = 2 * begun + 1 /\ m > 2 * begun
  <2>1. OpenedId(begun + 1) = 2 * begun + 1
    BY <1>2 DEF OpenedId
  <2>2. 2 * begun + 1 \in Sid /\ 2 * begun + 1 > 2 * begun
    BY <1>2 DEF Sid
  <2> QED
    BY <2>1, <2>2
<1>5. PICK w \in Sid : w = NewId(begun + 1) /\ w = 2 * begun + 2 /\ w > 2 * begun
  <2>1. NewId(begun + 1) = 2 * begun + 2
    BY <1>2 DEF NewId
  <2>2. 2 * begun + 2 \in Sid /\ 2 * begun + 2 > 2 * begun
    BY <1>2 DEF Sid
  <2> QED
    BY <2>1, <2>2
<1>6. ASSUME NEW t \in Sid, t > 2 * begun
      PROVE  (\A d \in Conn : ~Knows(d, t)) /\ jar # t /\ store[t] = None /\ last[t] = 0
  <2>1. t \in Nat /\ 2 * begun \in Nat
    BY <1>2, FrontFacts
  <2>2. ASSUME NEW d \in Conn, Knows(d, t) PROVE FALSE
    BY <1>1, <1>6, <2>1, <2>2 DEF Sessions, ToCome
  <2>3. jar # t
    BY <1>1, <1>6, <2>1, FrontFacts DEF Sessions, ToCome
  <2> QED
    BY <1>1, <1>6, <2>2, <2>3 DEF Sessions, ToCome
<1>7. /\ \A d \in Conn : d # c => SidOf(d)' = SidOf(d)
      /\ SidOf(c)' = None \/ (jar = None /\ SidOf(c)' = m /\ saw'[c] = 0)
  <2>1. Session(m, 0).sid = m /\ Session(m, 0) # None
    <3>1. Session(m, 0) \in SessionType
      BY <1>4, FrontFacts DEF Session, SessionType
    <3> QED
      BY <3>1, FrontFacts DEF Session
  <2>2. SidOf(c)' = None \/ (jar = None /\ SidOf(c)' = m /\ saw'[c] = 0)
    BY <1>4, <2>1 DEF SidOf
  <2> QED
    BY <2>2 DEF SidOf
<1>8. /\ \A d \in Conn : d # c => \A t \in Sid : (Knows(d, t)' <=> Knows(d, t)) /\ (Uses(d, t)' <=> Uses(d, t))
      /\ \A t \in Sid : Knows(c, t)' \/ Uses(c, t)' => t = jar \/ (t = m /\ SidOf(c)' = m)
  BY <1>3, <1>7, FrontFacts DEF Knows, Uses
<1>9. ASSUME NEW d \in Conn, d # c, jar # None, Uses(d, jar) PROVE Works(d) /\ cookie[d] = jar
  <2>1. ASSUME phase[d] = "idle" PROVE FALSE
    BY <1>1, <1>9, <2>1 DEF Local, Reset, Uses, SidOf
  <2>2. Own(d)
    BY <1>1 DEF Sessions
  <2> QED
    BY <1>9, <2>1, <2>2 DEF Works, Own, Uses
<1>10. PICK others : /\ others = {d \in Conn \ {c} : Works(d) /\ jar # None /\ cookie[d] = jar}
                     /\ clean' = [d \in Conn |-> IF d = c THEN others = {} ELSE clean[d] /\ d \notin others]
  OBVIOUS
<1>11. ASSUME NEW d \in Conn PROVE d # c => (clean'[d] => clean[d]) /\ (cookie[d] = jar /\ Works(d) /\ jar # None => ~clean'[d] /\ ~clean'[c])
  <2>1. SUFFICES ASSUME d # c PROVE (clean'[d] => clean[d]) /\ (cookie[d] = jar /\ Works(d) /\ jar # None => ~clean'[d] /\ ~clean'[c])
    OBVIOUS
  <2>2. clean'[d] = (clean[d] /\ d \notin others) /\ clean'[c] = (others = {})
    BY <1>10, <2>1
  <2>3. cookie[d] = jar /\ Works(d) /\ jar # None => d \in others
    BY <1>10, <2>1
  <2> QED
    BY <2>2, <2>3
<1>12. ToCome'
  <2>1. \A t \in Sid : t <= 2 * begun => t <= 2 * begun'
    BY <1>2, FrontFacts
  <2>2. m <= 2 * begun'
    BY <1>2, <1>4
  <2>3. jar' # None => jar' <= 2 * begun'
    BY <1>1, <2>1 DEF Sessions, ToCome, FrontTypes
  <2>4. ASSUME NEW d \in Conn, NEW t \in Sid, Knows(d, t)' PROVE t <= 2 * begun'
    <3>1. CASE d = c
      BY <1>8, <2>2, <2>3, <2>4, <3>1, FrontFacts
    <3>2. CASE d # c
      BY <1>1, <1>8, <2>1, <2>4, <3>2 DEF Sessions, ToCome
    <3> QED
      BY <3>1, <3>2
  <2>5. ASSUME NEW t \in Sid, t > 2 * begun' PROVE store'[t] = None /\ last'[t] = 0
    <3>1. t > 2 * begun
      BY <1>2, <2>5, FrontFacts
    <3> QED
      BY <1>6, <3>1
  <2> QED
    BY <2>3, <2>4, <2>5 DEF ToCome
<1>13. Alone'
  <2>1. SUFFICES ASSUME NEW d \in Conn, NEW e \in Conn, NEW t \in Sid, d # e, Uses(d, t)', Uses(e, t)' PROVE ~clean'[d]
    BY DEF Alone
  <2>2. ASSUME NEW a \in Conn, a # c, Uses(a, t)', Uses(c, t)' PROVE ~clean'[a] /\ ~clean'[c]
    <3>1. Uses(a, t)
      BY <1>8, <2>2
    <3>2. t # m
      BY <1>4, <1>6, <3>1 DEF Knows, Uses
    <3>3. t = jar /\ jar # None
      BY <1>8, <2>2, <3>2, FrontFacts
    <3> QED
      BY <1>9, <1>11, <2>2, <3>1, <3>3
  <2>3. CASE d = c \/ e = c
    BY <2>1, <2>2, <2>3
  <2>4. CASE d # c /\ e # c
    BY <1>1, <1>8, <1>11, <2>1, <2>4 DEF Sessions, Alone
  <2> QED
    BY <2>3, <2>4
<1>14. Kept'
  <2>1. ASSUME NEW d \in Conn, NEW t \in Sid, Saved(d, t) PROVE Saved(d, t)'
    <3>1. d # c
      BY <2>1 DEF Saved
    <3> QED
      BY <1>7, <2>1, <3>1 DEF Saved
  <2>2. \A t \in Sid : Stored(t)' = Stored(t)
    BY DEF Stored
  <2> QED
    BY <1>1, <2>1, <2>2 DEF Sessions, Kept
<1>15. ASSUME NEW d \in Conn, d # c, phase[d] # "idle"
       PROVE  /\ req[d] \in 1 .. begun /\ req[d] # begun + 1
              /\ \A s \in {OpenedId(req[d]), NewId(req[d])} : s \in Sid /\ s # m
  <2>1. req[d] \in 1 .. begun
    BY <1>1, <1>15 DEF Sessions, Own
  <2>2. req[d] \in Nat /\ req[d] <= begun /\ req[d] >= 1
    BY <1>2, <2>1
  <2>3. OpenedId(req[d]) \in Sid /\ OpenedId(req[d]) # m
    BY <1>2, <1>4, <2>2 DEF OpenedId, Sid
  <2>4. NewId(req[d]) \in Sid /\ NewId(req[d]) # m
    BY <1>2, <1>4, <2>2 DEF NewId, Sid
  <2> QED
    BY <1>2, <2>1, <2>2, <2>3, <2>4
<1>16. ASSUME NEW d \in Conn PROVE Own(d)'
  <2>1. CASE d = c
    <3>1. req'[c] \in 1 .. begun'
      BY <1>2, <1>3
    <3>2. ASSUME NEW e \in Conn, e # c, phase'[e] # "idle" PROVE req'[e] # req'[c]
      BY <1>3, <1>15, <3>2
    <3>3. ASSUME NEW t \in {m, w} PROVE jar # t /\ cookie'[c] # t /\ \A e \in Conn : e # c => ~Knows(e, t)'
      BY <1>3, <1>4, <1>5, <1>6, <1>8, <3>3
    <3>4. SidOf(c)' \in {None, IF cookie'[c] = None THEN m ELSE cookie'[c]}
      BY <1>3, <1>7
    <3>5. last'[m] = 0 /\ store'[m] = None
      BY <1>4, <1>6
    <3> QED
      BY <1>3, <1>4, <1>5, <2>1, <3>1, <3>2, <3>3, <3>4, <3>5 DEF Own
  <2>2. CASE d # c
    <3>1. SUFFICES ASSUME phase[d] # "idle" PROVE Own(d)'
      BY <2>2 DEF Own
    <3>2. Own(d)
      BY <1>1 DEF Sessions
    <3>3. req'[d] \in 1 .. begun'
      BY <1>2, <1>3, <1>15, <2>2, <3>1
    <3>4. ASSUME NEW e \in Conn, e # d, phase'[e] # "idle" PROVE req'[e] # req'[d]
      BY <1>3, <1>15, <2>2, <3>1, <3>2, <3>4 DEF Own
    <3>5. ASSUME NEW t \in {OpenedId(req[d]), NewId(req[d])}
          PROVE  jar # t /\ cookie'[d] # t /\ \A e \in Conn : e # d => ~Knows(e, t)'
      <4>1. jar # t /\ cookie[d] # t /\ (\A e \in Conn : e # d => ~Knows(e, t)) /\ t \in Sid /\ t # m
        BY <1>15, <2>2, <3>1, <3>2, <3>5 DEF Own
      <4> QED
        BY <1>3, <1>8, <2>2, <4>1
    <3> QED
      BY <1>3, <1>7, <2>2, <3>1, <3>2, <3>3, <3>4, <3>5 DEF Own
  <2> QED
    BY <2>1, <2>2
<1>17. ASSUME NEW d \in Conn PROVE Wrote(d)' /\ SawLast(d)'
  <2>1. CASE d = c
    <3>1. Wrote(d)'
      BY <2>1 DEF Wrote
    <3>2. SawLast(d)'
      BY <1>4, <1>6, <1>7, <2>1 DEF SawLast
    <3> QED
      BY <3>1, <3>2
  <2>2. CASE d # c
    <3>1. Wrote(d) /\ SawLast(d)
      BY <1>1 DEF Sessions
    <3> QED
      BY <1>7, <1>11, <2>2, <3>1 DEF Wrote, SawLast, Stored
  <2> QED
    BY <2>1, <2>2
<1> QED
  BY <1>12, <1>13, <1>14, <1>16, <1>17 DEF Sessions

LEMMA RequestKeeps ==
    ASSUME FrontInv, NEW c \in Conn, Request(c)
    PROVE  FrontInv'
<1>1. FrontTypes /\ Sessions /\ Local(c) /\ Flushes(c) /\ Parts(c) /\ Reset(c)
  BY DEF FrontInv, Local
<1>2. /\ phase[c] = "idle" /\ begun < MaxRequests /\ begun' = begun + 1
      /\ req' = [req EXCEPT ![c] = begun + 1] /\ cookie' = [cookie EXCEPT ![c] = jar]
      /\ UNCHANGED <<before, provider, jar, store, answer, last>>
      /\ clean' = LET others == {d \in Conn \ {c} : Works(d) /\ jar # None /\ cookie[d] = jar}
                  IN  [d \in Conn |-> IF d = c THEN others = {} ELSE clean[d] /\ d \notin others]
  BY DEF Request, Busy, setup
<1>3. PICK r \in Route : /\ route' = [route EXCEPT ![c] = r]
                         /\ IF r = "missing" THEN NotFound(c) ELSE HandleRequest(c, r, jar)
  BY DEF Request
<1>4. session[c] = None /\ answer[c] = None /\ resolves_[c] = <<>> /\ UsedUp(c)
  BY <1>1, <1>2 DEF Reset, Flushes
<1>5. begun + 1 \in 1 .. MaxRequests /\ begun' \in 0 .. MaxRequests
  BY <1>1, <1>2, FrontFacts DEF FrontTypes
<1>6. clean' \in [Conn -> BOOLEAN]
  BY <1>1, <1>2 DEF FrontTypes
<1>7. req' \in [Conn -> 0 .. MaxRequests] /\ cookie' \in [Conn -> Sid \union {None}] /\ route' \in [Conn -> Route]
      /\ route'[c] = r /\ \A d \in Conn : d # c => req'[d] = req[d] /\ cookie'[d] = cookie[d] /\ route'[d] = route[d]
  <2>1. begun + 1 \in 0 .. MaxRequests
    BY <1>5
  <2> QED
    BY <1>1, <1>2, <1>3, <2>1 DEF FrontTypes
<1>8. CASE r = "missing"
  <2>1. /\ phase' = [phase EXCEPT ![c] = "hook"]
        /\ UNCHANGED <<it_, session, flush_chain, flush_it, include, resolves_, cnt_, saw>>
    BY <1>3, <1>8 DEF NotFound, flushing, page
  <2>2. FrontTypes'
    BY <1>1, <1>2, <1>5, <1>6, <1>7, <2>1 DEF FrontTypes, Phase
  <2>3. phase'[c] = "hook" /\ \A d \in Conn : d # c => phase'[d] = phase[d]
    BY <1>1, <2>1 DEF FrontTypes
  <2>4. \A d \in Conn : d # c => Same(d)
    BY <1>2, <1>7, <2>1, <2>3 DEF Same
  <2>5. Local(c)'
    <3>1. Reset(c)' /\ Parts(c)'
      BY <1>4, <2>1, <2>3 DEF Reset, Parts
    <3>2. Flushes(c)'
      BY <1>2, <1>4, <1>7, <1>8, <2>1, <2>3 DEF Flushes, UsedUp, Filtered
    <3> QED
      BY <3>1, <3>2 DEF Local
  <2>6. Sessions'
    <3>1. /\ \A d \in Conn : d # c => session'[d] = session[d] /\ saw'[d] = saw[d] /\ phase'[d] = phase[d]
          /\ phase'[c] \in {"get", "hook", "handler", "ssi"} /\ session'[c] = None
      BY <1>4, <2>1, <2>3
    <3> QED
      BY <1>2, <3>1, RequestSessions
  <2> QED
    BY <1>2, <2>2, <2>4, <2>5, <2>6, OneConnection DEF FrontInv
<1>9. CASE r # "missing"
  <2>1. r \in {"page", "ssi", "plain"}
    BY <1>9 DEF Route
  <2>2. /\ flush_chain' = [flush_chain EXCEPT ![c] = FlushChain(r)] /\ flush_it' = [flush_it EXCEPT ![c] = 1]
        /\ RunChain(c, begun + 1, r, jar, 1, None)
    BY <1>3, <1>9 DEF HandleRequest
  <2>3. \E o, p, j : Ran(c, begun + 1, r, jar, None, o, p, j)
    <3>1. 1 \in 1 .. 3 /\ (1 = 1 /\ None = None)
      OBVIOUS
    <3> QED
      BY <1>1, <2>1, <2>2, <3>1, RunChainDoes
  <2>4. PICK o, p, j : Ran(c, begun + 1, r, jar, None, o, p, j)
    BY <2>3
  <2>5. RanTo(c, o, p, j)
    BY <1>1, <1>2, <1>5, <2>4, RanLeaves
  <2>6. /\ p \in {"get", "hook", "handler", "ssi"} /\ (r = "plain" => p = "handler" /\ o = None)
        /\ p = "get" => o = None /\ jar # None /\ r \in Filtered /\ before[j] = "session"
        /\ j \in 1 .. 3
        /\ o = None \/ (jar = None /\ r \in Filtered /\ o = Session(OpenedId(begun + 1), 0))
    BY <2>4 DEF Ran, Filtered
  <2>7. FlushChain(r) \in {<<"flush">>, <<"session", "flush">>} /\ (r \in Filtered => FlushChain(r) = <<"session", "flush">>)
        /\ (r = "plain" => FlushChain(r) = <<"flush">>)
    BY DEF FlushChain, Filtered
  <2>8. /\ flush_chain' \in [Conn -> {<<>>, <<"flush">>, <<"session", "flush">>}] /\ flush_it' \in [Conn -> Nat]
        /\ flush_chain'[c] = FlushChain(r) /\ flush_it'[c] = 1
        /\ \A d \in Conn : d # c => flush_chain'[d] = flush_chain[d] /\ flush_it'[d] = flush_it[d]
    BY <1>1, <2>2, <2>7 DEF FrontTypes
  <2>9. FrontTypes'
    BY <1>1, <1>2, <1>5, <1>6, <1>7, <2>5, <2>8 DEF FrontTypes, RanTo
  <2>10. \A d \in Conn : d # c => Same(d)
    BY <1>2, <1>7, <2>5, <2>8 DEF Same, RanTo
  <2>11. phase'[c] = p /\ session'[c] = o /\ it_'[c] = j /\ answer'[c] = None /\ cookie'[c] = jar
    BY <1>1, <1>2, <1>4, <2>5 DEF RanTo, FrontTypes
  <2>12. Local(c)'
    <3>1. Reset(c)'
      BY <2>6, <2>11 DEF Reset
    <3>2. Flushes(c)'
      <4>1. CASE r = "plain"
        BY <1>7, <2>6, <2>7, <2>8, <2>11, <4>1 DEF Flushes, Filtered
      <4>2. CASE r \in Filtered
        BY <1>2, <1>7, <2>6, <2>7, <2>8, <2>11, <4>2 DEF Flushes, Filtered
      <4> QED
        BY <2>1, <4>1, <4>2 DEF Filtered
    <3> QED
      BY <2>5, <3>1, <3>2 DEF Local, RanTo
  <2>13. Sessions'
    <3>1. \A d \in Conn : d # c => session'[d] = session[d] /\ saw'[d] = saw[d] /\ phase'[d] = phase[d]
      BY <2>10 DEF Same
    <3>2. session'[c] = None \/ (jar = None /\ session'[c] = Session(OpenedId(begun + 1), 0) /\ saw'[c] = 0)
      <4>1. ASSUME o # None PROVE saw'[c] = 0
        BY <2>5, <2>6, <4>1 DEF RanTo, Session
      <4> QED
        BY <2>6, <2>11, <4>1
    <3> QED
      BY <1>2, <2>6, <2>11, <3>1, <3>2, RequestSessions
  <2> QED
    BY <1>2, <2>9, <2>10, <2>12, <2>13, OneConnection DEF FrontInv
<1> QED
  BY <1>8, <1>9

\* A session is too old.
LEMMA ExpireKeeps ==
    ASSUME FrontInv, NEW s \in Sid, Expire(s)
    PROVE  FrontInv'
<1>1. FrontTypes /\ Sessions
  BY DEF FrontInv
<1>2. /\ store[s] # None /\ store' = [store EXCEPT ![s] = None] /\ last' = [last EXCEPT ![s] = None]
      /\ UNCHANGED <<before, provider, jar, begun, phase, req, route, cookie, it_, session, answer, flush_chain, flush_it,
                     include, resolves_, cnt_, saw>>
      /\ clean' = [c \in Conn |-> clean[c] /\ ~(Busy(c) /\ (cookie[c] = s \/ (session[c] # None /\ session[c].sid = s)))]
  BY DEF Expire, setup, flushing, page
<1>3. /\ \A t \in Sid : t # s => store'[t] = store[t] /\ last'[t] = last[t]
      /\ store'[s] = None /\ last'[s] = None
      /\ store' \in [Sid -> Data \union {None}] /\ last' \in [Sid -> Data \union {None}] /\ clean' \in [Conn -> BOOLEAN]
  BY <1>1, <1>2 DEF FrontTypes
<1>4. FrontTypes'
  BY <1>1, <1>2, <1>3 DEF FrontTypes
<1>5. \A d \in Conn : Local(d)'
  <2>1. \A d \in Conn : Same(d)
    BY <1>2 DEF Same
  <2> QED
    BY <1>2, <2>1, LocalFrame DEF FrontInv
<1>6. \A d \in Conn : SidOf(d)' = SidOf(d)
  BY <1>2 DEF SidOf
<1>7. \A d \in Conn : \A t : Knows(d, t)' = Knows(d, t) /\ Uses(d, t)' = Uses(d, t)
  BY <1>2, <1>6 DEF Knows, Uses
<1>8. ASSUME NEW d \in Conn, clean'[d] PROVE clean[d] /\ (Busy(d) => SidOf(d) # s)
  BY <1>2, <1>8, FrontFacts DEF SidOf
<1>9. ToCome'
  <2>1. ~(s > 2 * begun)
    BY <1>1, <1>2 DEF Sessions, ToCome
  <2>2. ASSUME NEW t \in Sid, t > 2 * begun PROVE store'[t] = None /\ last'[t] = 0
    BY <1>1, <1>3, <2>1, <2>2 DEF Sessions, ToCome
  <2> QED
    BY <1>1, <1>2, <1>7, <2>2 DEF Sessions, ToCome
<1>10. Alone'
  BY <1>1, <1>7, <1>8 DEF Sessions, Alone
<1>11. Kept'
  <2>1. \A d \in Conn : \A t \in Sid : Saved(d, t)' = Saved(d, t)
    BY <1>2, <1>6 DEF Saved
  <2> QED
    BY <1>1, <1>3, <2>1 DEF Sessions, Kept, Stored
<1>12. ASSUME NEW d \in Conn PROVE Own(d)'
  <2>1. SUFFICES ASSUME phase[d] # "idle" PROVE Own(d)'
    BY <1>2 DEF Own
  <2>2. Own(d)
    BY <1>1 DEF Sessions
  <2>3. OpenedId(req[d]) \in Sid
    <3>1. req[d] \in 1 .. begun /\ begun <= MaxRequests /\ begun \in Nat /\ MaxRequests \in Nat
      BY <1>1, <2>1, <2>2, FrontFacts DEF Own, FrontTypes
    <3> QED
      BY <3>1 DEF OpenedId, Sid
  <2>4. SidOf(d) = None => last'[OpenedId(req[d])] = 0 /\ store'[OpenedId(req[d])] = None
    BY <1>2, <1>3, <2>1, <2>2, <2>3 DEF Own
  <2> QED
    BY <1>2, <1>6, <1>7, <2>1, <2>2, <2>4 DEF Own
<1>13. ASSUME NEW d \in Conn PROVE Wrote(d)' /\ SawLast(d)'
  <2>1. Wrote(d) /\ SawLast(d)
    BY <1>1 DEF Sessions
  <2>2. Wrote(d)'
    <3>1. SUFFICES ASSUME phase[d] \in {"write", "stuck"}, SidOf(d) # None, clean'[d] PROVE Wrote(d)'
      BY <1>2, <1>6 DEF Wrote
    <3>2. SidOf(d) # s /\ SidOf(d) \in Sid /\ clean[d]
      BY <1>1, <1>8, <3>1, SidFacts DEF Busy
    <3> QED
      BY <1>2, <1>3, <1>6, <2>1, <3>1, <3>2 DEF Wrote, Stored
  <2>3. SawLast(d)'
    BY <1>1, <1>2, <1>3, <1>6, <1>8, <2>1, SidFacts DEF SawLast
  <2> QED
    BY <2>2, <2>3
<1>14. Sessions'
  BY <1>9, <1>10, <1>11, <1>12, <1>13 DEF Sessions
<1> QED
  BY <1>4, <1>5, <1>14 DEF FrontInv

\* A response has gone out, or its connection has gone.
LEMMA EndKeeps ==
    ASSUME FrontInv, NEW c \in Conn, Written(c) \/ WriteFails(c)
    PROVE  FrontInv'
<1>1. FrontTypes /\ Sessions /\ Local(c) /\ Flushes(c) /\ Own(c) /\ Wrote(c)
  BY DEF FrontInv, Local, Sessions
<1>2. PICK kept \in BOOLEAN : EndRequest(c, kept)
  BY DEF Written, WriteFails
<1>3. phase[c] = "write" /\ (jar' = jar \/ (jar' = answer[c] /\ answer[c] # None))
  BY DEF Written, WriteFails
<1>4. PICK s : s = SidOf(c)
  OBVIOUS
<1>5. PICK v : v = IF ~clean[c] THEN None ELSE IF session[c].valid THEN session[c].data ELSE 0
  OBVIOUS
<1>6. /\ phase' = [phase EXCEPT ![c] = "idle"] /\ req' = [req EXCEPT ![c] = 0] /\ route' = [route EXCEPT ![c] = "missing"]
      /\ cookie' = [cookie EXCEPT ![c] = None] /\ it_' = [it_ EXCEPT ![c] = 1] /\ session' = [session EXCEPT ![c] = None]
      /\ answer' = [answer EXCEPT ![c] = None] /\ saw' = [saw EXCEPT ![c] = None] /\ clean' = [clean EXCEPT ![c] = TRUE]
      /\ include' = [include EXCEPT ![c] = <<>>] /\ resolves_' = [resolves_ EXCEPT ![c] = <<>>]
      /\ UNCHANGED <<before, provider, store, begun, cnt_>>
  BY <1>2 DEF EndRequest, setup
<1>7. /\ s = None => last' = last
      /\ s # None => s \in Sid /\ v \in Data \union {None} /\ last' = [last EXCEPT ![s] = v] /\ (v # None => Stored(s) = v)
  <2>1. s = None => last' = last
    BY <1>1, <1>2, <1>4, SidFacts DEF EndRequest
  <2>2. ASSUME s # None
        PROVE  s \in Sid /\ v \in Data \union {None} /\ last' = [last EXCEPT ![s] = v] /\ (v # None => Stored(s) = v)
    <3>1. session[c] # None /\ session[c] \in SessionType /\ s = session[c].sid /\ route[c] \in Filtered
      BY <1>1, <1>4, <2>2, SidFacts DEF Flushes
    <3>2. s \in Sid /\ v \in Data \union {None}
      BY <1>5, <3>1, FrontFacts DEF SessionType
    <3>3. last' = [last EXCEPT ![s] = v]
      BY <1>2, <1>5, <3>1 DEF EndRequest
    <3>4. v # None => Stored(s) = v
      BY <1>1, <1>3, <1>4, <1>5, <2>2 DEF Wrote
    <3> QED
      BY <3>2, <3>3, <3>4
  <2> QED
    BY <2>1, <2>2
<1>8. /\ flush_chain' \in [Conn -> {<<>>, <<"flush">>, <<"session", "flush">>}] /\ flush_it' \in [Conn -> Nat]
      /\ \A d \in Conn : d # c => flush_chain'[d] = flush_chain[d] /\ flush_it'[d] = flush_it[d]
      /\ (flush_chain'[c] = flush_chain[c] /\ flush_it'[c] = flush_it[c]) \/ flush_chain'[c] = <<>>
  <2>1. CASE kept
    BY <1>1, <1>2, <2>1 DEF EndRequest, flushing, FrontTypes
  <2>2. CASE ~kept
    <3>1. flush_chain' = [flush_chain EXCEPT ![c] = <<>>] /\ flush_it' = [flush_it EXCEPT ![c] = 1]
      BY <1>2, <2>2 DEF EndRequest
    <3>2. /\ flush_chain \in [Conn -> {<<>>, <<"flush">>, <<"session", "flush">>}] /\ flush_it \in [Conn -> Nat]
          /\ 1 \in Nat /\ <<>> \in {<<>>, <<"flush">>, <<"session", "flush">>}
      BY <1>1 DEF FrontTypes
    <3> QED
      BY ONLY <3>1, <3>2
  <2> QED
    BY <2>1, <2>2
<1>9. /\ \A d \in Conn : d # c =>
            /\ phase'[d] = phase[d] /\ req'[d] = req[d] /\ route'[d] = route[d] /\ cookie'[d] = cookie[d]
            /\ it_'[d] = it_[d] /\ session'[d] = session[d] /\ answer'[d] = answer[d] /\ saw'[d] = saw[d]
            /\ clean'[d] = clean[d] /\ include'[d] = include[d] /\ resolves_'[d] = resolves_[d] /\ cnt_'[d] = cnt_[d]
      /\ phase'[c] = "idle" /\ route'[c] = "missing" /\ cookie'[c] = None /\ session'[c] = None /\ answer'[c] = None
      /\ resolves_'[c] = <<>>
  BY <1>1, <1>6 DEF FrontTypes
<1>10. FrontTypes'
  <2>1. last' \in [Sid -> Data \union {None}] /\ jar' \in Sid \union {None}
    BY <1>1, <1>3, <1>7 DEF FrontTypes
  <2>2. <<>> \in Seq({"asked", "flushed", "done"}) /\ <<>> \in Seq((1 .. Includes) \union {None})
    OBVIOUS
  <2>3. 0 \in 0 .. MaxRequests
    BY FrontFacts
  <2> QED
    BY <1>1, <1>6, <1>8, <2>1, <2>2, <2>3 DEF FrontTypes, Phase, Route
<1>11. \A d \in Conn : d # c => Same(d)
  BY <1>8, <1>9 DEF Same
<1>12. Local(c)'
  <2>1. Reset(c)' /\ Parts(c)'
    BY <1>9 DEF Reset, Parts
  <2>2. UsedUp(c)
    <3>1. Len(<<"flush">>) = 1 /\ Len(<<"session", "flush">>) = 2
      OBVIOUS
    <3>2. route[c] = "missing" \/ route[c] = "plain" \/ route[c] \in Filtered
      BY <1>1 DEF FrontTypes, Route, Filtered
    <3> QED
      BY <1>1, <1>3, <3>1, <3>2 DEF Flushes, UsedUp
  <2>3. Flushes(c)'
    BY <1>8, <1>9, <2>2 DEF Flushes, UsedUp, Filtered
  <2> QED
    BY <2>1, <2>3 DEF Local
<1>13. SidOf(c)' = None /\ \A d \in Conn : d # c => SidOf(d)' = SidOf(d)
  BY <1>9 DEF SidOf
<1>14. \A d \in Conn : \A t \in Sid : /\ Knows(d, t)' => d # c /\ Knows(d, t)
                                      /\ Uses(d, t)' => d # c /\ Uses(d, t)
  BY <1>9, <1>13, FrontFacts DEF Knows, Uses
<1>15. s # None => Knows(c, s) /\ Uses(c, s)
  BY <1>4 DEF Knows, Uses
<1>16. \A t \in Sid : t # s => last'[t] = last[t]
  BY <1>1, <1>7 DEF FrontTypes
<1>17. ToCome'
  <2>1. jar' # None => jar' <= 2 * begun
    <3>1. ASSUME jar' = answer[c], answer[c] # None PROVE jar' <= 2 * begun
      <4>1. answer[c] \in Sid /\ Knows(c, answer[c])
        BY <1>1, <3>1 DEF FrontTypes, Knows
      <4> QED
        BY <1>1, <3>1, <4>1 DEF Sessions, ToCome
    <3> QED
      BY <1>1, <1>3, <3>1 DEF Sessions, ToCome
  <2>2. ASSUME NEW t \in Sid, t > 2 * begun PROVE store'[t] = None /\ last'[t] = 0
    <3>1. t # s
      <4>1. ASSUME t = s PROVE FALSE
        <5>1. s <= 2 * begun
          BY <1>1, <1>15, <4>1, FrontFacts DEF Sessions, ToCome
        <5>2. t \in Nat /\ 2 * begun \in Nat
          BY <1>1, FrontFacts DEF FrontTypes
        <5> QED
          BY <2>2, <4>1, <5>1, <5>2
      <4> QED
        BY <4>1
    <3> QED
      BY <1>1, <1>6, <1>16, <2>2, <3>1 DEF Sessions, ToCome
  <2> QED
    BY <1>1, <1>6, <1>14, <2>1, <2>2 DEF Sessions, ToCome
<1>18. Alone'
  BY <1>1, <1>9, <1>14 DEF Sessions, Alone
<1>19. Kept'
  <2>1. ASSUME NEW t \in Sid, last'[t] # None PROVE Stored(t)' = last'[t] \/ \E d \in Conn : Saved(d, t)'
    <3>1. Stored(t)' = Stored(t)
      BY <1>6 DEF Stored
    <3>2. CASE t = s
      <4>1. last'[t] = v
        BY <1>1, <1>7, <2>1, <3>2, FrontFacts DEF FrontTypes
      <4> QED
        BY <1>7, <2>1, <3>1, <3>2, <4>1, FrontFacts
    <3>3. CASE t # s
      <4>1. ASSUME NEW d \in Conn, Saved(d, t) PROVE Saved(d, t)'
        <5>1. d # c
          BY <1>4, <3>3, <4>1 DEF Saved
        <5> QED
          BY <1>9, <1>13, <4>1, <5>1 DEF Saved
      <4> QED
        BY <1>1, <1>16, <2>1, <3>1, <3>3, <4>1 DEF Sessions, Kept
    <3> QED
      BY <3>2, <3>3
  <2> QED
    BY <2>1 DEF Kept
<1>20. ASSUME NEW d \in Conn PROVE Own(d)'
  <2>1. CASE d = c
    BY <1>9, <2>1 DEF Own
  <2>2. CASE d # c
    <3>1. SUFFICES ASSUME phase[d] # "idle" PROVE Own(d)'
      BY <1>9, <2>2 DEF Own
    <3>2. Own(d)
      BY <1>1 DEF Sessions
    <3>3. OpenedId(req[d]) \in Sid /\ NewId(req[d]) \in Sid
      <4>1. req[d] \in 1 .. begun /\ begun <= MaxRequests /\ begun \in Nat /\ MaxRequests \in Nat
        BY <1>1, <3>1, <3>2, FrontFacts DEF Own, FrontTypes
      <4> QED
        BY <4>1 DEF OpenedId, NewId, Sid
    <3>4. ASSUME NEW t \in {OpenedId(req[d]), NewId(req[d])}
          PROVE  t \in Sid /\ jar' # t /\ cookie'[d] # t /\ \A e \in Conn : e # d => ~Knows(e, t)'
      <4>1. jar # t /\ cookie[d] # t /\ (\A e \in Conn : e # d => ~Knows(e, t)) /\ t \in Sid
        BY <3>1, <3>2, <3>3, <3>4 DEF Own
      <4>2. answer[c] # t
        BY <2>2, <4>1 DEF Knows
      <4> QED
        BY <1>3, <1>9, <1>14, <2>2, <4>1, <4>2
    <3>5. SidOf(d) = None => last'[OpenedId(req[d])] = 0 /\ store'[OpenedId(req[d])] = None
      <4>1. OpenedId(req[d]) # s
        BY <1>15, <2>2, <3>1, <3>2, <3>3, FrontFacts DEF Own
      <4> QED
        BY <1>6, <1>16, <3>1, <3>2, <3>3, <4>1 DEF Own
    <3>6. \A e \in Conn : e # d /\ phase'[e] # "idle" => req'[e] # req'[d]
      BY <1>9, <2>2, <3>1, <3>2 DEF Own
    <3> QED
      BY <1>6, <1>9, <1>13, <2>2, <3>1, <3>2, <3>4, <3>5, <3>6 DEF Own
  <2> QED
    BY <2>1, <2>2
<1>21. ASSUME NEW d \in Conn PROVE Wrote(d)' /\ SawLast(d)'
  <2>1. CASE d = c
    BY <1>9, <1>13, <2>1 DEF Wrote, SawLast
  <2>2. CASE d # c
    <3>1. Wrote(d) /\ SawLast(d)
      BY <1>1 DEF Sessions
    <3>2. Wrote(d)'
      BY <1>6, <1>9, <1>13, <2>2, <3>1 DEF Wrote, Stored
    <3>3. ASSUME SidOf(d) # None, SidOf(d) = s PROVE ~clean[d]
      <4>1. s \in Sid /\ Uses(d, s) /\ Uses(c, s)
        BY <1>7, <1>15, <3>3 DEF Uses
      <4> QED
        BY <1>1, <2>2, <4>1 DEF Sessions, Alone
    <3>4. SawLast(d)'
      BY <1>1, <1>9, <1>13, <1>16, <2>2, <3>1, <3>3, SidFacts DEF SawLast
    <3> QED
      BY <3>2, <3>4
  <2> QED
    BY <2>1, <2>2
<1>22. Sessions'
  BY <1>17, <1>18, <1>19, <1>20, <1>21 DEF Sessions
<1> QED
  BY <1>6, <1>10, <1>11, <1>12, <1>22, OneConnection DEF FrontInv

-----------------------------------------------------------------------------
LEMMA NextFront == FrontInv /\ [Next]_vars => FrontInv'
<1> SUFFICES ASSUME FrontInv, [Next]_vars PROVE FrontInv'
  OBVIOUS
<1>1. CASE UNCHANGED vars
  <2>1. UNCHANGED <<before, provider, jar, store, begun, phase, req, route, cookie, it_, session, answer, flush_chain, flush_it,
                    include, resolves_, cnt_, clean, saw, last>>
    BY <1>1 DEF vars, server, setup, flushing, page
  <2>2. FrontTypes'
    BY <2>1 DEF FrontInv, FrontTypes
  <2>3. \A d \in Conn : Local(d)'
    BY <2>1, LocalFrame DEF FrontInv, Same
  <2>4. \A d \in Conn : SidOf(d)' = SidOf(d)
    BY <2>1 DEF SidOf
  <2>5. \A d \in Conn : \A t : Knows(d, t)' = Knows(d, t) /\ Uses(d, t)' = Uses(d, t) /\ Saved(d, t)' = Saved(d, t)
    BY <2>1, <2>4 DEF Knows, Uses, Saved
  <2>6. \A t : Stored(t)' = Stored(t)
    BY <2>1 DEF Stored
  <2>7. ToCome' /\ Alone' /\ Kept'
    BY <2>1, <2>5, <2>6 DEF FrontInv, Sessions, ToCome, Alone, Kept
  <2>8. \A d \in Conn : Own(d)' /\ Wrote(d)' /\ SawLast(d)'
    BY <2>1, <2>4, <2>5, <2>6 DEF FrontInv, Sessions, Own, Wrote, SawLast
  <2> QED
    BY <2>2, <2>3, <2>7, <2>8 DEF FrontInv, Sessions
<1>2. ASSUME NEW c \in Conn, Request(c) \/ Proceed(c) PROVE FrontInv'
  BY <1>2, RequestKeeps, GetKeeps, SaveKeeps, HandlerKeeps, SubKeeps, FlushKeeps, EndKeeps DEF Proceed, SessionStep, SubStep
<1>3. ASSUME NEW s \in Sid, Expire(s) PROVE FrontInv'
  BY <1>3, ExpireKeeps
<1> QED
  BY <1>1, <1>2, <1>3 DEF Next

\* The invariant of a server of one browser
THEOREM FrontInvariant == Spec => []FrontInv
<1> QED
  BY InitFront, NextFront, PTL DEF Spec

LEMMA FrontSafe == FrontInv => SessionKept /\ FlushFiltersRun /\ IncludesInPlace
<1> SUFFICES ASSUME FrontInv PROVE SessionKept /\ FlushFiltersRun /\ IncludesInPlace
  OBVIOUS
<1>1. ASSUME NEW c \in Conn
      PROVE  FrontTypes /\ Local(c) /\ Flushes(c) /\ Parts(c) /\ Own(c) /\ SawLast(c)
  BY DEF FrontInv, Local, Sessions
<1>2. SessionKept
  BY <1>1, SidFacts, FrontFacts DEF SessionKept, SawLast
<1>3. ASSUME NEW c \in Conn, phase[c] = "write"
      PROVE  IF route[c] \in Filtered
             THEN /\ session[c] # None /\ answer[c] # None
                  /\ session[c].valid <=> answer[c] = session[c].sid
                  /\ answer[c] # jar \/ session[c].valid
             ELSE answer[c] = None
  <2>1. CASE route[c] \in Filtered
    <3>1. /\ session[c] # None /\ session[c] \in SessionType
          /\ answer[c] = IF session[c].valid THEN session[c].sid ELSE NewId(req[c])
          /\ SidOf(c) = session[c].sid
      BY <1>1, <1>3, <2>1, SidFacts DEF Flushes
    <3>2. req[c] \in 1 .. begun /\ begun \in Nat /\ begun <= MaxRequests /\ MaxRequests \in Nat
      BY <1>1, <1>3, FrontFacts DEF Own, FrontTypes
    <3>3. NewId(req[c]) \in Sid /\ NewId(req[c]) # OpenedId(req[c])
      BY <3>2 DEF NewId, OpenedId, Sid
    <3>4. jar # NewId(req[c]) /\ cookie[c] # NewId(req[c])
      BY <1>1, <1>3 DEF Own
    <3>5. SidOf(c) # NewId(req[c])
      BY <1>1, <1>3, <3>1, <3>3, <3>4, FrontFacts DEF Own
    <3> QED
      BY <2>1, <3>1, <3>3, <3>4, <3>5, FrontFacts DEF SessionType
  <2>2. CASE route[c] \notin Filtered
    BY <1>1, <2>2 DEF Flushes
  <2> QED
    BY <2>1, <2>2
<1>4. FlushFiltersRun
  BY <1>3 DEF FlushFiltersRun
<1>5. IncludesInPlace
  BY <1>1 DEF IncludesInPlace, Parts
<1> QED
  BY <1>2, <1>4, <1>5

\* A request finds its session as the last one left it (MemorySessionProvider,
\* RedisSessionProvider and SessionFilter), for any number of connections and requests.
THEOREM SessionKeptHolds == Spec => []SessionKept
<1> QED
  BY InitFront, NextFront, FrontSafe, PTL DEF Spec

\* A response goes out with what its own flush filters have made of it (make_filter_chain()
\* and the chain a conversation keeps), for any number of connections and requests.
THEOREM FlushFiltersRunHolds == Spec => []FlushFiltersRun
<1> QED
  BY InitFront, NextFront, FrontSafe, PTL DEF Spec

\* An SSI page has each include in its place (SSIResolver), for any number of includes.
THEOREM IncludesInPlaceHolds == Spec => []IncludesInPlace
<1> QED
  BY InitFront, NextFront, FrontSafe, PTL DEF Spec

(***************************************************************************)
(* WebSocket                                                               *)
(***************************************************************************)

\* At most one tick, of run() or of a write, with no read beside it; of a write, under pending_.
OneTick ==
    \/ ticks = <<>>
    \/ \E k \in {"run", "wrote", "unwritten"} :
          /\ ticks = <<Tick(k, "none", 0)>>
          /\ rd = NoRead
          /\ k # "run" => pending_ = TRUE

\* After onClose_ nothing is left that could call back.
Disposed == closes > 0 => con_ = FALSE /\ rd = NoRead /\ ticks = <<>>

TcpInv == class = "tcp" => writing = FALSE /\ closes \in Nat /\ OneTick /\ Disposed

-----------------------------------------------------------------------------
\* What a read or a write leaves, begun when no tick waits.
Idle == ticks' = <<>> /\ writing' = FALSE

LEMMA BeginIdle ==
    ASSUME class = "tcp", NEW part, NEW n, NEW from, NEW r, NEW w, w = FALSE, Begin(part, n, from, <<>>, r, w)
    PROVE  Idle
BY DEF Begin, Idle

LEMMA SendMsgOneTick ==
    ASSUME class = "tcp", writing = FALSE, NEW q, NEW from, SendMsg(q, from, <<>>)
    PROVE  writing' = FALSE /\ OneTick'
<1>0. CASE ~con_
  BY <1>0 DEF SendMsg, OneTick
<1>1. CASE con_ /\ q = 0
  <2>1. Begin("header", 2, from, <<>>, NoRead, FALSE)
    BY <1>1 DEF SendMsg
  <2> QED
    BY <2>1, BeginIdle DEF OneTick, Idle
<1>2. CASE con_ /\ q # 0
  <2>1. rd' = NoRead /\ pending_' = TRUE /\ Write(<<>>)
    BY <1>2 DEF SendMsg
  <2>2. PICK k \in {"wrote", "unwritten"} : ticks' = Append(<<>>, Tick(k, "none", 0)) /\ writing' = FALSE
    BY <2>1 DEF Write
  <2>3. ticks' = <<Tick(k, "none", 0)>>
    BY <2>2
  <2> QED
    BY <2>1, <2>2, <2>3 DEF OneTick, NoRead, Tick
<1> QED
  BY <1>0, <1>1, <1>2

\* What is to be shown of each step: it is taken with the websocket open and no tick but
\* the one that runs.
Opened == class = "tcp" /\ writing = FALSE /\ closes = 0
TcpKept == writing' = FALSE /\ closes' \in Nat /\ OneTick' /\ Disposed'

LEMMA DisposeKeeps ==
    ASSUME Opened, NEW from, Dispose(from, <<>>)
    PROVE  TcpKept
BY DEF Opened, TcpKept, Dispose, OneTick, Disposed

LEMMA ReadsKeeps ==
    ASSUME Opened, NEW part, NEW n, NEW from, Reads(part, n, from, <<>>)
    PROVE  TcpKept
<1>1. Begin(part, n, from, <<>>, OtherRead, writing) /\ closes' = closes
  BY DEF Reads, history
<1>2. Idle
  BY <1>1, BeginIdle DEF Opened
<1> QED
  BY <1>1, <1>2 DEF Opened, TcpKept, Idle, OneTick, Disposed

LEMMA LenReadKeeps ==
    ASSUME Opened, NEW i, NEW from, LenRead(i, from, <<>>)
    PROVE  TcpKept
BY ReadsKeeps DEF LenRead

LEMMA SendMsgKeeps ==
    ASSUME Opened, NEW q, NEW from, SendMsg(q, from, <<>>), closes' = closes
    PROVE  TcpKept
<1>1. class = "tcp" /\ closes' = 0 /\ writing = FALSE
  BY DEF Opened
<1>2. writing' = FALSE /\ OneTick'
  BY <1>1, SendMsgOneTick
<1> QED
  BY <1>1, <1>2 DEF TcpKept, Disposed

LEMMA HeaderReadKeeps ==
    ASSUME Opened, NEW i, NEW from, HeaderRead(i, from, <<>>)
    PROVE  TcpKept
BY DisposeKeeps, ReadsKeeps, LenReadKeeps DEF HeaderRead

LEMMA PayloadReadKeeps ==
    ASSUME Opened, NEW from, PayloadRead(from, <<>>)
    PROVE  TcpKept
<1>1. CASE fin_
  BY <1>1, SendMsgKeeps DEF PayloadRead, OnDone
<1>2. CASE ~fin_
  <2>1. closes' = closes
    BY <1>2 DEF PayloadRead, history
  <2>2. Idle
    <3>1. CASE con_
      BY <1>2, <3>1, BeginIdle DEF PayloadRead, Opened
    <3>2. CASE ~con_
      BY <1>2, <3>2 DEF PayloadRead, Opened, Idle
    <3> QED
      BY <3>1, <3>2
  <2> QED
    BY <2>1, <2>2 DEF Opened, TcpKept, Idle, OneTick, Disposed
<1> QED
  BY <1>1, <1>2

LEMMA ReadDoneKeeps ==
    ASSUME Opened, NEW part, NEW at, NEW from, ReadDone(part, at, from, <<>>)
    PROVE  TcpKept
BY HeaderReadKeeps, LenReadKeeps, ReadsKeeps, PayloadReadKeeps DEF ReadDone

LEMMA ReadFailedKeeps ==
    ASSUME Opened, NEW part, ReadFailed(part, <<>>)
    PROVE  TcpKept
<1>1. CASE part = "header"
  BY <1>1, DisposeKeeps DEF ReadFailed
<1>2. CASE part # "header"
  BY <1>2 DEF ReadFailed, Opened, TcpKept, OneTick, Disposed
<1> QED
  BY <1>1, <1>2

LEMMA WrittenKeeps ==
    ASSUME Opened, WriteDone(<<>>)
    PROVE  TcpKept
<1>1. closes' = closes
  BY DEF WriteDone, history
<1> QED
  BY <1>1, SendMsgKeeps DEF WriteDone

-----------------------------------------------------------------------------
LEMMA InitTcpInv == WsInit => TcpInv
<1> SUFFICES ASSUME WsInit PROVE TcpInv
  OBVIOUS
<1>1. OneTick
  BY DEF WsInit, OneTick, Tick
<1> QED
  BY <1>1 DEF WsInit, TcpInv, Disposed

LEMMA NextTcpInv == TcpInv /\ [WsNext]_wsVars => TcpInv'
<1> SUFFICES ASSUME TcpInv, [WsNext]_wsVars, class' = "tcp"
             PROVE  TcpKept
  BY DEF TcpInv, TcpKept
<1>0. class = "tcp"
  BY DEF WsNext, Loop, PeerSends, PeerGoes, Send, Readable, ReadTimeout, NextTick, Writable, WriteDone,
         ReadDone, ReadFailed, Run, wsVars, peer
<1>1. /\ writing = FALSE /\ closes \in Nat /\ OneTick /\ Disposed
      /\ ticks # <<>> \/ rd # NoRead => Opened
  BY <1>0 DEF TcpInv, Disposed, Opened
<1>2. CASE UNCHANGED <<rd, ticks, writing, con_, pending_, closes>>
  BY <1>1, <1>2 DEF TcpKept, OneTick, Disposed, NoRead
<1>3. CASE Send
  <2>1. con_ /\ closes = 0 /\ closes' = closes
    BY <1>1, <1>3 DEF Send, Disposed
  <2>2. CASE pending_
    BY <1>1, <1>2, <1>3, <2>1, <2>2 DEF Send, io
  <2>3. CASE ~pending_
    <3>1. ticks = <<>>
      BY <1>1, <1>3, <2>3 DEF Send, OneTick, Tick
    <3> QED
      BY <1>0, <1>1, <1>3, <2>1, <2>3, <3>1, SendMsgKeeps DEF Send, Opened
  <2> QED
    BY <2>2, <2>3
<1>4. CASE Readable
  <2>1. Opened /\ ticks = <<>>
    BY <1>1, <1>4 DEF Readable
  <2>2. \/ \E part : ReadFailed(part, <<>>)
        \/ \E part, at, from : ReadDone(part, at, from, <<>>)
        \/ UNCHANGED <<ticks, writing, con_, pending_, closes>>
    BY <1>4, <2>1 DEF Readable, ws, history
  <2>3. CASE UNCHANGED <<ticks, writing, con_, pending_, closes>>
    BY <1>1, <2>1, <2>3 DEF TcpKept, OneTick, Disposed, Opened
  <2> QED
    BY <2>1, <2>2, <2>3, ReadFailedKeeps, ReadDoneKeeps
<1>5. CASE ReadTimeout
  BY <1>1, <1>5, ReadFailedKeeps DEF ReadTimeout
<1>6. CASE NextTick
  <2>1. Opened
    BY <1>1, <1>6 DEF NextTick
  <2>2. PICK k \in {"run", "wrote", "unwritten"} : ticks = <<Tick(k, "none", 0)>>
    BY <1>1, <1>6 DEF NextTick, OneTick
  <2>3. Head(ticks) = Tick(k, "none", 0) /\ Tail(ticks) = <<>>
    BY <2>2
  <2>4. Head(ticks).what \in {"run", "wrote", "unwritten"}
    BY <2>3 DEF Tick
  <2>5. Run(<<>>) \/ WriteDone(<<>>)
    BY <1>6, <2>3, <2>4 DEF NextTick
  <2>6. Run(<<>>) => TcpKept
    BY <2>1, SendMsgKeeps DEF Run
  <2> QED
    BY <2>1, <2>5, <2>6, WrittenKeeps
<1>7. CASE Writable
  BY <1>1, <1>7 DEF Writable
<1> QED
  BY <1>2, <1>3, <1>4, <1>5, <1>6, <1>7
     DEF WsNext, Loop, PeerSends, PeerGoes, wsVars, io, ws, history

LEMMA TcpInvariant == WsSpec => []TcpInv
  BY InitTcpInv, NextTcpInv, PTL DEF WsSpec

\* The cancel() of send_msg() never forgets a frame that was begun beside a write
\* (websocket.cpp, send() and send_msg()).
THEOREM HalfDuplexHolds == WsSpec => []HalfDuplex
<1>1. TcpInv => HalfDuplex
  <2> SUFFICES ASSUME TcpInv, class = "tcp", Writing
               PROVE  rd = NoRead
    BY DEF HalfDuplex
  <2> QED
    BY DEF TcpInv, OneTick, Writing
<1> QED
  BY <1>1, TcpInvariant, PTL

\* onClose_ is called once, and onMsg_ not after it (websocket.cpp, dispose()).
THEOREM QuietAfterCloseHolds == WsSpec => QuietAfterClose
<1>1. TcpInv /\ [WsNext]_wsVars => [class = "tcp" /\ closes > 0 => UNCHANGED <<delivered, closes>>]_wsVars
  <2> SUFFICES ASSUME TcpInv, WsNext, class = "tcp", closes > 0
               PROVE  UNCHANGED <<delivered, closes>>
    OBVIOUS
  <2>1. con_ = FALSE /\ rd = NoRead /\ ticks = <<>> /\ writing = FALSE
    BY DEF TcpInv, Disposed
  <2> QED
    BY <2>1 DEF WsNext, PeerSends, PeerGoes, Send, Loop, Readable, ReadTimeout, NextTick, Writable, history
<1> QED
  BY <1>1, TcpInvariant, PTL DEF WsSpec, QuietAfterClose

-----------------------------------------------------------------------------
(* Induction, for the two recursive functions: what the first frames say,   *)
(* and the stream they make.                                                *)

\* A set of numbers that is not empty has a least one.
LEMMA LeastNumber ==
    ASSUME NEW T \in SUBSET Nat, T # {}
    PROVE  \E x \in T : \A y \in T : x <= y
<1>1. IsWellFoundedOn(OpToRel(<, Nat), Nat)
  BY NatLessThanWellFounded
<1>2. PICK x \in T : \A y \in T : ~ (<<y, x>> \in OpToRel(<, Nat))
  BY <1>1, WFMin
<1>3. \A y \in T : ~(y < x)
  BY <1>2 DEF OpToRel
<1> QED
  BY <1>3

\* g begins with a and goes on by step, up to n.
Iterates(g, V, a, step, n) ==
    g \in [0 .. n -> V] /\ g[0] = a /\ \A i \in 1 .. n : g[i] = step[<<i, g[i - 1]>>]

\* What a recursive definition over 0 .. n needs: there is such a function.
LEMMA Recursion ==
    ASSUME NEW V, NEW a \in V, NEW step \in [Nat \X V -> V], NEW n \in Nat
    PROVE  \E g : Iterates(g, V, a, step, n)
<1> DEFINE Runs(g, m) == g \in [0 .. m -> V] /\ g[0] = a /\ \A i \in 1 .. m : g[i] = step[<<i, g[i - 1]>>]
           Bad == {m \in Nat : ~ \E g \in [0 .. m -> V] : Runs(g, m)}
<1>. USE DEF Iterates
<1>1. SUFFICES ASSUME Bad # {} PROVE FALSE
  OBVIOUS
<1>2. PICK m \in Bad : \A l \in Bad : m <= l
  BY <1>1, LeastNumber
<1>3. m # 0
  <2>1. Runs([i \in 0 .. 0 |-> a], 0)
    OBVIOUS
  <2> QED
    BY <2>1
<1>4. m - 1 \in Nat /\ m - 1 \notin Bad
  BY <1>2, <1>3
<1>5. PICK g \in [0 .. m - 1 -> V] : Runs(g, m - 1)
  BY <1>4
<1> DEFINE h == [i \in 0 .. m |-> IF i = m THEN step[<<m, g[m - 1]>>] ELSE g[i]]
<1>6. Runs(h, m)
  <2>1. g[m - 1] \in V /\ m \in Nat
    BY <1>4, <1>5
  <2>2. step[<<m, g[m - 1]>>] \in V
    BY <2>1
  <2>3. h \in [0 .. m -> V]
    BY <2>1, <2>2
  <2>4. h[0] = a
    <3>1. 0 \in 0 .. m /\ 0 # m
      BY <1>3, <1>4
    <3> QED
      BY <3>1, <1>5
  <2>5. ASSUME NEW i \in 1 .. m PROVE h[i] = step[<<i, h[i - 1]>>]
    <3>1. h[i - 1] = g[i - 1]
      BY <1>4
    <3>2. CASE i = m
      <4>1. m \in 0 .. m /\ h[m] = step[<<m, g[m - 1]>>]
        BY <1>4
      <4> QED
        BY <3>1, <3>2, <4>1
    <3>3. CASE i # m
      <4>1. i \in 1 .. m - 1
        BY <3>3, <1>4
      <4>2. h[i] = g[i]
        BY <3>3
      <4> QED
        BY <4>1, <4>2, <3>1, <1>5
    <3> QED
      BY <3>2, <3>3
  <2> QED
    BY <2>3, <2>4, <2>5
<1> QED
  BY <1>6, <1>2

-----------------------------------------------------------------------------
Frames == [1 .. NFrames -> Frame]

\* t is what the first frames of s say.
Told == [whole : Seq(Seq(Nat)), begun : Seq(Nat)]
Tells(t, s) ==
    /\ t \in [0 .. NFrames -> Told]
    /\ t[0] = [whole |-> <<>>, begun |-> <<>>]
    /\ \A k \in 1 .. NFrames : t[k] = Further(t[k - 1], k, s[k])

LEMMA FurtherTold ==
    ASSUME NEW sofar \in Told, NEW k \in Nat, NEW f \in Frame
    PROVE  Further(sofar, k, f) \in Told
<1>1. f.size \in Nat
  BY WebSocketAssumption DEF Frame
<1> DEFINE p == [j \in 1 .. f.size |-> k]
<1>2. p \in Seq(Nat)
  BY <1>1
<1>3. sofar.begun \in Seq(Nat) /\ sofar.whole \in Seq(Seq(Nat))
  BY DEF Told
<1> DEFINE m == sofar.begun \o p
<1>4. m \in Seq(Nat)
  <2> HIDE DEF p
  <2> QED
    BY <1>2, <1>3
<1> HIDE DEF p
<1>5. Append(sofar.whole, m) \in Seq(Seq(Nat)) /\ <<>> \in Seq(Nat)
  <2> HIDE DEF m
  <2> QED
    BY <1>3, <1>4
<1>6. Further(sofar, k, f) = IF f.op \notin {"text", "cont"} THEN sofar
                             ELSE IF f.fin THEN [whole |-> Append(sofar.whole, m), begun |-> <<>>]
                             ELSE [whole |-> sofar.whole, begun |-> m]
  BY DEF Further, p
<1> HIDE DEF m
<1> QED
  BY <1>3, <1>4, <1>5, <1>6 DEF Told

LEMMA SaidTells ==
    ASSUME NEW s \in Frames
    PROVE  Tells(Said(s), s)
<1> DEFINE n == NFrames
           none == [whole |-> <<>>, begun |-> <<>>]
           step == [p \in Nat \X Told |-> IF p[1] \in 1 .. n THEN Further(p[2], p[1], s[p[1]]) ELSE p[2]]
           Goes(f) == [k \in 0 .. n |-> IF k = 0 THEN none ELSE Further(f[k - 1], k, s[k])]
           said == CHOOSE f : f = Goes(f)
<1>1. n \in Nat /\ none \in Told /\ \A k \in 1 .. n : s[k] \in Frame
  BY WebSocketAssumption DEF Frames, Told
<1>2. step \in [Nat \X Told -> Told]
  BY <1>1, FurtherTold
<1>3. PICK g : Iterates(g, Told, none, step, n)
  <2> HIDE DEF step, n, none
  <2> QED
    BY <1>1, <1>2, Recursion
<1>4. g \in [0 .. n -> Told] /\ g[0] = none /\ \A k \in 1 .. n : g[k] = Further(g[k - 1], k, s[k])
  <2>1. g \in [0 .. n -> Told] /\ g[0] = none /\ \A k \in 1 .. n : g[k] = step[<<k, g[k - 1]>>]
    BY <1>3 DEF Iterates
  <2>2. ASSUME NEW k \in 1 .. n PROVE g[k] = Further(g[k - 1], k, s[k])
    <3>1. k - 1 \in 0 .. n /\ k \in Nat
      BY <1>1
    <3>2. <<k, g[k - 1]>> \in Nat \X Told
      BY <3>1, <2>1
    <3>3. step[<<k, g[k - 1]>>] = Further(g[k - 1], k, s[k])
      BY <3>2
    <3> QED
      BY <3>3, <2>1
  <2> QED
    BY <2>1, <2>2
<1>5. g = Goes(g)
  <2>1. ASSUME NEW k \in 0 .. n PROVE g[k] = Goes(g)[k]
    <3>1. k = 0 \/ k \in 1 .. n
      BY <1>1
    <3> HIDE DEF n, none
    <3> QED
      BY <3>1, <1>4
  <2>2. g = [k \in 0 .. n |-> g[k]]
    BY <1>4
  <2> HIDE DEF n, none
  <2> QED
    BY <2>1, <2>2
<1>6. said = Goes(said)
  BY <1>5
<1>7. Said(s) = said
  BY DEF Said
<1> HIDE DEF said, n, none
<1>8. said[0] = none /\ \A k \in 1 .. n : said[k] = Further(said[k - 1], k, s[k])
  <2>0. said = [k \in 0 .. n |-> IF k = 0 THEN none ELSE Further(said[k - 1], k, s[k])]
    BY <1>6
  <2>1. 0 \in 0 .. n /\ \A k \in 1 .. n : k \in 0 .. n /\ k # 0
    BY <1>1
  <2> QED
    BY <2>0, <2>1
<1> DEFINE Bad == {k \in 0 .. n : said[k] # g[k]}
<1>9. Bad = {}
  <2>1. SUFFICES ASSUME Bad # {} PROVE FALSE
    OBVIOUS
  <2>2. PICK k \in Bad : \A j \in Bad : k <= j
    <3>1. Bad \in SUBSET Nat
      BY <1>1
    <3> HIDE DEF Bad
    <3> QED
      BY <2>1, <3>1, LeastNumber
  <2>3. k \in 1 .. n
    BY <1>1, <1>4, <1>8
  <2>4. k - 1 \in 0 .. n /\ ~(k <= k - 1)
    BY <1>1, <2>3
  <2>5. said[k - 1] = g[k - 1]
    BY <2>2, <2>4
  <2> QED
    BY <2>3, <2>5, <1>4, <1>8
<1>10. DOMAIN said = 0 .. n
  BY <1>6
<1>11. said \in [0 .. n -> Told]
  <2>1. said = [k \in 0 .. n |-> said[k]]
    BY <1>6
  <2>2. \A k \in 0 .. n : said[k] \in Told
    BY <1>9, <1>4
  <2> QED
    BY <2>1, <2>2
<1> QED
  BY <1>7, <1>8, <1>11 DEF Tells, n, none

\* What was whole stays, and in its place.
LEMMA WholeGrows ==
    ASSUME NEW s \in Frames, NEW k \in 0 .. NFrames
    PROVE  IsPrefix(Said(s)[k].whole, Said(s)[NFrames].whole)
<1> DEFINE n == NFrames
           t == Said(s)
           Bad == {l \in k .. n : ~IsPrefix(t[k].whole, t[l].whole)}
<1>1. n \in Nat /\ k \in Nat /\ k <= n
  BY WebSocketAssumption
<1>2. /\ t \in [0 .. n -> Told]
      /\ \A l \in 1 .. n : t[l] = Further(t[l - 1], l, s[l])
  BY SaidTells DEF Tells
<1> HIDE DEF n, t
<1>3. \A l \in 0 .. n : t[l].whole \in Seq(Seq(Nat))
  BY <1>2 DEF Told
<1>4. Bad = {}
  <2>1. SUFFICES ASSUME Bad # {} PROVE FALSE
    OBVIOUS
  <2>2. PICK l \in Bad : \A j \in Bad : l <= j
    <3>1. Bad \in SUBSET Nat
      BY <1>1
    <3> HIDE DEF Bad
    <3> QED
      BY <2>1, <3>1, LeastNumber
  <2>3. l # k
    <3>1. k \in 0 .. n
      BY <1>1
    <3>2. t[k].whole \in Seq(Seq(Nat))
      BY <3>1, <1>3
    <3>3. IsPrefix(t[k].whole, t[k].whole)
      <4>1. PICK w : w = t[k].whole
        OBVIOUS
      <4>2. Len(w) \in Nat
        BY <3>2, <4>1
      <4> QED
        BY <4>1, <4>2 DEF IsPrefix
    <3> QED
      BY <3>3
  <2>4. l \in 1 .. n /\ l - 1 \in k .. n /\ l - 1 \in 0 .. n /\ k \in 0 .. n /\ ~(l <= l - 1)
    BY <1>1, <2>3
  <2>5. IsPrefix(t[k].whole, t[l - 1].whole)
    BY <2>2, <2>4
  <2>6. t[l].whole = t[l - 1].whole \/ \E m : t[l].whole = Append(t[l - 1].whole, m)
    <3>1. t[l] = Further(t[l - 1], l, s[l])
      BY <2>4, <1>2
    <3> DEFINE m == t[l - 1].begun \o [j \in 1 .. s[l].size |-> l]
    <3>2. \/ t[l] = t[l - 1]
          \/ t[l] = [whole |-> Append(t[l - 1].whole, m), begun |-> <<>>]
          \/ t[l] = [whole |-> t[l - 1].whole, begun |-> m]
      BY <3>1 DEF Further
    <3> HIDE DEF m
    <3>3. t[l].whole = t[l - 1].whole \/ t[l].whole = Append(t[l - 1].whole, m)
      BY <3>2
    <3> QED
      BY <3>3
  <2>7. PICK u, w : u = t[k].whole /\ w = t[l - 1].whole
    OBVIOUS
  <2>8. u \in Seq(Seq(Nat)) /\ w \in Seq(Seq(Nat))
    BY <2>4, <2>7, <1>3
  <2>9. ASSUME NEW m PROVE IsPrefix(u, Append(w, m))
    <3>1. Len(u) \in Nat /\ Len(w) \in Nat /\ Len(u) <= Len(w) /\ SubSeq(u, 1, Len(u)) = SubSeq(w, 1, Len(u))
      BY <2>5, <2>7, <2>8 DEF IsPrefix
    <3>2. Len(Append(w, m)) = Len(w) + 1 /\ \A j \in 1 .. Len(w) : Append(w, m)[j] = w[j]
      BY <2>8
    <3>3. SubSeq(Append(w, m), 1, Len(u)) = SubSeq(w, 1, Len(u))
      <4>1. SubSeq(Append(w, m), 1, Len(u)) = [j \in 1 .. Len(u) |-> Append(w, m)[j]]
        BY <3>1
      <4>2. SubSeq(w, 1, Len(u)) = [j \in 1 .. Len(u) |-> w[j]]
        BY <3>1
      <4>3. \A j \in 1 .. Len(u) : Append(w, m)[j] = w[j]
        BY <3>1, <3>2
      <4> QED
        BY <4>1, <4>2, <4>3
    <3> QED
      BY <3>1, <3>2, <3>3 DEF IsPrefix
  <2> QED
    BY <2>2, <2>5, <2>6, <2>7, <2>9
<1>5. n \in k .. n
  BY <1>1
<1> QED
  BY <1>4, <1>5 DEF n, t

-----------------------------------------------------------------------------
(* How the frames lie in the stream. *)

FrameLength(s, c, i) == 2 + (IF s[i].long THEN 1 ELSE 0) + (IF c THEN 0 ELSE 1) + s[i].size

\* The frames 1 .. i of s take up start[i] pieces.
LaidOut(start, s, c) ==
    /\ start \in [0 .. NFrames -> Nat]
    /\ start[0] = 0
    /\ \A i \in 1 .. NFrames : start[i] = start[i - 1] + FrameLength(s, c, i)

Starts(s, c) == CHOOSE start : LaidOut(start, s, c)

LEMMA StartsLaidOut ==
    ASSUME NEW s \in Frames, NEW c
    PROVE  LaidOut(Starts(s, c), s, c)
<1> DEFINE n == NFrames
           step == [p \in Nat \X Nat |-> IF p[1] \in 1 .. n THEN p[2] + FrameLength(s, c, p[1]) ELSE p[2]]
<1>1. n \in Nat /\ \A i \in 1 .. n : FrameLength(s, c, i) \in Nat
  <2>1. \A i \in 1 .. n : s[i].size \in Nat
    BY WebSocketAssumption DEF Frames, Frame
  <2> QED
    BY <2>1, WebSocketAssumption DEF FrameLength
<1>2. step \in [Nat \X Nat -> Nat]
  BY <1>1
<1>3. PICK g : Iterates(g, Nat, 0, step, n)
  <2> HIDE DEF step, n
  <2> QED
    BY <1>1, <1>2, Recursion
<1>4. g \in [0 .. n -> Nat] /\ g[0] = 0 /\ \A i \in 1 .. n : g[i] = step[<<i, g[i - 1]>>]
  BY <1>3 DEF Iterates
<1>5. ASSUME NEW i \in 1 .. n PROVE g[i] = g[i - 1] + FrameLength(s, c, i)
  <2>1. i - 1 \in 0 .. n /\ i \in Nat
    BY <1>1
  <2>2. <<i, g[i - 1]>> \in Nat \X Nat
    BY <2>1, <1>4
  <2>3. step[<<i, g[i - 1]>>] = g[i - 1] + FrameLength(s, c, i)
    BY <2>2
  <2> QED
    BY <2>3, <1>4
<1>6. LaidOut(g, s, c)
  BY <1>4, <1>5 DEF LaidOut
<1> QED
  BY <1>6 DEF Starts

\* What FlattenSeq computes, step by step.
Flattens(f, seqs, n, T) ==
    /\ f \in [1 .. n -> Seq(T)] /\ f[1] = seqs[1]
    /\ \A i \in 2 .. n : f[i] = f[i - 1] \o seqs[i]
    /\ FlattenSeq(seqs) = f[n]

LEMMA Flattened ==
    ASSUME NEW T, NEW n \in Nat \ {0}, NEW seqs \in Seq(Seq(T)), Len(seqs) = n
    PROVE  \E f : Flattens(f, seqs, n, T)
<1> DEFINE V == Seq(T)
           step == [p \in Nat \X V |-> IF p[1] \in 1 .. n THEN p[2] \o seqs[p[1]] ELSE p[2]]
           Goes(f) == [i \in 1 .. n |-> IF i = 1 THEN seqs[i] ELSE f[i - 1] \o seqs[i]]
           flat == CHOOSE f : f = Goes(f)
<1>1. n \in Nat /\ <<>> \in V /\ \A i \in 1 .. n : seqs[i] \in V
  OBVIOUS
<1>2. step \in [Nat \X V -> V]
  <2>1. ASSUME NEW p \in Nat \X V PROVE (IF p[1] \in 1 .. n THEN p[2] \o seqs[p[1]] ELSE p[2]) \in V
    <3>1. p[2] \in V
      OBVIOUS
    <3>2. CASE p[1] \in 1 .. n
      BY <3>1, <3>2, <1>1
    <3> QED
      BY <3>1, <3>2
  <2> QED
    BY <2>1
<1>3. PICK g : Iterates(g, V, <<>>, step, n)
  <2> HIDE DEF step, V
  <2> QED
    BY <1>1, <1>2, Recursion
<1>4. g \in [0 .. n -> V] /\ g[0] = <<>> /\ \A i \in 1 .. n : g[i] = g[i - 1] \o seqs[i]
  <2>1. g \in [0 .. n -> V] /\ g[0] = <<>> /\ \A i \in 1 .. n : g[i] = step[<<i, g[i - 1]>>]
    BY <1>3 DEF Iterates
  <2>2. ASSUME NEW i \in 1 .. n PROVE g[i] = g[i - 1] \o seqs[i]
    <3>1. i - 1 \in 0 .. n /\ i \in Nat
      BY <1>1
    <3>2. <<i, g[i - 1]>> \in Nat \X V
      BY <3>1, <2>1
    <3>3. step[<<i, g[i - 1]>>] = g[i - 1] \o seqs[i]
      BY <3>2
    <3> QED
      BY <3>3, <2>1
  <2> QED
    BY <2>1, <2>2
<1> DEFINE h == [i \in 1 .. n |-> g[i]]
<1>5. h = Goes(h)
  <2>1. ASSUME NEW i \in 1 .. n PROVE h[i] = IF i = 1 THEN seqs[i] ELSE h[i - 1] \o seqs[i]
    <3>1. CASE i = 1
      <4>1. i \in 0 .. n /\ seqs[i] \in Seq(T) /\ i - 1 = 0
        BY <3>1, <1>1
      <4>2. g[i] = <<>> \o seqs[i]
        BY <4>1, <1>4
      <4> QED
        BY <4>1, <4>2, <3>1
    <3>2. CASE i # 1
      <4>1. i - 1 \in 1 .. n
        BY <3>2
      <4> QED
        BY <3>2, <4>1, <1>4
    <3> QED
      BY <3>1, <3>2
  <2> HIDE DEF V
  <2> QED
    BY <2>1
<1>6. flat = Goes(flat)
  <2> HIDE DEF h
  <2> QED
    BY <1>5
<1>7. FlattenSeq(seqs) = flat[n]
  BY DEF FlattenSeq
<1> HIDE DEF flat, h
<1>8. \A i \in 1 .. n : flat[i] = IF i = 1 THEN seqs[i] ELSE flat[i - 1] \o seqs[i]
  BY <1>6
<1>9. \A i \in 1 .. n : flat[i] \in V
  <2> DEFINE Bad == {i \in 1 .. n : flat[i] \notin V}
  <2>1. SUFFICES ASSUME Bad # {} PROVE FALSE
    OBVIOUS
  <2>2. PICK i \in Bad : \A j \in Bad : i <= j
    <3>1. Bad \in SUBSET Nat
      OBVIOUS
    <3> HIDE DEF Bad
    <3> QED
      BY <2>1, <3>1, LeastNumber
  <2>3. i # 1
    BY <1>8, <1>1
  <2>4. i - 1 \in 1 .. n /\ ~(i <= i - 1)
    BY <2>3
  <2>5. flat[i - 1] \in V
    BY <2>2, <2>4
  <2>6. flat[i - 1] \o seqs[i] \in V
    BY <2>5, <1>1
  <2> QED
    BY <2>3, <2>6, <1>8
<1>10. flat = [i \in 1 .. n |-> flat[i]]
  BY <1>6
<1>11. flat \in [1 .. n -> V]
  <2> HIDE DEF V
  <2> QED
    BY <1>9, <1>10
<1>12. 1 \in 1 .. n /\ \A i \in 2 .. n : i \in 1 .. n /\ i # 1
  OBVIOUS
<1>13. flat[1] = seqs[1] /\ \A i \in 2 .. n : flat[i] = flat[i - 1] \o seqs[i]
  BY <1>8, <1>12
<1> QED
  BY <1>7, <1>11, <1>13 DEF Flattens

Piece == Nat \X {"header", "header2", "len", "mask", "payload"}

\* w is u and then v.
Joins(w, u, v, T) ==
    /\ w \in Seq(T) /\ Len(w) = Len(u) + Len(v)
    /\ \A j \in 1 .. Len(u) : w[j] = u[j]
    /\ \A j \in 1 .. Len(v) : w[Len(u) + j] = v[j]

LEMMA Joined ==
    ASSUME NEW T, NEW u \in Seq(T), NEW v \in Seq(T)
    PROVE  Joins(u \o v, u, v, T)
<1>1. Len(u) \in Nat /\ Len(v) \in Nat /\ u \o v \in Seq(T) /\ Len(u \o v) = Len(u) + Len(v)
  OBVIOUS
<1>2. ASSUME NEW j \in 1 .. Len(u) PROVE (u \o v)[j] = u[j]
  <2>1. j \in 1 .. Len(u) + Len(v)
    BY <1>1
  <2> QED
    BY <2>1
<1>3. ASSUME NEW j \in 1 .. Len(v) PROVE (u \o v)[Len(u) + j] = v[j]
  <2>1. Len(u) + j \in 1 .. Len(u) + Len(v) /\ ~(Len(u) + j <= Len(u)) /\ (Len(u) + j) - Len(u) = j
    BY <1>1
  <2> QED
    BY <2>1
<1> QED
  BY <1>1, <1>2, <1>3 DEF Joins

\* Where the parts of the frame i are in w, after the first o pieces.
Marked(w, o, i) ==
    LET f == script[i]
        long == IF f.long THEN 1 ELSE 0
        mask == IF isClient_ THEN 0 ELSE 1
    IN  /\ w[o + 1] = <<i, "header">> /\ w[o + 2] = <<i, "header2">>
        /\ long = 1 => w[o + 3] = <<i, "len">>
        /\ mask = 1 => w[o + 3 + long] = <<i, "mask">>
        /\ f.size > 0 => w[o + 3 + long + mask] = <<i, "payload">>

LEMMA PiecesAre ==
    ASSUME script \in Frames, NEW i \in 1 .. NFrames
    PROVE  /\ Pieces(i) \in Seq(Piece) /\ Len(Pieces(i)) = FrameLength(script, isClient_, i)
           /\ 2 <= FrameLength(script, isClient_, i) /\ FrameLength(script, isClient_, i) \in Nat
           /\ Marked(Pieces(i), 0, i)
<1> DEFINE size == script[i].size
           long == IF script[i].long THEN 1 ELSE 0
           mask == IF isClient_ THEN 0 ELSE 1
<1>1. i \in Nat /\ size \in Nat
  BY WebSocketAssumption DEF Frames, Frame
<1>2. PICK h1, h2, l, m, p : h1 = <<i, "header">> /\ h2 = <<i, "header2">> /\ l = <<i, "len">> /\ m = <<i, "mask">> /\ p = <<i, "payload">>
  OBVIOUS
<1>3. h1 \in Piece /\ h2 \in Piece /\ l \in Piece /\ m \in Piece /\ p \in Piece
  BY <1>1, <1>2 DEF Piece
<1> DEFINE a == <<h1, h2>>
           b == IF script[i].long THEN <<l>> ELSE <<>>
           c == IF isClient_ THEN <<>> ELSE <<m>>
           d == [k \in 1 .. size |-> p]
<1>4. Pieces(i) = a \o b \o c \o d
  BY <1>2 DEF Pieces
<1>5. a \in Seq(Piece) /\ Len(a) = 2 /\ a[1] = h1 /\ a[2] = h2
  BY <1>3
<1>6. b \in Seq(Piece) /\ Len(b) = long /\ (long = 1 => b[1] = l) /\ long \in 0 .. 1
  BY <1>3
<1>7. c \in Seq(Piece) /\ Len(c) = mask /\ (mask = 1 => c[1] = m) /\ mask \in 0 .. 1
  BY <1>3
<1>8. d \in Seq(Piece) /\ Len(d) = size /\ (size > 0 => d[1] = p)
  BY <1>1, <1>3
<1>9. FrameLength(script, isClient_, i) = 2 + long + mask + size
  BY DEF FrameLength
<1> HIDE DEF a, b, c, d, size, long, mask
<1>10. PICK e : e = a \o b
  OBVIOUS
<1>11. PICK g : g = e \o c
  OBVIOUS
<1>12. PICK w : w = g \o d
  OBVIOUS
<1>13. /\ e \in Seq(Piece) /\ Len(e) = 2 + long
       /\ e[1] = h1 /\ e[2] = h2 /\ (long = 1 => e[3] = l)
  <2>1. Joins(e, a, b, Piece)
    BY <1>5, <1>6, <1>10, Joined
  <2>2. 1 \in 1 .. Len(a) /\ 2 \in 1 .. Len(a) /\ (long = 1 => 1 \in 1 .. Len(b)) /\ Len(a) + 1 = 3
    BY <1>5, <1>6
  <2> QED
    BY <1>5, <1>6, <2>1, <2>2 DEF Joins
<1>14. /\ g \in Seq(Piece) /\ Len(g) = 2 + long + mask
       /\ g[1] = h1 /\ g[2] = h2 /\ (long = 1 => g[3] = l) /\ (mask = 1 => g[3 + long] = m)
  <2>1. Joins(g, e, c, Piece)
    BY <1>7, <1>11, <1>13, Joined
  <2>2. /\ 1 \in 1 .. Len(e) /\ 2 \in 1 .. Len(e) /\ (long = 1 => 3 \in 1 .. Len(e))
        /\ (mask = 1 => 1 \in 1 .. Len(c)) /\ Len(e) + 1 = 3 + long
    BY <1>6, <1>7, <1>13
  <2> QED
    BY <1>6, <1>7, <1>13, <2>1, <2>2 DEF Joins
<1>15. /\ w \in Seq(Piece) /\ Len(w) = 2 + long + mask + size
       /\ w[1] = h1 /\ w[2] = h2 /\ (long = 1 => w[3] = l) /\ (mask = 1 => w[3 + long] = m)
       /\ (size > 0 => w[3 + long + mask] = p)
  <2>1. Joins(w, g, d, Piece)
    BY <1>8, <1>12, <1>14, Joined
  <2>2. /\ 1 \in 1 .. Len(g) /\ 2 \in 1 .. Len(g) /\ (long = 1 => 3 \in 1 .. Len(g))
        /\ (mask = 1 => 3 + long \in 1 .. Len(g))
        /\ (size > 0 => 1 \in 1 .. Len(d)) /\ Len(g) + 1 = 3 + long + mask
    BY <1>1, <1>6, <1>7, <1>8, <1>14
  <2> QED
    BY <1>1, <1>6, <1>7, <1>8, <1>14, <2>1, <2>2 DEF Joins
<1>16. Pieces(i) = w
  BY <1>4, <1>10, <1>11, <1>12
<1>17. 2 + long + mask + size \in Nat /\ 2 <= 2 + long + mask + size
  BY <1>1, <1>6, <1>7
<1>18. 0 + 1 = 1 /\ 0 + 2 = 2 /\ 0 + 3 = 3 /\ 0 + 3 + long = 3 + long /\ 0 + 3 + long + mask = 3 + long + mask
  BY <1>6, <1>7
<1>19. Marked(Pieces(i), 0, i)
  BY <1>2, <1>15, <1>16, <1>18 DEF Marked, long, mask, size
<1> QED
  BY <1>9, <1>15, <1>16, <1>17, <1>19

\* Where the frames lie in Bytes.
LEMMA Layout ==
    ASSUME script \in Frames, NEW start, LaidOut(start, script, isClient_)
    PROVE  /\ Len(Bytes) = start[NFrames]
           /\ \A i \in 1 .. NFrames :
                 /\ start[i] <= Len(Bytes)
                 /\ \A j \in 1 .. FrameLength(script, isClient_, i) : Bytes[start[i - 1] + j] = Pieces(i)[j]
<1> DEFINE n == NFrames
           seqs == [i \in 1 .. n |-> Pieces(i)]
           size(i) == FrameLength(script, isClient_, i)
<1>1. n \in Nat
  BY WebSocketAssumption
<1>2. /\ start \in [0 .. n -> Nat] /\ start[0] = 0
      /\ \A i \in 1 .. n : start[i] = start[i - 1] + size(i)
  BY DEF LaidOut
<1>3. \A i \in 1 .. n : Pieces(i) \in Seq(Piece) /\ Len(Pieces(i)) = size(i) /\ size(i) \in Nat
  BY PiecesAre
<1>4. Bytes = FlattenSeq(seqs)
  BY DEF Bytes
<1> HIDE DEF n
<1>5. seqs \in Seq(Seq(Piece)) /\ Len(seqs) = n
  BY <1>1, <1>3
<1>6. CASE n = 0
  <2>1. seqs = <<>> /\ FlattenSeq(seqs) = seqs
    BY <1>5, <1>6 DEF FlattenSeq
  <2>2. Len(Bytes) = 0
    <3>1. Bytes = <<>>
      BY <2>1, <1>4
    <3> QED
      BY <3>1
  <2> QED
    BY <1>2, <1>6, <2>2 DEF n
<1>7. CASE n # 0
  <2>0. PICK f : Flattens(f, seqs, n, Piece)
    <3>1. n \in Nat \ {0}
      BY <1>1, <1>7
    <3> HIDE DEF seqs
    <3> QED
      BY <3>1, <1>5, Flattened
  <2>1. /\ f \in [1 .. n -> Seq(Piece)] /\ f[1] = seqs[1]
        /\ \A i \in 2 .. n : f[i] = f[i - 1] \o seqs[i]
        /\ FlattenSeq(seqs) = f[n]
    <3> HIDE DEF seqs
    <3> QED
      BY <2>0 DEF Flattens
  <2>2. f[1] = Pieces(1) /\ \A i \in 2 .. n : f[i] = f[i - 1] \o Pieces(i)
    <3>1. 1 \in 1 .. n /\ \A i \in 2 .. n : i \in 1 .. n
      BY <1>1, <1>7
    <3> QED
      BY <2>1, <3>1
  <2> HIDE DEF seqs, size
  <2> DEFINE Good(i) == /\ Len(f[i]) = start[i]
                        /\ \A m \in 1 .. i : /\ start[m] <= start[i]
                                             /\ \A j \in 1 .. size(m) : f[i][start[m - 1] + j] = Pieces(m)[j]
             Bad == {i \in 1 .. n : ~Good(i)}
  <2>3. Good(1)
    <3>0. 1 \in 1 .. n /\ 1 - 1 = 0
      BY <1>1, <1>7
    <3>1. start[1] = size(1) /\ start[1] \in Nat /\ start[0] = 0 /\ size(1) \in Nat
      <4>1. start[1] = start[0] + size(1) /\ size(1) \in Nat
        BY <1>2, <1>3, <3>0
      <4> QED
        BY <4>1, <1>2
    <3>2. Len(f[1]) = start[1]
      BY <1>3, <2>2, <3>0, <3>1
    <3>3. ASSUME NEW m \in 1 .. 1
          PROVE  start[m] <= start[1] /\ \A j \in 1 .. size(m) : f[1][start[m - 1] + j] = Pieces(m)[j]
      <4>1. m = 1 /\ start[m - 1] = 0
        BY <3>1
      <4>2. \A j \in 1 .. size(1) : f[1][0 + j] = Pieces(1)[j]
        BY <2>2, <3>1
      <4> QED
        BY <3>1, <4>1, <4>2
    <3> QED
      BY <3>2, <3>3
  <2>4. ASSUME NEW i \in 2 .. n, Good(i - 1) PROVE Good(i)
    <3>1. i \in 1 .. n /\ i - 1 \in 1 .. n /\ i - 1 \in 0 .. n /\ i \in 0 .. n /\ i \in Nat
      BY <1>1
    <3>2. f[i - 1] \in Seq(Piece) /\ Pieces(i) \in Seq(Piece) /\ f[i] = f[i - 1] \o Pieces(i)
      BY <3>1, <1>3, <2>1, <2>2
    <3>3. PICK u, v : u = f[i - 1] /\ v = Pieces(i)
      OBVIOUS
    <3>4. /\ Len(u) = start[i - 1] /\ Len(v) = size(i) /\ start[i - 1] \in Nat /\ size(i) \in Nat
          /\ u \in Seq(Piece) /\ v \in Seq(Piece) /\ start[i] = start[i - 1] + size(i)
      BY <3>1, <3>2, <3>3, <1>2, <1>3, <2>4
    <3>5. /\ Len(u \o v) = Len(u) + Len(v)
          /\ \A j \in 1 .. Len(u) : (u \o v)[j] = u[j]
          /\ \A j \in 1 .. Len(v) : (u \o v)[Len(u) + j] = v[j]
      <4>1. Joins(u \o v, u, v, Piece)
        BY <3>4, Joined
      <4> QED
        BY <4>1 DEF Joins
    <3>6. Len(f[i]) = start[i]
      BY <3>2, <3>3, <3>4, <3>5
    <3>7. ASSUME NEW m \in 1 .. i
          PROVE  start[m] <= start[i] /\ \A j \in 1 .. size(m) : f[i][start[m - 1] + j] = Pieces(m)[j]
      <4>1. CASE m = i
        <5>1. ASSUME NEW j \in 1 .. size(i) PROVE (u \o v)[start[i - 1] + j] = v[j]
          BY <3>4, <3>5
        <5>2. start[i] <= start[i]
          BY <3>4
        <5> QED
          BY <4>1, <5>1, <5>2, <3>2, <3>3
      <4>2. CASE m # i
        <5>0. m \in Nat /\ 1 <= m /\ m <= i - 1 /\ i - 1 \in Nat /\ i - 1 <= n
          BY <4>2, <3>1, <1>1
        <5>1. m \in 1 .. i - 1 /\ m \in 1 .. n /\ m - 1 \in 0 .. n /\ m \in 0 .. n
          BY <5>0, <1>1
        <5>2. start[m] <= start[i - 1] /\ \A j \in 1 .. size(m) : u[start[m - 1] + j] = Pieces(m)[j]
          BY <5>1, <2>4, <3>3
        <5>3. start[m - 1] \in Nat /\ start[m] \in Nat /\ size(m) \in Nat /\ start[m] = start[m - 1] + size(m)
          BY <5>1, <1>2, <1>3
        <5>4. start[m] <= start[i]
          BY <5>2, <5>3, <3>4
        <5>5. ASSUME NEW j \in 1 .. size(m) PROVE (u \o v)[start[m - 1] + j] = Pieces(m)[j]
          <6>1. start[m - 1] + j \in 1 .. Len(u)
            BY <5>2, <5>3, <3>4
          <6> QED
            BY <6>1, <5>2, <3>5
        <5> QED
          BY <5>4, <5>5, <3>2, <3>3
      <4> QED
        BY <4>1, <4>2
    <3> QED
      BY <3>6, <3>7
  <2> HIDE DEF Good
  <2>5. Bad = {}
    <3>1. SUFFICES ASSUME Bad # {} PROVE FALSE
      OBVIOUS
    <3>2. PICK i \in Bad : \A j \in Bad : i <= j
      <4>1. Bad \in SUBSET Nat
        BY <1>1
      <4> HIDE DEF Bad
      <4> QED
        BY <3>1, <4>1, LeastNumber
    <3>3. i # 1
      BY <2>3
    <3>4. i \in 2 .. n /\ i - 1 \in 1 .. n /\ ~(i <= i - 1)
      BY <3>3, <1>1
    <3>5. Good(i - 1)
      BY <3>2, <3>4
    <3> QED
      BY <3>4, <3>5, <2>4
  <2>6. n \in 1 .. n /\ Bytes = f[n]
    BY <1>1, <1>4, <1>7, <2>1
  <2>7. Good(n)
    BY <2>5, <2>6
  <2> QED
    BY <2>6, <2>7 DEF Good, n, size
<1> QED
  BY <1>6, <1>7

-----------------------------------------------------------------------------
(* The messages come whole and in order, while no PING is among the frames, *)
(* no read has failed in the middle of one and no header was cut: what was  *)
(* said with the first k frames has been delivered, and the websocket reads *)
(* the next one, or will, from its first piece on.                          *)

NoPings == \A i \in DOMAIN script : script[i].op # "ping"

\* The part of the frame i, after its header, that lies between at and end.
Inner(i, part, at, end, start) ==
    LET after == start[i - 1] + 2
        long == IF script[i].long THEN 1 ELSE 0
        mask == IF isClient_ THEN 0 ELSE 1
    IN  \/ part = "len" /\ at = after /\ end = after + 1 /\ long = 1
        \/ part = "mask" /\ at = after + long /\ end = after + long + 1 /\ mask = 1
        \/ part = "payload" /\ at = after + long + mask /\ end = after + long + mask + script[i].size

Part == {"header", "len", "mask", "payload"}
Reading == [part : Part, want : Nat, at : Nat]

\* rd is a read of a part of the frame after the first k, of which some may be taken.
Within(k, start) ==
    /\ k < NFrames /\ frame = k + 1
    /\ script[k + 1].op \in {"text", "cont"} /\ fin_ = script[k + 1].fin
    /\ pending_ = TRUE
    /\ rd \in Reading /\ taken \in Nat
    /\ Inner(k + 1, rd.part, rd.at, taken + rd.want, start)

Place(k, start) ==
    \/ rd = NoRead /\ taken = start[k]
    \/ rd = [part |-> "header", want |-> 2, at |-> start[k]] /\ taken = start[k]
    \/ rd = [part |-> "header", want |-> 1, at |-> start[k]] /\ taken = start[k] + 1
    \/ Within(k, start)

Exact(k, said, start) ==
    /\ delivered = said[k].whole /\ msg_ = said[k].begun
    /\ opcode_ # "ping" /\ (~con_ => closes > 0)
    /\ con_ => ~garbled /\ Place(k, start)

\* the peer keeps to its script
Scripted == script \in Frames /\ isClient_ \in BOOLEAN /\ sent \in 0 .. Len(Bytes)

MessageInv ==
    /\ Scripted
    /\ class = "tcp" /\ NoPings =>
          silent \/ cut \/ \E k \in 0 .. NFrames : Exact(k, Said(script), Starts(script, isClient_))

-----------------------------------------------------------------------------
\* What a step finds, once what was said and where the frames begin are given names.
Setting(said, start) ==
    /\ class = "tcp" /\ NoPings /\ Scripted
    /\ Tells(said, script) /\ LaidOut(start, script, isClient_)
    /\ Len(Bytes) = start[NFrames]
    /\ \A i \in 1 .. NFrames :
          /\ start[i] <= Len(Bytes)
          /\ \A j \in 1 .. FrameLength(script, isClient_, i) : Bytes[start[i - 1] + j] = Pieces(i)[j]
    /\ script' = script /\ isClient_' = isClient_

\* The frame that comes after the first k.
NextFrame(k, said, start) ==
    /\ k \in Nat /\ k + 1 \in 1 .. NFrames
    /\ start[k] \in Nat /\ start[k + 1] \in Nat
    /\ start[k + 1] = start[k] + FrameLength(script, isClient_, k + 1)
    /\ Marked(Bytes, start[k], k + 1)
    /\ said[k + 1] = Further(said[k], k + 1, script[k + 1])
    /\ script[k + 1] \in Frame /\ script[k + 1].size \in Nat /\ script[k + 1].op # "ping"

LEMMA FrameAfter ==
    ASSUME NEW said, NEW start, Setting(said, start), NEW k \in 0 .. NFrames, k < NFrames
    PROVE  NextFrame(k, said, start)
<1>1. k \in Nat /\ k + 1 \in 1 .. NFrames /\ (k + 1) - 1 = k
  BY WebSocketAssumption
<1>2. PICK i \in 1 .. NFrames : i = k + 1
  BY <1>1
<1>3. i - 1 = k
  BY <1>1, <1>2
<1>4. /\ start[i - 1] \in Nat /\ start[i] \in Nat
      /\ start[i] = start[i - 1] + FrameLength(script, isClient_, i)
  <2>1. i - 1 \in 0 .. NFrames /\ i \in 0 .. NFrames
    BY WebSocketAssumption
  <2> QED
    BY <2>1 DEF Setting, LaidOut
<1>6. said[i] = Further(said[i - 1], i, script[i])
  BY DEF Setting, Tells
<1>7. script \in Frames /\ script[i] \in Frame /\ script[i].op # "ping"
  <2>1. script \in [1 .. NFrames -> Frame]
    BY DEF Setting, Scripted, Frames
  <2> QED
    BY <2>1 DEF Setting, NoPings, Frames
<1>8. script[i].size \in Nat
  BY <1>7, WebSocketAssumption DEF Frame
<1>9. Marked(Bytes, start[i - 1], i)
  <2> DEFINE o == start[i - 1]
             long == IF script[i].long THEN 1 ELSE 0
             mask == IF isClient_ THEN 0 ELSE 1
             size == script[i].size
  <2>1. FrameLength(script, isClient_, i) = 2 + long + mask + size
    BY DEF FrameLength
  <2>2. Marked(Pieces(i), 0, i)
    BY <1>7, PiecesAre
  <2>3. \A j \in 1 .. 2 + long + mask + size : Bytes[o + j] = Pieces(i)[j]
    BY <2>1 DEF Setting
  <2>4. long \in {0, 1} /\ mask \in {0, 1} /\ size \in Nat /\ o \in Nat
    BY <1>4, <1>8
  <2>5. PICK b, q : b = Bytes /\ q = Pieces(i)
    OBVIOUS
  <2>6. /\ q[1] = <<i, "header">> /\ q[2] = <<i, "header2">>
        /\ long = 1 => q[3] = <<i, "len">>
        /\ mask = 1 => q[3 + long] = <<i, "mask">>
        /\ size > 0 => q[3 + long + mask] = <<i, "payload">>
    <3>1. 0 + 1 = 1 /\ 0 + 2 = 2 /\ 0 + 3 = 3
      OBVIOUS
    <3> QED
      BY <2>2, <2>5, <3>1 DEF Marked
  <2> HIDE DEF o, long, mask, size
  <2>7. /\ 1 \in 1 .. 2 + long + mask + size /\ 2 \in 1 .. 2 + long + mask + size
        /\ long = 1 => 3 \in 1 .. 2 + long + mask + size
        /\ mask = 1 => 3 + long \in 1 .. 2 + long + mask + size
        /\ size > 0 => 3 + long + mask \in 1 .. 2 + long + mask + size
    BY <2>4
  <2>8. \A j \in 1 .. 2 + long + mask + size : b[o + j] = q[j]
    BY <2>3, <2>5
  <2>9. /\ b[o + 1] = <<i, "header">> /\ b[o + 2] = <<i, "header2">>
        /\ long = 1 => b[o + 3] = <<i, "len">>
        /\ mask = 1 => b[o + (3 + long)] = <<i, "mask">>
        /\ size > 0 => b[o + (3 + long + mask)] = <<i, "payload">>
    BY <2>6, <2>7, <2>8
  <2>10. o + (3 + long) = o + 3 + long /\ o + (3 + long + mask) = o + 3 + long + mask
    BY <2>4
  <2> QED
    BY <2>5, <2>9, <2>10 DEF Marked, o, long, mask, size
<1> QED
  BY <1>1, <1>2, <1>3, <1>4, <1>6, <1>7, <1>8, <1>9 DEF NextFrame

\* Where more comes after the first k frames, the next one begins.
LEMMA HeaderNext ==
    ASSUME NEW said, NEW start, Setting(said, start), NEW k \in 0 .. NFrames, start[k] < Len(Bytes)
    PROVE  k < NFrames /\ Bytes[start[k] + 1] = <<k + 1, "header">>
<1>1. start[NFrames] \in Nat /\ Len(Bytes) = start[NFrames]
  BY WebSocketAssumption DEF Setting, LaidOut
<1>2. k # NFrames
  BY <1>1
<1>3. k < NFrames
  BY <1>2, WebSocketAssumption
<1> QED
  BY <1>3, FrameAfter DEF NextFrame, Marked

LEMMA BeginExact ==
    ASSUME NEW said, NEW start, Setting(said, start), NEW k \in 0 .. NFrames, ~garbled,
           NEW t, NEW r, NEW w, Begin("header", 2, start[k], t, r, w)
    PROVE  ~garbled' /\ Place(k, start)'
<1>1. class = "tcp" /\ start[k] \in Nat
  BY DEF Setting, LaidOut
<1>2. /\ taken' = start[k] + 0
      /\ rd' = [part |-> "header", want |-> 2 - 0, at |-> start[k]]
      /\ garbled' = (start[k] < Len(Bytes) /\ 2 > 0 /\ Bytes[start[k] + 1][2] # "header")
  BY <1>1 DEF Begin
<1>3. taken' = start[k] /\ rd' = [part |-> "header", want |-> 2, at |-> start[k]]
  BY <1>1, <1>2
<1>4. ~garbled'
  <2>1. ASSUME start[k] < Len(Bytes) PROVE Bytes[start[k] + 1][2] = "header"
    <3>1. Bytes[start[k] + 1] = <<k + 1, "header">>
      BY <2>1, HeaderNext
    <3> QED
      BY <3>1
  <2> QED
    BY <1>2, <2>1
<1> QED
  BY <1>3, <1>4 DEF Place

LEMMA SendMsgExact ==
    ASSUME NEW said, NEW start, Setting(said, start), NEW k \in 0 .. NFrames, ~garbled, con_,
           NEW q, NEW t, SendMsg(q, start[k], t)
    PROVE  ~garbled' /\ Place(k, start)'
<1>1. CASE q = 0
  <2>1. Begin("header", 2, start[k], t, NoRead, FALSE)
    BY <1>1 DEF SendMsg
  <2> QED
    BY <2>1, BeginExact
<1>2. CASE q # 0
  <2>1. rd' = NoRead /\ taken' = start[k] /\ garbled' = garbled
    BY <1>2 DEF SendMsg
  <2>2. NoRead' = NoRead
    BY DEF NoRead
  <2> QED
    BY <2>1, <2>2 DEF Place
<1> QED
  BY <1>1, <1>2

\* The next part of a frame is begun.
LEMMA ReadsExact ==
    ASSUME NEW said, NEW start, Setting(said, start), NEW k \in 0 .. NFrames, Exact(k, said, start), k < NFrames,
           NEW part \in Part, NEW n \in Nat, NEW from \in Nat, NEW t, Reads(part, n, from, t), closes = 0,
           frame' = k + 1, fin_' = script[k + 1].fin, script[k + 1].op \in {"text", "cont"},
           pending_' = TRUE, opcode_' # "ping",
           n > 0 => Bytes[from + 1] = <<k + 1, part>>,
           Inner(k + 1, part, from, from + n, start)
    PROVE  Exact(k, said, start)'
<1>1. con_ /\ con_' = con_ /\ msg_' = msg_ /\ delivered' = delivered /\ closes' = closes
  BY DEF Reads, history
<1>2. /\ taken' = from + 0 /\ rd' = [part |-> part, want |-> n - 0, at |-> from]
      /\ garbled' = (garbled \/ (from < Len(Bytes) /\ n > 0 /\ Bytes[from + 1][2] # part))
  BY DEF Reads, Begin, Setting
<1>3. ~garbled'
  <2>1. n > 0 => Bytes[from + 1][2] = part
    OBVIOUS
  <2> QED
    BY <1>1, <1>2, <2>1 DEF Exact
<1>4. taken' = from /\ rd' = [part |-> part, want |-> n, at |-> from]
  BY <1>2
<1>5. rd'.part = part /\ rd'.at = from /\ rd'.want = n /\ rd' \in Reading
  BY <1>4 DEF Reading
<1>6. Inner(k + 1, rd.part, rd.at, taken + rd.want, start)'
  BY <1>4, <1>5 DEF Inner, Setting
<1>7. Within(k, start)'
  BY <1>4, <1>5, <1>6 DEF Within, Setting, Reading
<1>8. Place(k, start)'
  BY <1>7 DEF Place
<1>9. delivered' = said[k].whole /\ msg_' = said[k].begun /\ (~con_' => closes' > 0)
  BY <1>1 DEF Exact
<1> QED
  BY <1>3, <1>8, <1>9 DEF Exact

\* The payload of a frame is begun.
LEMMA PayloadBegun ==
    ASSUME NEW said, NEW start, Setting(said, start), NEW k \in 0 .. NFrames, Exact(k, said, start), k < NFrames,
           NEW from, from = start[k] + 2 + (IF script[k + 1].long THEN 1 ELSE 0) + (IF isClient_ THEN 0 ELSE 1),
           NEW t, Reads("payload", script[k + 1].size, from, t), closes = 0,
           frame' = k + 1, fin_' = script[k + 1].fin, script[k + 1].op \in {"text", "cont"},
           pending_' = TRUE, opcode_' # "ping"
    PROVE  Exact(k, said, start)'
<1> DEFINE long == IF script[k + 1].long THEN 1 ELSE 0
           mask == IF isClient_ THEN 0 ELSE 1
           n == script[k + 1].size
<1>1. NextFrame(k, said, start)
  BY FrameAfter
<1>2. k \in Nat /\ start[k] \in Nat /\ n \in Nat /\ (k + 1) - 1 = k /\ long \in Nat /\ mask \in Nat
  BY <1>1 DEF NextFrame
<1>3. n > 0 => Bytes[start[k] + 3 + long + mask] = <<k + 1, "payload">>
  BY <1>1 DEF NextFrame, Marked
<1>4. from = start[k] + 2 + long + mask
  OBVIOUS
<1>5. Inner(k + 1, "payload", start[k] + 2 + long + mask, start[k] + 2 + long + mask + n, start)
  BY <1>2 DEF Inner
<1> HIDE DEF long, mask
<1>6. from \in Nat /\ from + 1 = start[k] + 3 + long + mask
  BY <1>2, <1>4
<1>7. Inner(k + 1, "payload", from, from + n, start)
  BY <1>4, <1>5
<1>8. n > 0 => Bytes[from + 1] = <<k + 1, "payload">>
  BY <1>3, <1>6
<1>9. "payload" \in Part
  BY DEF Part
<1> QED
  BY <1>2, <1>6, <1>7, <1>8, <1>9, ReadsExact

LEMMA LenReadExact ==
    ASSUME NEW said, NEW start, Setting(said, start), NEW k \in 0 .. NFrames, Exact(k, said, start), k < NFrames,
           NEW from, from = start[k] + 2 + (IF script[k + 1].long THEN 1 ELSE 0),
           NEW t, LenRead(script[k + 1].size, from, t), closes = 0,
           frame' = k + 1, fin_' = script[k + 1].fin, script[k + 1].op \in {"text", "cont"},
           pending_' = TRUE, opcode_' # "ping"
    PROVE  Exact(k, said, start)'
<1> DEFINE long == IF script[k + 1].long THEN 1 ELSE 0
<1>1. NextFrame(k, said, start)
  BY FrameAfter
<1>2. k \in Nat /\ start[k] \in Nat /\ script[k + 1].size \in Nat /\ (k + 1) - 1 = k /\ long \in Nat
  BY <1>1 DEF NextFrame
<1>3. PICK mask \in Masks : IF mask THEN Reads("mask", 1, from, t) ELSE Reads("payload", script[k + 1].size, from, t)
  BY DEF LenRead
<1>4. con_
  BY <1>3 DEF Reads
<1>5. mask = ~isClient_
  BY <1>3, <1>4 DEF Masks, Exact
<1>6. CASE isClient_
  <2>1. Reads("payload", script[k + 1].size, from, t)
    BY <1>3, <1>5, <1>6
  <2>2. from = start[k] + 2 + long + (IF isClient_ THEN 0 ELSE 1)
    BY <1>2, <1>6
  <2> QED
    BY <2>1, <2>2, PayloadBegun
<1>7. CASE ~isClient_
  <2>1. Reads("mask", 1, from, t)
    BY <1>3, <1>5, <1>7
  <2>2. Inner(k + 1, "mask", start[k] + 2 + long, start[k] + 2 + long + 1, start)
    BY <1>2, <1>7 DEF Inner
  <2>3. Bytes[start[k] + 3 + long] = <<k + 1, "mask">>
    BY <1>1, <1>7 DEF NextFrame, Marked
  <2>4. from = start[k] + 2 + long
    OBVIOUS
  <2> HIDE DEF long
  <2>5. from \in Nat /\ from + 1 = start[k] + 3 + long /\ 1 \in Nat /\ "mask" \in Part
    BY <1>2, <2>4 DEF Part
  <2>6. Bytes[from + 1] = <<k + 1, "mask">> /\ Inner(k + 1, "mask", from, from + 1, start)
    BY <2>2, <2>3, <2>4, <2>5
  <2> QED
    BY <2>1, <2>5, <2>6, ReadsExact
<1> QED
  BY <1>6, <1>7

\* The header of a frame is read.
LEMMA HeaderReadExact ==
    ASSUME NEW said, NEW start, Setting(said, start), NEW k \in 0 .. NFrames, Exact(k, said, start), k < NFrames,
           con_, NEW t, HeaderRead(k + 1, start[k] + 2, t), closes = 0
    PROVE  Exact(k, said, start)'
<1> DEFINE f == script[k + 1]
<1>1. NextFrame(k, said, start)
  BY FrameAfter
<1>2. k \in Nat /\ start[k] \in Nat /\ f \in Frame /\ f.op # "ping" /\ (k + 1) - 1 = k /\ k + 1 # NoFrame
  BY <1>1 DEF NextFrame, NoFrame
<1>3. /\ pending_' = TRUE /\ frame' = k + 1 /\ fin_' = f.fin
      /\ opcode_' = IF f.op = "cont" THEN opcode_ ELSE f.op
      /\ IF opcode_' = "close" THEN Dispose(start[k] + 2, t)
         ELSE IF f.long THEN Reads("len", 1, start[k] + 2, t) ELSE LenRead(f.size, start[k] + 2, t)
  BY <1>2 DEF HeaderRead, Headers
<1>4. opcode_ # "ping" /\ opcode_' # "ping"
  BY <1>2, <1>3 DEF Exact
<1>5. CASE opcode_' = "close"
  <2>1. Dispose(start[k] + 2, t)
    BY <1>3, <1>5
  <2>2. ~con_' /\ closes' = 1 /\ msg_' = msg_ /\ delivered' = delivered
    BY <2>1 DEF Dispose
  <2> QED
    BY <2>2, <1>4 DEF Exact
<1>6. CASE opcode_' # "close"
  <2>1. f.op \in {"text", "cont"}
    BY <1>2, <1>3, <1>6 DEF Frame
  <2>2. CASE f.long
    <3>1. Reads("len", 1, start[k] + 2, t)
      BY <1>3, <1>6, <2>2
    <3>2. Inner(k + 1, "len", start[k] + 2, start[k] + 2 + 1, start)
      BY <1>2, <2>2 DEF Inner
    <3>3. 1 \in Nat /\ start[k] + 2 \in Nat /\ (start[k] + 2) + 1 = start[k] + 3 /\ "len" \in Part
      BY <1>2 DEF Part
    <3>4. Bytes[(start[k] + 2) + 1] = <<k + 1, "len">>
      BY <1>1, <2>2, <3>3 DEF NextFrame, Marked
    <3> QED
      BY <1>3, <1>4, <2>1, <3>1, <3>2, <3>3, <3>4, ReadsExact
  <2>3. CASE ~f.long
    <3>1. LenRead(f.size, start[k] + 2, t)
      BY <1>3, <1>6, <2>3
    <3>2. start[k] + 2 = start[k] + 2 + (IF f.long THEN 1 ELSE 0)
      BY <1>2, <2>3
    <3> QED
      BY <1>3, <1>4, <2>1, <3>1, <3>2, LenReadExact
  <2> QED
    BY <2>2, <2>3
<1> QED
  BY <1>5, <1>6

\* The payload of a frame is read: what was said with k + 1 frames is delivered.
LEMMA PayloadReadExact ==
    ASSUME NEW said, NEW start, Setting(said, start), NEW k \in 0 .. NFrames, Exact(k, said, start),
           Within(k, start), con_, NEW t, PayloadRead(start[k + 1], t), closes = 0, opcode_' = opcode_
    PROVE  k + 1 \in 0 .. NFrames /\ Exact(k + 1, said, start)'
<1> DEFINE f == script[k + 1]
           m == msg_ \o [j \in 1 .. f.size |-> k + 1]
<1>1. NextFrame(k, said, start)
  BY FrameAfter DEF Within
<1>2. /\ k \in Nat /\ k + 1 \in 0 .. NFrames /\ said[k + 1] = Further(said[k], k + 1, f) /\ f.op \in {"text", "cont"}
      /\ fin_ = f.fin /\ frame = k + 1
  BY <1>1 DEF NextFrame, Within
<1>3. delivered = said[k].whole /\ msg_ = said[k].begun /\ opcode_ # "ping" /\ ~garbled
  BY DEF Exact
<1>4. said[k + 1] = IF f.fin THEN [whole |-> Append(delivered, m), begun |-> <<>>]
                    ELSE [whole |-> delivered, begun |-> m]
  BY <1>2, <1>3 DEF Further
<1>5. msg_ \o Payload = m
  BY <1>2, <1>3 DEF Payload
<1> HIDE DEF m
<1>6. CASE fin_
  <2>1. OnDone(m, start[k + 1], t)
    BY <1>5, <1>6 DEF PayloadRead
  <2>2. msg_' = <<>> /\ delivered' = Append(delivered, m) /\ con_' = con_ /\ closes' = closes
    BY <1>3, <2>1 DEF OnDone
  <2>3. PICK q : SendMsg(q, start[k + 1], t)
    BY <2>1 DEF OnDone
  <2>4. ~garbled' /\ Place(k + 1, start)'
    BY <1>2, <1>3, <2>3, SendMsgExact
  <2>5. said[k + 1].whole = delivered' /\ said[k + 1].begun = msg_'
    BY <1>2, <1>4, <1>6, <2>2
  <2> QED
    BY <1>2, <1>3, <2>2, <2>4, <2>5 DEF Exact
<1>7. CASE ~fin_
  <2>1. Begin("header", 2, start[k + 1], t, OtherRead, writing) /\ msg_' = m /\ delivered' = delivered
        /\ con_' = con_ /\ closes' = closes
    BY <1>5, <1>7 DEF PayloadRead, history
  <2>2. ~garbled' /\ Place(k + 1, start)'
    BY <1>2, <1>3, <2>1, BeginExact
  <2>3. said[k + 1].whole = delivered' /\ said[k + 1].begun = msg_'
    BY <1>2, <1>4, <1>7, <2>1
  <2> QED
    BY <1>2, <1>3, <2>1, <2>2, <2>3 DEF Exact
<1> QED
  BY <1>6, <1>7

\* What a step leaves.
Left(said, start) == silent' \/ cut' \/ \E k \in 0 .. NFrames : Exact(k, said, start)'

\* A header read, of which a part may be taken already, comes to the end of the header.
LEMMA HeaderDoneExact ==
    ASSUME NEW said, NEW start, Setting(said, start), NEW k \in 0 .. NFrames, Exact(k, said, start), con_,
           rd.part = "header", rd.at = start[k], taken + rd.want = start[k] + 2,
           start[k] < Len(Bytes), NEW t, ReadDone(rd.part, rd.at, taken + rd.want, t), closes = 0
    PROVE  Left(said, start)
<1>1. k < NFrames /\ Bytes[rd.at + 1] = <<k + 1, "header">>
  BY HeaderNext
<1>2. FrameAt(rd.at) = k + 1
  BY <1>1 DEF FrameAt, Exact
<1>3. HeaderRead(k + 1, start[k] + 2, t)
  BY <1>2 DEF ReadDone
<1>4. Exact(k, said, start)'
  BY <1>1, <1>3, HeaderReadExact
<1> QED
  BY <1>4 DEF Left

\* So does a read of another part of the frame.
LEMMA WithinDoneExact ==
    ASSUME NEW said, NEW start, Setting(said, start), NEW k \in 0 .. NFrames, Exact(k, said, start), con_,
           Within(k, start), NEW t, ReadDone(rd.part, rd.at, taken + rd.want, t), closes = 0
    PROVE  Left(said, start)
<1>1. /\ k < NFrames /\ frame = k + 1 /\ script[k + 1].op \in {"text", "cont"} /\ fin_ = script[k + 1].fin
      /\ pending_ = TRUE
  BY DEF Within
<1>2. NextFrame(k, said, start)
  BY <1>1, FrameAfter
<1>3. /\ k \in Nat /\ (k + 1) - 1 = k /\ start[k] \in Nat /\ script[k + 1].size \in Nat
      /\ start[k + 1] = start[k] + FrameLength(script, isClient_, k + 1)
      /\ opcode_ # "ping" /\ ~garbled
  BY <1>2 DEF NextFrame, Exact
<1> DEFINE long == IF script[k + 1].long THEN 1 ELSE 0
           mask == IF isClient_ THEN 0 ELSE 1
           size == script[k + 1].size
           end == taken + rd.want
<1>4. Inner(k + 1, rd.part, rd.at, end, start)
  BY DEF Within
<1>5. \/ rd.part = "len" /\ end = start[k] + 2 + 1 /\ long = 1
      \/ rd.part = "mask" /\ end = start[k] + 2 + long + 1 /\ mask = 1
      \/ rd.part = "payload" /\ end = start[k] + 2 + long + mask + size
  BY <1>3, <1>4 DEF Inner
<1>6. start[k + 1] = start[k] + (2 + long + mask + size)
  BY <1>3 DEF FrameLength
<1>7. long \in Nat /\ mask \in Nat
  OBVIOUS
<1>8. Sizes = {size}
  BY <1>1, <1>3 DEF Sizes
<1> HIDE DEF long, mask, end, size
<1>9. ReadDone(rd.part, rd.at, end, t)
  BY DEF end
<1>10. CASE rd.part = "len" /\ end = start[k] + 2 + 1 /\ long = 1
  <2>1. LenRead(size, end, t) /\ pending_' = pending_ /\ opcode_' = opcode_ /\ fin_' = fin_ /\ frame' = frame
    BY <1>8, <1>9, <1>10 DEF ReadDone, parsing
  <2>2. end = start[k] + 2 + long
    BY <1>10
  <2>3. Exact(k, said, start)'
    BY <1>1, <1>3, <2>1, <2>2, LenReadExact DEF long, size
  <2> QED
    BY <2>3 DEF Left
<1>11. CASE rd.part = "mask" /\ end = start[k] + 2 + long + 1 /\ mask = 1
  <2>1. Reads("payload", size, end, t) /\ pending_' = pending_ /\ opcode_' = opcode_ /\ fin_' = fin_ /\ frame' = frame
    BY <1>8, <1>9, <1>11 DEF ReadDone, parsing
  <2>2. end = start[k] + 2 + long + mask
    BY <1>11
  <2>3. Exact(k, said, start)'
    BY <1>1, <1>3, <2>1, <2>2, PayloadBegun DEF long, mask, size
  <2> QED
    BY <2>3 DEF Left
<1>12. CASE rd.part = "payload" /\ end = start[k] + 2 + long + mask + size
  <2>1. PayloadRead(end, t) /\ opcode_' = opcode_
    BY <1>9, <1>12 DEF ReadDone, parsing
  <2>2. end = start[k + 1]
    BY <1>3, <1>6, <1>7, <1>12 DEF size
  <2>3. k + 1 \in 0 .. NFrames /\ Exact(k + 1, said, start)'
    BY <2>1, <2>2, PayloadReadExact
  <2> QED
    BY <2>3 DEF Left
<1> QED
  BY <1>5, <1>10, <1>11, <1>12

LEMMA ReadFailedExact ==
    ASSUME NEW said, NEW start, Setting(said, start), NEW k \in 0 .. NFrames, Exact(k, said, start),
           NEW part, NEW t, ReadFailed(part, t), closes = 0
    PROVE  Left(said, start)
<1>1. CASE part = "header"
  <2>1. Dispose(taken, t) /\ opcode_' = opcode_
    BY <1>1 DEF ReadFailed, parsing
  <2>2. ~con_' /\ closes' = 1 /\ msg_' = msg_ /\ delivered' = delivered
    BY <2>1 DEF Dispose
  <2>3. Exact(k, said, start)'
    BY <2>1, <2>2 DEF Exact
  <2> QED
    BY <2>3 DEF Left
<1>2. CASE part # "header"
  BY <1>2 DEF ReadFailed, Left
<1> QED
  BY <1>1, <1>2

\* Only that of a failed read changes the one, and only send() the other, and never back.
LEMMA SilentStays == silent /\ WsNext => silent'
BY DEF WsNext, Loop, PeerSends, PeerGoes, Send, Readable, ReadTimeout, NextTick, Writable, WriteDone, Run,
       ReadDone, ReadFailed, Dispose, HeaderRead, LenRead, Reads, PayloadRead, OnDone, history

LEMMA CutStays == cut /\ WsNext => cut'
BY DEF WsNext, Loop, PeerSends, PeerGoes, Send, Readable, ReadTimeout, NextTick, Writable, WriteDone, Run,
       ReadDone, ReadFailed, Dispose, HeaderRead, LenRead, Reads, PayloadRead, OnDone, history

\* Nothing of what an Exact is about has changed.
LEMMA SamePlace ==
    ASSUME NEW said, NEW start, Setting(said, start), NEW k \in 0 .. NFrames, Exact(k, said, start),
           UNCHANGED <<taken, rd, con_, pending_, parsing, msg_, delivered, closes, garbled>>
    PROVE  Left(said, start)
<1>1. /\ taken' = taken /\ rd' = rd /\ con_' = con_ /\ pending_' = pending_ /\ opcode_' = opcode_ /\ fin_' = fin_
      /\ frame' = frame /\ msg_' = msg_ /\ delivered' = delivered /\ closes' = closes /\ garbled' = garbled
      /\ script' = script /\ isClient_' = isClient_
  BY DEF parsing, Setting
<1>2. Exact(k, said, start)'
  BY <1>1 DEF Exact, Place, Within, Inner, NoRead, Reading
<1> QED
  BY <1>2 DEF Left

\* A send() cancels the read of a header.
LEMMA SendExact ==
    ASSUME NEW said, NEW start, Setting(said, start), NEW k \in 0 .. NFrames, Exact(k, said, start), Send
    PROVE  Left(said, start)
<1>1. /\ con_ /\ ~garbled /\ Place(k, start) /\ con_' = con_ /\ opcode_' = opcode_ /\ msg_' = msg_
      /\ delivered' = delivered /\ closes' = closes
  BY DEF Send, parsing, Exact
<1>2. CASE pending_
  <2>1. UNCHANGED <<taken, rd, con_, pending_, parsing, msg_, delivered, closes, garbled>>
    BY <1>2 DEF Send, io
  <2> QED
    BY <2>1, SamePlace
<1>3. CASE ~pending_
  <2>1. CASE rd = [part |-> "header", want |-> 1, at |-> start[k]] /\ taken = start[k] + 1
    <3>1. rd.part = "header" /\ NoRead.part = "none" /\ rd.at = start[k]
      BY <2>1 DEF NoRead
    <3>2. start[k] \in Nat
      BY DEF Setting, LaidOut
    <3>3. rd # NoRead /\ taken > rd.at
      BY <2>1, <3>1, <3>2
    <3>4. cut'
      BY <1>3, <3>3 DEF Send
    <3> QED
      BY <3>4 DEF Left
  <2>2. CASE taken = start[k]
    <3>1. SendMsg(msgs_to_send_ + 1, start[k], ticks)
      BY <1>3, <2>2 DEF Send
    <3>2. ~garbled' /\ Place(k, start)'
      BY <1>1, <3>1, SendMsgExact
    <3>3. Exact(k, said, start)'
      BY <1>1, <3>2 DEF Exact
    <3> QED
      BY <3>3 DEF Left
  <2> QED
    BY <1>1, <1>3, <2>1, <2>2 DEF Place, Within
<1> QED
  BY <1>2, <1>3

\* The event of a read: it fails, it is done, or it goes on.
LEMMA ReadableExact ==
    ASSUME NEW said, NEW start, Setting(said, start), NEW k \in 0 .. NFrames, Exact(k, said, start),
           closes = 0, con_, Readable
    PROVE  Left(said, start)
<1>1. Place(k, start) /\ ~garbled /\ rd # NoRead
  BY DEF Readable, Exact
<1>2. PICK got : /\ got = Least(rd.want, sent - taken)
                 /\ \/ got = 0 /\ ReadFailed(rd.part, ticks)
                    \/ got > 0 /\ got = rd.want /\ ReadDone(rd.part, rd.at, taken + got, ticks)
                    \/ /\ got > 0 /\ got < rd.want
                       /\ taken' = taken + got /\ rd' = [rd EXCEPT !.want = @ - got]
                       /\ UNCHANGED <<peer, ticks, writing, ws, history, garbled>>
  BY DEF Readable
<1>3. sent \in Nat /\ start[k] \in Nat /\ sent <= Len(Bytes) /\ Len(Bytes) \in Nat
  <2>1. Len(Bytes) = start[NFrames] /\ start[NFrames] \in Nat
    BY WebSocketAssumption DEF Setting, LaidOut
  <2> QED
    BY <2>1 DEF Setting, Scripted, LaidOut
<1>4. rd \in Reading /\ taken \in Nat
  BY <1>1, <1>3 DEF Place, Within, Reading, Part
<1>5. rd.want \in Nat
  BY <1>4 DEF Reading
<1>6. got \in Int /\ got <= rd.want /\ got <= sent - taken
  BY <1>2, <1>3, <1>4, <1>5 DEF Least
<1>7. CASE got = 0 /\ ReadFailed(rd.part, ticks)
  BY <1>7, ReadFailedExact
<1>8. CASE got > 0 /\ got = rd.want /\ ReadDone(rd.part, rd.at, taken + got, ticks)
  <2>1. ReadDone(rd.part, rd.at, taken + rd.want, ticks)
    BY <1>8
  <2>2. taken < Len(Bytes)
    BY <1>3, <1>4, <1>6, <1>8
  <2>3. CASE \/ rd = [part |-> "header", want |-> 2, at |-> start[k]] /\ taken = start[k]
             \/ rd = [part |-> "header", want |-> 1, at |-> start[k]] /\ taken = start[k] + 1
    <3>1. rd.part = "header" /\ rd.at = start[k]
      BY <2>3
    <3>2. taken + rd.want = start[k] + 2 /\ start[k] < Len(Bytes)
      BY <1>3, <2>2, <2>3
    <3> QED
      BY <2>1, <3>1, <3>2, HeaderDoneExact
  <2>4. CASE Within(k, start)
    BY <2>1, <2>4, WithinDoneExact
  <2> QED
    BY <1>1, <2>3, <2>4 DEF Place
<1>9. CASE /\ got > 0 /\ got < rd.want
           /\ taken' = taken + got /\ rd' = [rd EXCEPT !.want = @ - got]
           /\ UNCHANGED <<peer, ticks, writing, ws, history, garbled>>
  <2>1. /\ con_' = con_ /\ pending_' = pending_ /\ opcode_' = opcode_ /\ fin_' = fin_
        /\ frame' = frame /\ msg_' = msg_ /\ delivered' = delivered /\ closes' = closes /\ garbled' = garbled
        /\ script' = script /\ isClient_' = isClient_
    BY <1>9 DEF ws, parsing, peer, history
  <2>2. /\ rd'.part = rd.part /\ rd'.at = rd.at /\ rd'.want = rd.want - got
        /\ rd' = [part |-> rd.part, want |-> rd.want - got, at |-> rd.at]
    BY <1>4, <1>9 DEF Reading
  <2>3. rd.want - got \in Nat /\ taken + got \in Nat /\ taken' + rd'.want = taken + rd.want
    BY <1>4, <1>5, <1>6, <1>9, <2>2
  <2>4. CASE \/ rd = [part |-> "header", want |-> 2, at |-> start[k]] /\ taken = start[k]
             \/ rd = [part |-> "header", want |-> 1, at |-> start[k]] /\ taken = start[k] + 1
    <3>1. rd.part = "header" /\ rd.at = start[k] /\ rd.want \in {1, 2} /\ taken + rd.want = start[k] + 2
      BY <1>3, <2>4
    <3>2. rd.want = 2 /\ got = 1 /\ rd.want - got = 1
      BY <1>6, <1>9, <3>1
    <3>3. taken = start[k]
      BY <1>3, <1>4, <3>1, <3>2
    <3>4. Place(k, start)'
      BY <1>9, <2>1, <2>2, <3>1, <3>2, <3>3 DEF Place
    <3>5. Exact(k, said, start)'
      BY <1>1, <2>1, <3>4 DEF Exact
    <3> QED
      BY <3>5 DEF Left
  <2>5. CASE Within(k, start)
    <3>1. rd' \in Reading /\ taken' \in Nat
      BY <1>4, <1>9, <2>2, <2>3 DEF Reading
    <3>2. Inner(k + 1, rd.part, rd.at, taken + rd.want, start)'
      BY <2>1, <2>2, <2>3, <2>5 DEF Within, Inner
    <3>3. Within(k, start)'
      BY <2>1, <2>5, <3>1, <3>2 DEF Within, Reading
    <3>4. Exact(k, said, start)'
      BY <1>1, <2>1, <3>3 DEF Exact, Place
    <3> QED
      BY <3>4 DEF Left
  <2> QED
    BY <1>1, <2>4, <2>5 DEF Place
<1> QED
  BY <1>2, <1>7, <1>8, <1>9

\* A step of the connection or of the program, and what it finds.
LEMMA NextExact ==
    ASSUME NEW said, NEW start, Setting(said, start), NEW k \in 0 .. NFrames, Exact(k, said, start),
           TcpInv, WsNext
    PROVE  Left(said, start)
<1>0. class = "tcp"
  BY DEF Setting
<1>1. /\ writing = FALSE /\ OneTick
      /\ ticks # <<>> \/ rd # NoRead => closes = 0 /\ con_
  BY <1>0 DEF TcpInv, Disposed, Exact
<1>2. con_ => ~garbled /\ Place(k, start)
  BY DEF Exact
<1>3. CASE PeerSends \/ PeerGoes
  <2>1. UNCHANGED <<taken, rd, con_, pending_, parsing, msg_, delivered, closes, garbled>>
    BY <1>3 DEF PeerSends, PeerGoes, io, ws, history
  <2> QED
    BY <2>1, SamePlace
<1>4. CASE Send
  BY <1>4, SendExact
<1>5. CASE Readable
  <2>1. closes = 0 /\ con_
    BY <1>1, <1>5 DEF Readable
  <2> QED
    BY <1>5, <2>1, ReadableExact
<1>6. CASE ReadTimeout
  BY <1>1, <1>6, ReadFailedExact DEF ReadTimeout
<1>7. CASE NextTick
  <2>1. closes = 0 /\ con_
    BY <1>1, <1>7 DEF NextTick
  <2>2. PICK what \in {"run", "wrote", "unwritten"} : ticks = <<Tick(what, "none", 0)>> /\ rd = NoRead
    BY <1>1, <1>7 DEF NextTick, OneTick
  <2>3. Head(ticks) = Tick(what, "none", 0) /\ Tail(ticks) = <<>>
    BY <2>2
  <2>4. Head(ticks).what \in {"run", "wrote", "unwritten"}
    BY <2>3 DEF Tick
  <2>5. Run(<<>>) \/ WriteDone(<<>>)
    BY <1>7, <2>3, <2>4 DEF NextTick
  <2>6. taken = start[k]
    <3>1. Place(k, start) /\ rd.part = "none"
      BY <1>2, <2>1, <2>2 DEF NoRead
    <3>2. ~Within(k, start)
      BY <3>1 DEF Within, Inner
    <3>3. \A n : rd # [part |-> "header", want |-> n, at |-> start[k]]
      BY <3>1
    <3> QED
      BY <3>1, <3>2, <3>3 DEF Place
  <2>7. \E q : SendMsg(q, taken, <<>>) /\ UNCHANGED <<con_, opcode_, msg_, delivered, closes>>
    BY <2>1, <2>5 DEF Run, WriteDone, history, parsing
  <2>8. PICK q : SendMsg(q, start[k], <<>>)
    BY <2>6, <2>7
  <2>9. ~garbled' /\ Place(k, start)'
    BY <1>2, <2>1, <2>8, SendMsgExact
  <2>10. Exact(k, said, start)'
    BY <2>7, <2>9 DEF Exact
  <2> QED
    BY <2>10 DEF Left
<1>8. CASE Writable
  BY <1>1, <1>8 DEF Writable
<1> QED
  BY <1>3, <1>4, <1>5, <1>6, <1>7, <1>8 DEF WsNext, Loop

-----------------------------------------------------------------------------
LEMMA InitMessages == WsInit => MessageInv
<1> SUFFICES ASSUME WsInit PROVE MessageInv
  OBVIOUS
<1> DEFINE said == Said(script)
           start == Starts(script, isClient_)
<1>1. script \in Frames /\ isClient_ \in BOOLEAN
  BY ScriptAssumption DEF WsInit, Frames
<1>2. Tells(said, script) /\ LaidOut(start, script, isClient_)
  BY <1>1, SaidTells, StartsLaidOut
<1> HIDE DEF said, start
<1>3. Len(Bytes) \in Nat
  <2>1. Len(Bytes) = start[NFrames]
    BY <1>1, <1>2, Layout
  <2> QED
    BY <1>2, <2>1, WebSocketAssumption DEF LaidOut
<1>4. Scripted
  BY <1>1, <1>3 DEF WsInit, Scripted
<1>5. 0 \in 0 .. NFrames
  BY WebSocketAssumption
<1>6. Exact(0, said, start)
  <2>1. taken = start[0]
    BY <1>2 DEF WsInit, LaidOut
  <2>2. Place(0, start)
    BY <2>1 DEF WsInit, Place
  <2>3. delivered = said[0].whole /\ msg_ = said[0].begun
    BY <1>2 DEF WsInit, Tells
  <2> QED
    BY <2>2, <2>3 DEF WsInit, Exact
<1> QED
  BY <1>4, <1>5, <1>6 DEF MessageInv, said, start

LEMMA NextMessages == TcpInv /\ MessageInv /\ [WsNext]_wsVars => MessageInv'
<1> SUFFICES ASSUME TcpInv, MessageInv, [WsNext]_wsVars
             PROVE  MessageInv'
  OBVIOUS
<1>1. CASE UNCHANGED wsVars
  <2>1. /\ script' = script /\ class' = class /\ isClient_' = isClient_ /\ sent' = sent /\ taken' = taken /\ rd' = rd
        /\ con_' = con_ /\ pending_' = pending_ /\ opcode_' = opcode_ /\ fin_' = fin_
        /\ frame' = frame /\ msg_' = msg_ /\ delivered' = delivered /\ closes' = closes /\ silent' = silent
        /\ cut' = cut /\ garbled' = garbled
    BY <1>1 DEF wsVars, peer, io, ws, parsing, history
  <2> QED
    BY <2>1 DEF MessageInv, Scripted, Bytes, Pieces, NoPings, Exact, Place, Within, Inner, NoRead, Reading
<1>2. CASE WsNext
  <2>1. /\ script' = script /\ class' = class /\ isClient_' = isClient_
        /\ sent' = sent \/ (sent < Len(Bytes) /\ sent' = sent + 1)
    BY <1>2 DEF WsNext, Loop, PeerSends, PeerGoes, Send, Readable, ReadTimeout, NextTick, Writable, WriteDone,
                ReadDone, ReadFailed, Run, peer
  <2> DEFINE said == Said(script)
             start == Starts(script, isClient_)
  <2>2. Scripted
    BY DEF MessageInv
  <2>3. Tells(said, script) /\ LaidOut(start, script, isClient_)
    BY <2>2, SaidTells, StartsLaidOut DEF Scripted
  <2>4. PICK told, starts : told = said /\ starts = start
    OBVIOUS
  <2>5. said' = told /\ start' = starts
    BY <2>1, <2>4
  <2>6. /\ Len(Bytes) = starts[NFrames]
        /\ \A i \in 1 .. NFrames :
              /\ starts[i] <= Len(Bytes)
              /\ \A j \in 1 .. FrameLength(script, isClient_, i) : Bytes[starts[i - 1] + j] = Pieces(i)[j]
    <3>1. script \in Frames /\ LaidOut(starts, script, isClient_)
      BY <2>2, <2>3, <2>4 DEF Scripted
    <3> QED
      BY <3>1, Layout
  <2>7. Scripted'
    <3>1. Len(Bytes) \in Nat /\ Bytes' = Bytes
      BY <2>1, <2>3, <2>4, <2>6, WebSocketAssumption DEF LaidOut, Bytes, Pieces
    <3> QED
      BY <2>1, <2>2, <3>1 DEF Scripted
  <2>8. ASSUME class' = "tcp", NoPings'
        PROVE  Left(told, starts)
    <3>1. class = "tcp" /\ NoPings
      BY <2>1, <2>8 DEF NoPings
    <3>2. Setting(told, starts)
      BY <2>1, <2>2, <2>3, <2>4, <2>6, <3>1 DEF Setting
    <3>3. CASE silent \/ cut
      BY <1>2, <3>3, SilentStays, CutStays DEF Left
    <3>4. ASSUME NEW k \in 0 .. NFrames, Exact(k, said, start)
          PROVE  Left(told, starts)
      <4>1. Exact(k, told, starts)
        BY <2>4, <3>4
      <4> QED
        BY <1>2, <3>2, <4>1, NextExact
    <3> QED
      BY <3>1, <3>3, <3>4 DEF MessageInv
  <2>9. class' = "tcp" /\ NoPings' =>
          silent' \/ cut' \/ \E k \in 0 .. NFrames : Exact(k, Said(script), Starts(script, isClient_))'
    BY <2>5, <2>8 DEF Left, Exact, Place, Within, Inner, Reading
  <2> QED
    BY <2>7, <2>9 DEF MessageInv
<1> QED
  BY <1>1, <1>2

\* What onMsg_ is called with is what the peer said, message by message (websocket.cpp,
\* read_frame() to read_msg(), and send_msg()), as long as no send() cancels a header that is
\* half read.
THEOREM MessagesExactHolds == WsSpec => []MessagesExact
<1>1. MessageInv => MessagesExact
  <2> SUFFICES ASSUME MessageInv, class = "tcp", ~cut, ~silent, NoPings
               PROVE  IsPrefix(delivered, Messages)
    BY DEF MessagesExact, NoPings
  <2>1. script \in Frames
    BY DEF MessageInv, Scripted
  <2>2. PICK k \in 0 .. NFrames : delivered = Said(script)[k].whole
    BY DEF MessageInv, Exact
  <2> QED
    BY <2>1, <2>2, WholeGrows DEF Messages
<1> QED
  BY <1>1, InitMessages, NextMessages, TcpInvariant, PTL DEF WsSpec
=============================================================================
