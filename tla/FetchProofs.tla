---------------------------- MODULE FetchProofs ----------------------------
(***************************************************************************)
(* Proofs about Fetch for every set of transfers and of answers.           *)
(*                                                                         *)
(* Watched relates what libcurl waits for to the events that are there.    *)
(* They are made of what_, what libcurl has asked for last, so what_ has to*)
(* agree with it; and the events of a transfer that libcurl does not have  *)
(* yet, or has no longer, are gone.  fetch_all() must find its transfers   *)
(* new, or it would begin one again that is under way.                     *)
(***************************************************************************)
EXTENDS Fetch, FiniteSetTheorems, SequenceTheorems, WellFoundedInduction, TLAPS

Typed ==
    /\ all \subseteq Transfer
    /\ easy \in [Transfer -> {"new", "tick", "added", "kept", "deleted"}]
    /\ what_ \in [Transfer -> Curl!Wants \union {"none", "remove"}]
    /\ io \in [Transfer -> SUBSET {"in", "out"}]
    /\ lib \in [Transfer -> Curl!Wants \union {"none", "start"}]

\* A transfer in the hands of libcurl, and one that is not
Asked(t) ==
    /\ lib[t] \in Curl!Wants => easy[t] = "added" /\ what_[t] = lib[t] /\ io[t] = Curl!Events(lib[t])
    /\ lib[t] = "start" => easy[t] = "added" /\ what_[t] = "none" /\ io[t] = {} /\ timeout_
    /\ lib[t] = "none" => io[t] = {}
    /\ easy[t] \in {"new", "tick"} => lib[t] = "none" /\ what_[t] = "none"

AllNew == outcome = "none" => \A t \in all : easy[t] = "new"

CurlInv == Typed /\ (Curl!Works => AllNew /\ \A t \in Transfer : Asked(t))

-----------------------------------------------------------------------------
\* The events that are made for a request of libcurl
LEMMA EventsOf ==
    /\ \A w : Curl!Events(w) \subseteq {"in", "out"}
    /\ Curl!Events("none") = {} /\ Curl!Events("remove") = {}
BY DEF Curl!Events

LEMMA InitCurl == Init => CurlInv
BY DEF Init, Curl!Init, CurlInv, Typed, AllNew, Asked, Curl!Wants, Curl!Works

\* The actions of the program and of the ticks
LEMMA BeginKeeps ==
    ASSUME CurlInv, NEW T \in SUBSET Transfer, Curl!Works, Curl!Begin(T), \A t \in T : easy[t] = "new",
           outcome' # "none" \/ (outcome' = outcome /\ T \intersect all = {})
    PROVE  CurlInv'
<1>1. Typed'
  BY DEF CurlInv, Typed, Curl!Begin
<1>2. AllNew'
  BY DEF CurlInv, AllNew, Typed, Curl!Begin
<1>3. ASSUME NEW t \in Transfer PROVE Asked(t)'
  <2>1. Asked(t)
    BY DEF CurlInv
  <2> QED
    BY <2>1 DEF CurlInv, Typed, Asked, Curl!Begin, Curl!Wants
<1> QED
  BY <1>1, <1>2, <1>3 DEF CurlInv

LEMMA InitRequestKeeps ==
    ASSUME CurlInv, NEW t \in Transfer, Curl!InitRequest(t)
    PROVE  CurlInv'
<1>1. Typed'
  BY DEF CurlInv, Typed, Curl!InitRequest
<1>2. AllNew'
  BY DEF CurlInv, AllNew, Typed, Curl!InitRequest, Curl!fetched
<1>3. ASSUME NEW u \in Transfer PROVE Asked(u)'
  <2>1. Asked(u)
    BY DEF CurlInv, Curl!InitRequest
  <2> QED
    BY <2>1 DEF CurlInv, Typed, Asked, Curl!InitRequest, Curl!Wants
<1> QED
  BY <1>1, <1>2, <1>3 DEF CurlInv

-----------------------------------------------------------------------------
\* What Settle() does to the transfers that have ended, and to the others
LEMMA Settled ==
    ASSUME CurlInv, Curl!Works, NEW E \in SUBSET Transfer, Curl!Settle(E), all' = all,
           \A t \in E : easy[t] = "added"
    PROVE  /\ easy' \in [Transfer -> {"new", "tick", "added", "kept", "deleted"}]
           /\ \A t \in E : easy'[t] \in {"kept", "deleted"}
           /\ \A t \in Transfer \ E : easy'[t] = easy[t]
           /\ AllNew'
<1>1. /\ easy' \in [Transfer -> {"new", "tick", "added", "kept", "deleted"}]
      /\ \A t \in E : easy'[t] \in {"kept", "deleted"}
      /\ \A t \in Transfer \ E : easy'[t] = easy[t]
  BY DEF CurlInv, Typed, Curl!Settle
<1>2. outcome' = "none" => outcome = "none"
  BY DEF Curl!Settle
<1>3. AllNew'
  <2> SUFFICES ASSUME outcome = "none", NEW t \in all PROVE easy'[t] = "new"
    BY <1>2 DEF AllNew
  <2> QED
    BY <1>1 DEF CurlInv, AllNew, Typed
<1> QED
  BY <1>1, <1>3

\* libcurl acts: whoever runs on has the events of what it has asked for, last
LEMMA ActionKeeps ==
    ASSUME CurlInv, Curl!Works,
           NEW S \in SUBSET Curl!Added, NEW use \in SUBSET S, NEW left,
           left \in [Transfer -> SUBSET {"in", "out"}],
           \A t \in Transfer \ use : left[t] = io[t],
           \A t \in use : lib[t] \in Curl!Wants,
           Curl!Action(S, use, left)
    PROVE  CurlInv'
<1> DEFINE now(next) == [t \in Transfer |-> IF t \in S THEN next[t] ELSE lib[t]]
<1>1. PICK next \in [S -> Curl!Wants \union {"ended"}] :
        LET ended == {t \in Transfer : now(next)[t] = "ended"}
            told(t) == t \in S /\ now(next)[t] # lib[t]
            asked(t) == IF ~told(t) THEN what_[t]
                        ELSE IF now(next)[t] # "ended" THEN now(next)[t]
                        ELSE IF lib[t] \in Curl!Wants THEN "remove" ELSE what_[t]
            running == {t \in Transfer : now(next)[t] \in Curl!Wants \union {"start"}}
            again == use # {} /\ running # {}
        IN  /\ lib' = [t \in Transfer |-> IF t \in ended THEN "none" ELSE now(next)[t]]
            /\ what_' = [t \in Transfer |-> asked(t)]
            /\ Curl!Settle(ended)
            /\ timeout_' \in IF running = {} THEN {FALSE}
                             ELSE IF \E t \in running : now(next)[t] = "start" THEN {TRUE} ELSE BOOLEAN
            /\ io' = [t \in Transfer |->
                        IF easy'[t] = "deleted" THEN {}
                        ELSE IF told(t) \/ (again /\ t \in use) THEN Curl!Events(asked(t))
                        ELSE left[t]]
  BY DEF Curl!Action
<1> DEFINE w == now(next)
           ended == {t \in Transfer : w[t] = "ended"}
           told(t) == t \in S /\ w[t] # lib[t]
           asked(t) == IF ~told(t) THEN what_[t]
                       ELSE IF w[t] # "ended" THEN w[t]
                       ELSE IF lib[t] \in Curl!Wants THEN "remove" ELSE what_[t]
           running == {t \in Transfer : w[t] \in Curl!Wants \union {"start"}}
           again == use # {} /\ running # {}
<1>2. all' = all
  BY DEF Curl!Action
<1>3. \A t \in Transfer : /\ t \in S => w[t] = next[t] /\ w[t] \in Curl!Wants \union {"ended"}
                          /\ t \notin S => w[t] = lib[t] /\ w[t] # "ended"
  BY DEF CurlInv, Typed, Curl!Wants
<1>4. \A t \in S : t \in Transfer /\ lib[t] # "none" /\ easy[t] = "added"
  <2> TAKE t \in S
  <2>1. t \in Transfer /\ lib[t] # "none"
    BY DEF Curl!Added
  <2> QED
    BY <2>1 DEF CurlInv, Typed, Asked
<1>5. ended \subseteq S
  BY <1>3
<1>6. /\ easy' \in [Transfer -> {"new", "tick", "added", "kept", "deleted"}]
      /\ \A t \in ended : easy'[t] \in {"kept", "deleted"}
      /\ \A t \in Transfer \ ended : easy'[t] = easy[t]
      /\ AllNew'
  <2>1. Curl!Settle(ended)
    BY <1>1
  <2> HIDE DEF ended
  <2> QED
    BY <2>1, <1>2, <1>4, <1>5, Settled DEF Curl!Added
<1>7. \A t \in Transfer : asked(t) \in Curl!Wants \union {"none", "remove"}
  BY <1>3 DEF CurlInv, Typed, Curl!Wants
<1>8. Typed'
  <2>1. lib' \in [Transfer -> Curl!Wants \union {"none", "start"}]
    BY <1>1, <1>3 DEF CurlInv, Typed
  <2>2. what_' \in [Transfer -> Curl!Wants \union {"none", "remove"}]
    BY <1>1, <1>7
  <2>3. io' \in [Transfer -> SUBSET {"in", "out"}]
    BY <1>1, EventsOf
  <2> QED
    BY <1>2, <1>6, <2>1, <2>2, <2>3 DEF CurlInv, Typed
<1>9. ASSUME NEW t \in Transfer PROVE Asked(t)'
  <2>0. Asked(t)
    BY DEF CurlInv
  <2>1. CASE t \in S /\ w[t] = "ended"
    <3>1. lib'[t] = "none" /\ easy'[t] \in {"kept", "deleted"}
      BY <1>1, <1>6, <2>1
    <3>2. told(t) /\ asked(t) \in {"none", "remove"}
      BY <2>0, <2>1, <1>4 DEF CurlInv, Typed, Asked, Curl!Wants
    <3>3. io'[t] = {}
      BY <1>1, <3>2, EventsOf
    <3> QED
      BY <3>1, <3>3 DEF Asked, Curl!Wants
  <2>2. CASE t \in S /\ w[t] # "ended"
    <3>1. w[t] \in Curl!Wants /\ t \in running /\ lib'[t] = w[t]
      BY <1>1, <1>3, <2>2
    <3>2. easy'[t] = "added"
      BY <1>4, <1>6, <2>2
    <3>3. asked(t) = w[t] /\ what_'[t] = w[t]
      BY <1>1, <2>0, <2>2, <3>1 DEF Asked
    <3>4. io'[t] = Curl!Events(w[t])
      <4>1. CASE told(t) \/ t \in use
        BY <1>1, <3>1, <3>2, <3>3, <4>1
      <4>2. CASE ~told(t) /\ t \notin use
        BY <1>1, <2>0, <2>2, <3>1, <3>2, <4>2 DEF Asked
      <4> QED
        BY <4>1, <4>2
    <3> QED
      BY <3>1, <3>2, <3>3, <3>4 DEF Asked, Curl!Wants
  <2>3. CASE t \notin S
    <3>1. lib'[t] = lib[t] /\ w[t] = lib[t] /\ easy'[t] = easy[t] /\ what_'[t] = what_[t]
      BY <1>1, <1>3, <1>6, <2>3
    <3>2. io'[t] = IF easy[t] = "deleted" THEN {} ELSE io[t]
      BY <1>1, <2>3, <3>1
    <3>3. lib[t] = "start" => timeout_'
      BY <1>1, <3>1
    <3> QED
      BY <2>0, <3>1, <3>2, <3>3 DEF Asked, Curl!Wants
  <2> QED
    BY <2>1, <2>2, <2>3
<1> QED
  BY <1>6, <1>8, <1>9 DEF CurlInv

LEMMA OnSocketKeeps ==
    ASSUME CurlInv, NEW t \in Transfer, NEW e \in {"in", "out"}, Curl!OnSocket(t, e)
    PROVE  CurlInv'
<1> DEFINE left == [io EXCEPT ![t] = @ \ {e}]
<1>1. Curl!Works /\ e \in io[t]
  BY DEF Curl!OnSocket
<1>2. PICK S \in SUBSET Curl!Added : Curl!Action(S \union {t}, {t}, left)
  BY DEF Curl!OnSocket
<1>3. lib[t] \in Curl!Wants
  BY <1>1 DEF CurlInv, Typed, Asked
<1>4. S \union {t} \in SUBSET Curl!Added
  BY <1>3 DEF Curl!Added, Curl!Wants
<1>5. /\ left \in [Transfer -> SUBSET {"in", "out"}]
      /\ \A u \in Transfer \ {t} : left[u] = io[u]
  BY DEF CurlInv, Typed
<1> HIDE DEF left
<1> QED
  BY <1>1, <1>2, <1>3, <1>4, <1>5, ActionKeeps

LEMMA OnTimerKeeps ==
    ASSUME CurlInv, Curl!OnTimer
    PROVE  CurlInv'
<1>1. Curl!Works
  BY DEF Curl!OnTimer
<1>2. PICK S \in SUBSET Curl!Added : Curl!Action(S, {}, io)
  BY DEF Curl!OnTimer
<1>3. io \in [Transfer -> SUBSET {"in", "out"}]
  BY DEF CurlInv, Typed
<1> QED
  BY <1>1, <1>2, <1>3, ActionKeeps

LEMMA OnSocketFailsKeeps ==
    ASSUME CurlInv, NEW t \in Transfer, NEW e \in {"in", "out"}, Curl!OnSocketFails(t, e)
    PROVE  CurlInv'
<1>1. Curl!Works /\ e \in io[t] /\ all' = all
  BY DEF Curl!OnSocketFails
<1>2. easy[t] = "added"
  BY <1>1 DEF CurlInv, Typed, Asked
<1>3. /\ easy' \in [Transfer -> {"new", "tick", "added", "kept", "deleted"}]
      /\ easy'[t] \in {"kept", "deleted"}
      /\ \A u \in Transfer \ {t} : easy'[u] = easy[u]
      /\ AllNew'
  <2>1. Curl!Settle({t})
    BY DEF Curl!OnSocketFails
  <2> QED
    BY <2>1, <1>1, <1>2, Settled
<1>4. Typed'
  BY <1>1, <1>3 DEF CurlInv, Typed, Curl!OnSocketFails
<1>5. ASSUME NEW u \in Transfer PROVE Asked(u)'
  <2>1. Asked(u)
    BY <1>1 DEF CurlInv
  <2>2. CASE u = t
    BY <1>3, <2>2 DEF CurlInv, Typed, Asked, Curl!OnSocketFails, Curl!Wants
  <2>3. CASE u # t
    BY <1>3, <2>1, <2>3 DEF CurlInv, Typed, Asked, Curl!OnSocketFails
  <2> QED
    BY <2>2, <2>3
<1> QED
  BY <1>3, <1>4, <1>5 DEF CurlInv

-----------------------------------------------------------------------------
LEMMA NextCurl == CurlInv /\ [Next]_vars => CurlInv'
<1> SUFFICES ASSUME CurlInv, [Next]_vars PROVE CurlInv'
  OBVIOUS
<1>1. CASE UNCHANGED curl
  BY <1>1 DEF CurlInv, Typed, AllNew, Asked, Curl!Works, curl
<1>2. CASE Curl!Program
  <2>1. CASE Curl!FetchAll
    <3>1. Curl!Works /\ Curl!Begin(all) /\ outcome = "none" /\ outcome' = "waiting"
      BY <2>1 DEF Curl!FetchAll
    <3>2. all \subseteq Transfer /\ \A t \in all : easy[t] = "new"
      BY <3>1 DEF CurlInv, Typed, AllNew
    <3> QED
      BY <3>1, <3>2, BeginKeeps
  <2>2. ASSUME NEW t \in Transfer, Curl!Fetch(t) PROVE CurlInv'
    <3>1. Curl!Works /\ Curl!Begin({t}) /\ easy[t] = "new" /\ t \notin all /\ outcome' = outcome
      BY <2>2 DEF Curl!Fetch
    <3> QED
      BY <3>1, BeginKeeps
  <2> QED
    BY <1>2, <2>1, <2>2 DEF Curl!Program
<1>3. CASE Curl!OnTimer
  BY <1>3, OnTimerKeeps
<1>4. ASSUME NEW t \in Transfer, Curl!Multi(t) PROVE CurlInv'
  BY <1>4, InitRequestKeeps, OnSocketKeeps, OnSocketFailsKeeps DEF Curl!Multi
<1>5. UNCHANGED curl \/ Curl!Next
  BY DEF Next, ByPrio, ByCurl, vars
<1> QED
  BY <1>1, <1>2, <1>3, <1>4, <1>5 DEF Curl!Next

\* libcurl never waits for a socket or a timer that nobody watches, for any number of
\* transfers that come and go in any order: the events are added again after each.
THEOREM WatchedHolds == Spec => []Watched
<1>1. CurlInv => Watched
  BY DEF CurlInv, Asked, Watched, Curl!Watched
<1> QED
  BY <1>1, InitCurl, NextCurl, PTL DEF Spec

-----------------------------------------------------------------------------
(* fetch() settles once, fetch_all() has all responses.  What cnt counts is *)
(* the transfers of fetch_all() that have not resolved.                     *)

Counted ==
    /\ settles \in [Transfer -> Seq({"resolved", "rejected"})]
    /\ \A t \in Transfer : Len(settles[t]) <= 1
    /\ \A t \in Transfer : easy[t] \in {"new", "tick", "added"} => settles[t] = <<>> /\ t \notin responses
    /\ outcome # "none" => cnt = Cardinality(all \ responses)
    /\ outcome = "resolved" => all \subseteq responses

\* CurlMulti has FiniteSets of its own.
LEMMA SameCardinality == \A S : Curl!Cardinality(S) = Cardinality(S)
BY DEF Curl!Cardinality, Cardinality, Curl!IsFiniteSet, IsFiniteSet

LEMMA InitCounted == Init => Counted
BY DEF Init, Curl!Init, Counted

LEMMA BeginCounts ==
    ASSUME CurlInv, Counted, NEW T \in SUBSET Transfer, Curl!Begin(T), \A t \in T : easy[t] = "new",
           \/ outcome' = outcome /\ cnt' = cnt
           \/ outcome' = "waiting" /\ cnt' = Cardinality(all) /\ T = all
    PROVE  Counted'
<1>1. /\ settles' = settles /\ responses' = responses /\ all' = all
      /\ \A t \in Transfer : easy'[t] = IF t \in T THEN "tick" ELSE easy[t]
  BY DEF Curl!Begin
<1>2. T = all => all \ responses = all
  BY DEF Counted
<1> QED
  BY <1>1, <1>2 DEF Counted

\* The transfers in E have ended, of which the bad ones have failed.
LEMMA SettleCounts ==
    ASSUME CurlInv, Counted, Curl!Works, NEW E \in SUBSET Transfer, Curl!Settle(E), all' = all,
           \A t \in E : easy[t] = "added"
    PROVE  Counted'
<1> DEFINE gained == (E \ {t \in E : ~good[t]}) \intersect all
<1>1. /\ responses' = responses \union {t \in E : good[t]}
      /\ settles' = [t \in Transfer |-> IF t \notin E THEN settles[t]
                                        ELSE Append(settles[t], IF good[t] THEN "resolved" ELSE "rejected")]
      /\ cnt' = cnt - Cardinality(gained)
      /\ outcome' = "none" => outcome = "none"
      /\ outcome' = "resolved" => outcome = "resolved" \/ (outcome # "none" /\ cnt' = 0)
      /\ outcome = "none" => outcome' = "none"
  BY SameCardinality DEF Curl!Settle
<1>2. /\ \A t \in E : easy'[t] \in {"kept", "deleted"}
      /\ \A t \in Transfer \ E : easy'[t] = easy[t]
  BY Settled
<1>3. \A t \in E : settles[t] = <<>> /\ t \notin responses
  BY DEF Counted
<1>4. /\ settles' \in [Transfer -> Seq({"resolved", "rejected"})]
      /\ \A t \in Transfer : Len(settles'[t]) <= 1
  BY <1>1, <1>3 DEF Counted
<1>5. \A t \in Transfer : easy'[t] \in {"new", "tick", "added"} => settles'[t] = <<>> /\ t \notin responses'
  BY <1>1, <1>2 DEF Counted
<1>6. outcome' # "none" => cnt' = Cardinality(all \ responses')
  <2> SUFFICES ASSUME outcome # "none" PROVE cnt' = Cardinality(all \ responses')
    BY <1>1
  <2>1. cnt = Cardinality(all \ responses)
    BY DEF Counted
  <2>2. /\ all \ responses' = (all \ responses) \ gained
        /\ gained \subseteq all \ responses
    BY <1>1, <1>3
  <2>3. IsFiniteSet(all \ responses)
    BY TransferAssumption, FS_Subset DEF CurlInv, Typed
  <2>4. /\ IsFiniteSet(gained) /\ Cardinality(gained) \in Nat /\ Cardinality(all \ responses) \in Nat
    BY <2>2, <2>3, FS_Subset, FS_CardinalityType
  <2>5. Cardinality((all \ responses) \ gained)
          = Cardinality(all \ responses) - Cardinality((all \ responses) \intersect gained)
    BY <2>3, FS_Difference
  <2>6. (all \ responses) \intersect gained = gained
    BY <2>2
  <2> HIDE DEF gained
  <2> QED
    BY <1>1, <2>1, <2>2, <2>4, <2>5, <2>6
<1>7. outcome' = "resolved" => all \subseteq responses'
  <2> SUFFICES ASSUME outcome # "none", outcome' # "none", cnt' = 0 PROVE all \subseteq responses'
    BY <1>1 DEF Counted
  <2>1. IsFiniteSet(all \ responses')
    BY TransferAssumption, FS_Subset DEF CurlInv, Typed
  <2>2. all \ responses' = {}
    BY <1>6, <2>1, FS_EmptySet
  <2> QED
    BY <2>2
<1> QED
  BY <1>4, <1>5, <1>6, <1>7 DEF Counted

\* In a call of libcurl only transfers that it has come to their end.
LEMMA ActionCounts ==
    ASSUME CurlInv, Counted, Curl!Works, NEW S \in SUBSET Curl!Added, NEW use, NEW left,
           Curl!Action(S, use, left)
    PROVE  Counted'
<1>1. PICK next \in [S -> Curl!Wants \union {"ended"}] :
        Curl!Settle({t \in Transfer : [u \in Transfer |-> IF u \in S THEN next[u] ELSE lib[u]][t] = "ended"})
  BY DEF Curl!Action
<1> DEFINE ended == {t \in Transfer : [u \in Transfer |-> IF u \in S THEN next[u] ELSE lib[u]][t] = "ended"}
<1>2. ASSUME NEW t \in ended PROVE easy[t] = "added"
  <2>1. t \in S
    BY DEF CurlInv, Typed, Curl!Wants
  <2>2. t \in Transfer /\ lib[t] # "none"
    BY <2>1 DEF Curl!Added
  <2> QED
    BY <2>2 DEF CurlInv, Typed, Asked
<1>3. Curl!Settle(ended) /\ all' = all /\ ended \subseteq Transfer
  BY <1>1 DEF Curl!Action
<1> HIDE DEF ended
<1> QED
  BY <1>2, <1>3, SettleCounts

LEMMA NextCounted == CurlInv /\ Counted /\ [Next]_vars => Counted'
<1> SUFFICES ASSUME CurlInv, Counted, [Next]_vars PROVE Counted'
  OBVIOUS
<1>1. CASE UNCHANGED curl
  BY <1>1 DEF Counted, curl
<1>2. CASE Curl!Program
  <2>1. CASE Curl!FetchAll
    <3>1. /\ Curl!Works /\ Curl!Begin(all) /\ outcome = "none" /\ outcome' = "waiting"
          /\ cnt' = Cardinality(all)
      BY <2>1, SameCardinality DEF Curl!FetchAll
    <3>2. all \subseteq Transfer /\ \A t \in all : easy[t] = "new"
      BY <3>1 DEF CurlInv, Typed, AllNew
    <3> QED
      BY <3>1, <3>2, BeginCounts
  <2>2. ASSUME NEW t \in Transfer, Curl!Fetch(t) PROVE Counted'
    <3>1. Curl!Begin({t}) /\ easy[t] = "new" /\ outcome' = outcome /\ cnt' = cnt
      BY <2>2 DEF Curl!Fetch
    <3> QED
      BY <3>1, BeginCounts
  <2> QED
    BY <1>2, <2>1, <2>2 DEF Curl!Program
<1>3. CASE Curl!OnTimer
  <2>1. Curl!Works /\ \E S \in SUBSET Curl!Added : Curl!Action(S, {}, io)
    BY <1>3 DEF Curl!OnTimer
  <2> QED
    BY <2>1, ActionCounts
<1>4. ASSUME NEW t \in Transfer, Curl!InitRequest(t) PROVE Counted'
  BY <1>4 DEF Counted, CurlInv, Typed, Curl!InitRequest, Curl!fetched
<1>5. ASSUME NEW t \in Transfer, NEW e \in {"in", "out"}, Curl!OnSocket(t, e) PROVE Counted'
  <2>1. Curl!Works /\ e \in io[t]
    BY <1>5 DEF Curl!OnSocket
  <2>2. {t} \subseteq Curl!Added
    BY <2>1 DEF CurlInv, Asked, Curl!Added
  <2>3. PICK S \in SUBSET Curl!Added : Curl!Action(S \union {t}, {t}, [io EXCEPT ![t] = @ \ {e}])
    BY <1>5 DEF Curl!OnSocket
  <2>4. S \union {t} \in SUBSET Curl!Added
    BY <2>2
  <2> QED
    BY <2>1, <2>3, <2>4, ActionCounts
<1>6. ASSUME NEW t \in Transfer, NEW e \in {"in", "out"}, Curl!OnSocketFails(t, e) PROVE Counted'
  <2>1. Curl!Works /\ e \in io[t] /\ all' = all /\ Curl!Settle({t})
    BY <1>6 DEF Curl!OnSocketFails
  <2>2. easy[t] = "added"
    BY <2>1 DEF CurlInv, Typed, Asked
  <2> QED
    BY <2>1, <2>2, SettleCounts
<1>7. UNCHANGED curl \/ Curl!Next
  BY DEF Next, ByPrio, ByCurl, vars
<1> QED
  BY <1>1, <1>2, <1>3, <1>4, <1>5, <1>6, <1>7 DEF Curl!Next, Curl!Multi

\* No promise of a fetch over libcurl is settled twice, and fetch_all() resolves only when
\* it has the responses of all: cnt counts what is missing, whoever fails in between.
THEOREM CurlSettlesOnceHolds == Spec => []Curl!SettlesOnce
<1>1. Counted => Curl!SettlesOnce
  BY DEF Counted, Curl!SettlesOnce
<1> QED
  BY <1>1, InitCurl, InitCounted, NextCurl, NextCounted, PTL DEF Spec

-----------------------------------------------------------------------------
(* Induction.  The theorems of the library about it have an operator as a   *)
(* parameter, which the provers cannot instantiate; that the natural numbers*)
(* are well-founded they can use.                                           *)

\* A set of numbers that is not empty has a least one.
LEMMA LeastNumber ==
    ASSUME NEW T \in SUBSET Nat, T # {}
    PROVE  \E x \in T : \A y \in T : x <= y
<1>1. IsWellFoundedOn(OpToRel(<, Nat), Nat)
  BY NatLessThanWellFounded
<1>2. PICK x \in T : \A y \in T : ~ (<<y, x>> \in OpToRel(<, Nat))
  BY <1>1, WFMin
<1>3. \A y \in T : ~(y < x)
  BY <1>2 DEF OpToRel
<1> QED
  BY <1>3

\* g begins with a and goes on by step, up to n.
Iterates(g, V, a, step, n) ==
    g \in [0 .. n -> V] /\ g[0] = a /\ \A i \in 1 .. n : g[i] = step[<<i, g[i - 1]>>]

\* What a recursive definition over 0 .. n needs: there is such a function.
LEMMA Recursion ==
    ASSUME NEW V, NEW a \in V, NEW step \in [Nat \X V -> V], NEW n \in Nat
    PROVE  \E g : Iterates(g, V, a, step, n)
<1> DEFINE Runs(g, m) == g \in [0 .. m -> V] /\ g[0] = a /\ \A i \in 1 .. m : g[i] = step[<<i, g[i - 1]>>]
           Bad == {m \in Nat : ~ \E g \in [0 .. m -> V] : Runs(g, m)}
<1>. USE DEF Iterates
<1>1. SUFFICES ASSUME Bad # {} PROVE FALSE
  OBVIOUS
<1>2. PICK m \in Bad : \A l \in Bad : m <= l
  BY <1>1, LeastNumber
<1>3. m # 0
  <2>1. Runs([i \in 0 .. 0 |-> a], 0)
    OBVIOUS
  <2> QED
    BY <2>1
<1>4. m - 1 \in Nat /\ m - 1 \notin Bad
  BY <1>2, <1>3
<1>5. PICK g \in [0 .. m - 1 -> V] : Runs(g, m - 1)
  BY <1>4
<1> DEFINE h == [i \in 0 .. m |-> IF i = m THEN step[<<m, g[m - 1]>>] ELSE g[i]]
<1>6. Runs(h, m)
  <2>1. g[m - 1] \in V /\ m \in Nat
    BY <1>4, <1>5
  <2>2. step[<<m, g[m - 1]>>] \in V
    BY <2>1
  <2>3. h \in [0 .. m -> V]
    BY <2>1, <2>2
  <2>4. h[0] = a
    <3>1. 0 \in 0 .. m /\ 0 # m
      BY <1>3, <1>4
    <3> QED
      BY <3>1, <1>5
  <2>5. ASSUME NEW i \in 1 .. m PROVE h[i] = step[<<i, h[i - 1]>>]
    <3>1. h[i - 1] = g[i - 1]
      BY <1>4
    <3>2. CASE i = m
      <4>1. m \in 0 .. m /\ h[m] = step[<<m, g[m - 1]>>]
        BY <1>4
      <4> QED
        BY <3>1, <3>2, <4>1
    <3>3. CASE i # m
      <4>1. i \in 1 .. m - 1
        BY <3>3, <1>4
      <4>2. h[i] = g[i]
        BY <3>3
      <4> QED
        BY <4>1, <4>2, <3>1, <1>5
    <3> QED
      BY <3>2, <3>3
  <2> QED
    BY <2>3, <2>4, <2>5
<1> QED
  BY <1>6, <1>2

-----------------------------------------------------------------------------
(* Texts *)

Texts == Seq(Prio!Tokens)

\* f is what IsKind(k, text) computes, token by token.
Keeps(f, k, text) ==
    /\ f \in [0 .. Len(text) -> Seq({t \in Prio!Tokens : t.k = k})]
    /\ f[0] = <<>>
    /\ \A i \in 1 .. Len(text) : f[i] = IF text[i].k = k THEN Append(f[i - 1], text[i]) ELSE f[i - 1]
    /\ Prio!IsKind(k, text) = f[Len(text)]

LEMMA KindSteps ==
    ASSUME NEW text \in Texts, NEW k
    PROVE  \E f : Keeps(f, k, text)
<1> DEFINE V == Seq({t \in Prio!Tokens : t.k = k})
           n == Len(text)
           step == [p \in Nat \X V |-> IF p[1] \in 1 .. n /\ text[p[1]].k = k THEN Append(p[2], text[p[1]]) ELSE p[2]]
           Kept(f) == [i \in 0 .. n |-> IF i = 0 THEN <<>>
                                        ELSE IF text[i].k = k THEN Append(f[i - 1], text[i]) ELSE f[i - 1]]
           kept == CHOOSE f : f = Kept(f)
<1>1. n \in Nat /\ <<>> \in V /\ \A i \in 1 .. n : text[i] \in Prio!Tokens
  BY DEF Texts
<1>2. step \in [Nat \X V -> V]
  BY <1>1
<1>3. PICK g : Iterates(g, V, <<>>, step, n)
  <2>1. <<>> \in V /\ n \in Nat
    BY <1>1
  <2> HIDE DEF V, step, n
  <2> QED
    BY <2>1, <1>2, Recursion
<1>. USE <1>3 DEF Iterates
<1>4. g = Kept(g)
  <2>1. ASSUME NEW i \in 1 .. n PROVE g[i] = IF text[i].k = k THEN Append(g[i - 1], text[i]) ELSE g[i - 1]
    <3>1. <<i, g[i - 1]>> \in Nat \X V
      OBVIOUS
    <3> QED
      BY <1>3, <3>1
  <2>2. g = [i \in 0 .. n |-> g[i]]
    OBVIOUS
  <2>3. ASSUME NEW i \in 0 .. n PROVE g[i] = Kept(g)[i]
    <3>1. i = 0 \/ i \in 1 .. n
      BY <1>1
    <3> HIDE DEF n, V, step
    <3> QED
      BY <3>1, <1>3, <2>1
  <2> HIDE DEF n, V, step
  <2> QED
    BY <2>2, <2>3
<1>5. kept = Kept(kept)
  BY <1>4
<1>6. PICK f : f = Kept(f) /\ Prio!IsKind(k, text) = f[n]
  BY <1>5 DEF Prio!IsKind
<1>7. f[0] = <<>> /\ \A i \in 1 .. n : f[i] = IF text[i].k = k THEN Append(f[i - 1], text[i]) ELSE f[i - 1]
  <2>1. f[0] = <<>>
    BY <1>1, <1>6
  <2>2. ASSUME NEW i \in 1 .. n PROVE f[i] = IF text[i].k = k THEN Append(f[i - 1], text[i]) ELSE f[i - 1]
    <3>1. i \in 0 .. n /\ i # 0
      OBVIOUS
    <3> QED
      BY <1>6, <3>1
  <2> QED
    BY <2>1, <2>2
<1> DEFINE Bad == {i \in 0 .. n : f[i] \notin V}
<1>8. Bad = {}
  <2>1. SUFFICES ASSUME Bad # {} PROVE FALSE
    OBVIOUS
  <2>2. PICK i \in Bad : \A j \in Bad : i <= j
    <3>1. Bad \in SUBSET Nat
      OBVIOUS
    <3> HIDE DEF Bad
    <3> QED
      BY <2>1, <3>1, LeastNumber
  <2>3. i # 0
    BY <1>7, <1>1
  <2>4. i \in 1 .. n /\ f[i - 1] \in V
    <3>1. i - 1 \in 0 .. n /\ ~(i <= i - 1)
      BY <2>3
    <3> QED
      BY <3>1, <2>2
  <2>5. text[i].k = k => Append(f[i - 1], text[i]) \in V
    BY <2>4, <1>1
  <2> QED
    BY <2>4, <2>5, <1>7
<1>9. f \in [0 .. n -> V]
  <2>1. f = [i \in 0 .. n |-> f[i]]
    BY <1>6
  <2> HIDE DEF V, n
  <2> QED
    BY <2>1, <1>8
<1> QED
  BY <1>6, <1>7, <1>9 DEF Keeps

\* What IsKind keeps is of that kind.
LEMMA KindKept ==
    ASSUME NEW text \in Texts, NEW k
    PROVE  Prio!IsKind(k, text) \in Seq({t \in Prio!Tokens : t.k = k})
<1>1. PICK f : Keeps(f, k, text)
  BY KindSteps
<1>2. Len(text) \in 0 .. Len(text)
  BY DEF Texts
<1> QED
  BY <1>1, <1>2 DEF Keeps

LEMMA KindIsText ==
    ASSUME NEW text \in Texts, NEW k
    PROVE  Prio!IsKind(k, text) \in Texts
<1>1. {t \in Prio!Tokens : t.k = k} \subseteq Prio!Tokens
  OBVIOUS
<1> QED
  BY <1>1, KindKept, SeqMonotonic DEF Texts

LEMMA KindEmpty ==
    ASSUME NEW k
    PROVE  <<>> \in Texts /\ Prio!IsKind(k, <<>>) = <<>>
<1>1. <<>> \in Texts /\ Len(<<>>) = 0
  BY DEF Texts
<1>2. PICK f : Keeps(f, k, <<>>)
  BY <1>1, KindSteps
<1> QED
  BY <1>1, <1>2 DEF Keeps

\* IsKind goes token by token.
KindGoesOn(k, text, x) ==
    /\ Append(text, x) \in Texts
    /\ Prio!IsKind(k, Append(text, x))
         = IF x.k = k THEN Append(Prio!IsKind(k, text), x) ELSE Prio!IsKind(k, text)

LEMMA KindAppend ==
    ASSUME NEW text \in Texts, NEW x \in Prio!Tokens, NEW k
    PROVE  KindGoesOn(k, text, x)
<1> DEFINE n == Len(text)
           more == Append(text, x)
<1>1. /\ more \in Texts /\ Len(more) = n + 1 /\ n \in Nat
      /\ \A i \in 1 .. n : more[i] = text[i]
      /\ more[n + 1] = x
  BY DEF Texts
<1>2. PICK f : Keeps(f, k, text)
  BY KindSteps
<1>3. PICK g : Keeps(g, k, more)
  BY <1>1, KindSteps
<1> HIDE DEF more, n
<1>4. /\ f[0] = <<>> /\ g[0] = <<>> /\ Prio!IsKind(k, text) = f[n] /\ Prio!IsKind(k, more) = g[n + 1]
      /\ \A i \in 1 .. n : f[i] = IF text[i].k = k THEN Append(f[i - 1], text[i]) ELSE f[i - 1]
      /\ \A i \in 1 .. n + 1 : g[i] = IF more[i].k = k THEN Append(g[i - 1], more[i]) ELSE g[i - 1]
  BY <1>1, <1>2, <1>3 DEF Keeps, n
<1> DEFINE Bad == {i \in 0 .. n : f[i] # g[i]}
<1>5. Bad = {}
  <2>1. SUFFICES ASSUME Bad # {} PROVE FALSE
    OBVIOUS
  <2>2. PICK i \in Bad : \A j \in Bad : i <= j
    <3>1. Bad \in SUBSET Nat
      BY <1>1
    <3> HIDE DEF Bad
    <3> QED
      BY <2>1, <3>1, LeastNumber
  <2>3. i # 0
    BY <1>4
  <2>4. i \in 1 .. n /\ i \in 1 .. n + 1 /\ i - 1 \in 0 .. n /\ ~(i <= i - 1)
    BY <1>1, <2>3
  <2>5. f[i - 1] = g[i - 1]
    BY <2>2, <2>4
  <2> QED
    BY <1>1, <1>4, <2>4, <2>5
<1>6. f[n] = g[n]
  <2>1. n \in 0 .. n
    BY <1>1
  <2> QED
    BY <1>5, <2>1
<1>7. n + 1 \in 1 .. n + 1 /\ (n + 1) - 1 = n
  BY <1>1
<1>8. g[n + 1] = IF x.k = k THEN Append(g[n], x) ELSE g[n]
  BY <1>1, <1>4, <1>7
<1>9. more \in Texts /\ Prio!IsKind(k, more) = IF x.k = k THEN Append(Prio!IsKind(k, text), x) ELSE Prio!IsKind(k, text)
  BY <1>1, <1>4, <1>6, <1>8
<1> QED
  BY <1>9 DEF more, KindGoesOn

LEMMA ConcatAppend ==
    ASSUME NEW u \in Texts, NEW c \in Texts, NEW x \in Prio!Tokens
    PROVE  u \o c \in Texts /\ u \o Append(c, x) = Append(u \o c, x)
<1>1. u \in Seq(Prio!Tokens) /\ c \in Seq(Prio!Tokens) /\ <<x>> \in Seq(Prio!Tokens) /\ u \o c \in Seq(Prio!Tokens)
  BY DEF Texts
<1>2. PICK y : y = <<x>>
  OBVIOUS
<1>3. PICK uc : uc = u \o c
  OBVIOUS
<1>4. Append(c, x) = c \o y
  BY <1>1, <1>2, AppendIsConcat
<1>5. Append(uc, x) = uc \o y
  BY <1>1, <1>2, <1>3, AppendIsConcat
<1>6. (u \o c) \o y = u \o (c \o y)
  <2>1. y \in Seq(Prio!Tokens)
    BY <1>1, <1>2
  <2> QED
    BY ONLY <1>1, <2>1, ConcatAssociative
<1> QED
  BY <1>1, <1>3, <1>4, <1>5, <1>6 DEF Texts

\* A text is its tokens but the last, and the last.
Cut(text, i) == SubSeq(text, 1, i)
LastCut(text, i) ==
    /\ Cut(text, i - 1) \in Texts /\ text[i] \in Prio!Tokens
    /\ Cut(text, i) = Append(Cut(text, i - 1), text[i])

LEMMA CutFacts ==
    ASSUME NEW text \in Texts, NEW i \in 0 .. Len(text)
    PROVE  /\ Cut(text, i) \in Texts /\ Len(Cut(text, i)) = i
           /\ \A j \in 1 .. i : Cut(text, i)[j] = text[j]
           /\ i = 0 => Cut(text, i) = <<>>
           /\ i = Len(text) => Cut(text, i) = text
           /\ i > 0 => LastCut(text, i)
<1>1. i \in Nat /\ Len(text) \in Nat /\ i <= Len(text) /\ \A j \in 1 .. Len(text) : text[j] \in Prio!Tokens
  BY DEF Texts
<1>2. ASSUME NEW m \in 0 .. Len(text)
      PROVE  Cut(text, m) \in Texts /\ Len(Cut(text, m)) = m /\ \A j \in 1 .. m : Cut(text, m)[j] = text[j]
  <2>1. m \in Nat /\ m <= Len(text) /\ \A j \in 1 .. m : text[j] \in Prio!Tokens
    BY <1>1
  <2> QED
    BY <2>1 DEF Cut, Texts
<1>3. i = 0 => Cut(text, i) = <<>>
  BY DEF Cut
<1>4. i = Len(text) => Cut(text, i) = text
  BY SubSeqFull DEF Cut, Texts
<1>5. ASSUME i > 0
      PROVE  LastCut(text, i)
  <2>1. i - 1 \in 0 .. Len(text) /\ i \in 1 .. Len(text) /\ (i - 1) + 1 = i
    BY <1>1, <1>5
  <2>2. PICK u, v : u = Cut(text, i) /\ v = Cut(text, i - 1)
    OBVIOUS
  <2>3. u \in Seq(Prio!Tokens) /\ Len(u) = i /\ \A j \in 1 .. i : u[j] = text[j]
    BY <1>2, <2>2 DEF Texts
  <2>4. v \in Seq(Prio!Tokens) /\ Len(v) = i - 1 /\ \A j \in 1 .. i - 1 : v[j] = text[j]
    BY <1>2, <2>1, <2>2 DEF Texts
  <2>5. PICK x \in Prio!Tokens : x = text[i]
    BY <1>1, <2>1
  <2>6. PICK w : w = Append(v, x)
    OBVIOUS
  <2>7. w \in Seq(Prio!Tokens) /\ Len(w) = i /\ (\A j \in 1 .. i - 1 : w[j] = v[j]) /\ w[i] = x
    BY <1>1, <2>1, <2>4, <2>6
  <2>8. ASSUME NEW j \in 1 .. i PROVE u[j] = w[j]
    <3>1. j \in 1 .. i - 1 \/ j = i
      BY <1>1
    <3> QED
      BY <3>1, <2>3, <2>4, <2>5, <2>7
  <2>9. u = w
    BY <2>3, <2>7, <2>8, SeqEqual
  <2> QED
    BY <2>1, <2>2, <2>4, <2>5, <2>6, <2>9 DEF Texts, LastCut
<1> QED
  BY <1>2, <1>3, <1>4, <1>5

\* IsKind of what is put together is put together.
LEMMA KindConcat ==
    ASSUME NEW u \in Texts, NEW v \in Texts, NEW k
    PROVE  u \o v \in Texts /\ Prio!IsKind(k, u \o v) = Prio!IsKind(k, u) \o Prio!IsKind(k, v)
<1> DEFINE K(s) == Prio!IsKind(k, s)
           n == Len(v)
           Bad == {i \in 0 .. n : K(u \o Cut(v, i)) # K(u) \o K(Cut(v, i))}
<1>1. n \in Nat /\ \A s \in Texts : K(s) \in Texts
  BY KindIsText DEF Texts
<1> HIDE DEF K, n
<1>2. Bad = {}
  <2>1. SUFFICES ASSUME Bad # {} PROVE FALSE
    OBVIOUS
  <2>2. PICK i \in Bad : \A j \in Bad : i <= j
    <3>1. Bad \in SUBSET Nat
      BY <1>1
    <3> HIDE DEF Bad
    <3> QED
      BY <2>1, <3>1, LeastNumber
  <2>3. i # 0
    <3>1. u \o <<>> = u /\ K(u) \o <<>> = K(u)
      BY <1>1, ConcatEmptySeq DEF Texts
    <3>2. K(<<>>) = <<>> /\ Cut(v, 0) = <<>>
      BY KindEmpty DEF K, Cut
    <3> QED
      BY <3>1, <3>2
  <2>4. i \in 0 .. Len(v) /\ i > 0 /\ i - 1 \in 0 .. n /\ ~(i <= i - 1)
    BY <1>1, <2>3 DEF n
  <2>5. PICK c, x : c = Cut(v, i - 1) /\ x = v[i] /\ c \in Texts /\ x \in Prio!Tokens /\ Cut(v, i) = Append(c, x)
    <3>1. LastCut(v, i)
      BY <2>4, CutFacts
    <3> QED
      BY <3>1 DEF LastCut
  <2>6. K(u \o c) = K(u) \o K(c)
    BY <2>2, <2>4, <2>5
  <2>7. u \o Append(c, x) = Append(u \o c, x) /\ u \o c \in Texts
    BY <2>5, ConcatAppend
  <2>8. /\ K(Append(c, x)) = IF x.k = k THEN Append(K(c), x) ELSE K(c)
        /\ K(Append(u \o c, x)) = IF x.k = k THEN Append(K(u \o c), x) ELSE K(u \o c)
    <3>1. KindGoesOn(k, c, x)
      BY <2>5, KindAppend
    <3>2. KindGoesOn(k, u \o c, x)
      BY <2>5, <2>7, KindAppend
    <3> QED
      BY <3>1, <3>2 DEF KindGoesOn, K
  <2>9. Append(K(u) \o K(c), x) = K(u) \o Append(K(c), x)
    <3>1. K(u) \in Texts /\ K(c) \in Texts
      BY <1>1, <2>5
    <3> QED
      BY <3>1, <2>5, ConcatAppend
  <2> QED
    BY <2>2, <2>5, <2>6, <2>7, <2>8, <2>9
<1>3. n \in 0 .. n /\ Cut(v, n) = v
  <2>1. Len(v) \in 0 .. Len(v)
    BY <1>1 DEF n
  <2> QED
    BY <2>1, CutFacts DEF n
<1>4. u \o v \in Texts
  BY DEF Texts
<1> QED
  BY <1>2, <1>3, <1>4 DEF K

\* All of it is of the kind, or none.
LEMMA KindAll ==
    ASSUME NEW text \in Texts, NEW k
    PROVE  /\ (\A i \in 1 .. Len(text) : text[i].k = k) => Prio!IsKind(k, text) = text
           /\ (\A i \in 1 .. Len(text) : text[i].k # k) => Prio!IsKind(k, text) = <<>>
<1> DEFINE K(s) == Prio!IsKind(k, s)
           n == Len(text)
           BadAll == {i \in 0 .. n : K(Cut(text, i)) # Cut(text, i)}
           BadNone == {i \in 0 .. n : K(Cut(text, i)) # <<>>}
<1>1. n \in Nat
  BY DEF Texts
<1>2. ASSUME NEW i \in 1 .. n
      PROVE  /\ i - 1 \in 0 .. n /\ ~(i <= i - 1)
             /\ Cut(text, i) = Append(Cut(text, i - 1), text[i])
             /\ K(Cut(text, i)) = IF text[i].k = k THEN Append(K(Cut(text, i - 1)), text[i]) ELSE K(Cut(text, i - 1))
  <2>1. i \in 0 .. Len(text) /\ i > 0 /\ i - 1 \in 0 .. n /\ ~(i <= i - 1)
    BY <1>1
  <2>2. Cut(text, i - 1) \in Texts /\ text[i] \in Prio!Tokens /\ Cut(text, i) = Append(Cut(text, i - 1), text[i])
    <3>1. LastCut(text, i)
      BY <2>1, CutFacts
    <3> QED
      BY <3>1 DEF LastCut
  <2>3. KindGoesOn(k, Cut(text, i - 1), text[i])
    BY <2>2, KindAppend
  <2> QED
    BY <2>1, <2>2, <2>3 DEF KindGoesOn
<1>3. K(<<>>) = <<>> /\ Cut(text, 0) = <<>>
  BY KindEmpty DEF Cut
<1>4. Cut(text, n) = text
  <2>1. Len(text) \in 0 .. Len(text)
    BY <1>1
  <2> QED
    BY <2>1, CutFacts
<1>5. \A i \in 0 .. n : i = 0 \/ i \in 1 .. n
  BY <1>1
<1> HIDE DEF n, K
<1>6. n \in 0 .. n /\ BadAll \in SUBSET Nat /\ BadNone \in SUBSET Nat
  BY <1>1
<1>7. ASSUME \A i \in 1 .. n : text[i].k = k PROVE BadAll = {}
  <2>1. SUFFICES ASSUME BadAll # {} PROVE FALSE
    OBVIOUS
  <2>2. PICK i \in BadAll : \A j \in BadAll : i <= j
    <3> HIDE DEF BadAll
    <3> QED
      BY <2>1, <1>6, LeastNumber
  <2>3. i \in 1 .. n
    BY <1>3, <1>5
  <2>4. K(Cut(text, i - 1)) = Cut(text, i - 1)
    BY <1>2, <2>2, <2>3
  <2> QED
    BY <1>2, <1>7, <2>2, <2>3, <2>4
<1>8. ASSUME \A i \in 1 .. n : text[i].k # k PROVE BadNone = {}
  <2>1. SUFFICES ASSUME BadNone # {} PROVE FALSE
    OBVIOUS
  <2>2. PICK i \in BadNone : \A j \in BadNone : i <= j
    <3> HIDE DEF BadNone
    <3> QED
      BY <2>1, <1>6, LeastNumber
  <2>3. i \in 1 .. n
    BY <1>3, <1>5
  <2>4. K(Cut(text, i - 1)) = <<>>
    BY <1>2, <2>2, <2>3
  <2> QED
    BY <1>2, <1>8, <2>2, <2>3, <2>4
<1> QED
  BY <1>4, <1>6, <1>7, <1>8 DEF n, K

-----------------------------------------------------------------------------
(* The chunked reader *)

LEMMA TextFacts ==
    ASSUME NEW text \in Texts
    PROVE  Len(text) \in Nat /\ \A i \in 1 .. Len(text) : text[i] \in Prio!Tokens /\ text[i].n \in Nat
<1>1. text \in Seq(Prio!Tokens)
  BY DEF Texts
<1>2. \A t \in Prio!Tokens : t.n \in Nat
  BY DEF Prio!Tokens
<1>3. \A i \in 1 .. Len(text) : text[i] \in Prio!Tokens
  BY <1>1
<1> QED
  BY <1>1, <1>2, <1>3

\* R is a text of chunks, which begin after the tokens in B.
Bounds(R, B) ==
    /\ 0 \in B /\ B \subseteq 0 .. Len(R)
    /\ \A b \in B :
          /\ b + 2 <= Len(R)
          /\ R[b + 1].n = 0 => b + 2 = Len(R) /\ R[b + 1].k # "data" /\ R[b + 2].k # "data"
          /\ R[b + 1].n # 0 => b + 2 + R[b + 1].n \in B
    /\ \A i \in 1 .. Len(R) : R[i].k # "junk"

ChunkText(R) == \E B \in SUBSET Nat : Bounds(R, B)

\* One round of the loop of Chunks, with what comes after it in f.
Round(f, i, s) ==
    IF i = Len(s) THEN [is |-> "read", at |-> i]
    ELSE LET n == s[i + 1].n
         IN  IF n = 0 THEN [is |-> IF i + 2 <= Len(s) THEN "done" ELSE "read", at |-> i]
             ELSE IF Len(s) < i + 1 + n THEN [is |-> "read", at |-> i]
             ELSE IF Len(s) < i + 2 + n THEN [is |-> "throw", at |-> i]
             ELSE f[i + 2 + n]

\* The loop can be run from its end.
LEMMA RoundsExist ==
    ASSUME NEW s \in Texts
    PROVE  \E f : f = [i \in 0 .. Len(s) |-> Round(f, i, s)]
<1> DEFINE L == Len(s)
           Runs(f, k) == f = [i \in L - k .. L |-> Round(f, i, s)]
           Bad == {k \in 0 .. L : ~ \E f : Runs(f, k)}
<1>1. L \in Nat /\ \A i \in 1 .. L : s[i].n \in Nat
  BY TextFacts
<1>2. Bad = {}
  <2>1. SUFFICES ASSUME Bad # {} PROVE FALSE
    OBVIOUS
  <2>2. PICK k \in Bad : \A j \in Bad : k <= j
    <3>1. Bad \in SUBSET Nat
      BY <1>1
    <3> HIDE DEF Bad
    <3> QED
      BY <2>1, <3>1, LeastNumber
  <2>3. k # 0
    <3> DEFINE g == [i \in L - 0 .. L |-> [is |-> "read", at |-> i]]
    <3>1. L - 0 .. L = {L}
      BY <1>1
    <3>2. DOMAIN g = L - 0 .. L /\ g[L] = [is |-> "read", at |-> L]
      BY <3>1
    <3>3. Round(g, L, s) = [is |-> "read", at |-> L]
      BY DEF Round
    <3> HIDE DEF g
    <3>4. Runs(g, 0)
      <4>1. g = [i \in L - 0 .. L |-> g[i]]
        BY DEF g
      <4>2. \A i \in L - 0 .. L : g[i] = Round(g, i, s)
        BY <3>1, <3>2, <3>3
      <4> QED
        BY <4>1, <4>2
    <3> QED
      BY <3>4, <2>2
  <2>4. k - 1 \in 0 .. L /\ ~(k <= k - 1) /\ k \in 1 .. L
    BY <1>1, <2>3
  <2>5. PICK f : Runs(f, k - 1)
    BY <2>2, <2>4
  <2> DEFINE a == L - k
             h == [i \in a .. L |-> IF i = a THEN Round(f, a, s) ELSE f[i]]
  <2>6. a \in Nat /\ a < L /\ L - (k - 1) = a + 1 /\ \A i \in a .. L : i = a \/ i \in a + 1 .. L
    BY <1>1, <2>4
  <2>7. \A i \in a + 1 .. L : f[i] = Round(f, i, s)
    BY <2>5, <2>6
  <2>8. DOMAIN h = a .. L /\ h[a] = Round(f, a, s) /\ \A i \in a + 1 .. L : h[i] = f[i]
    BY <2>6, <1>1
  <2> HIDE DEF h, a
  <2>9. ASSUME NEW i \in a .. L PROVE Round(h, i, s) = Round(f, i, s)
    <3>1. CASE i = L
      BY <3>1 DEF Round
    <3>2. CASE i # L
      <4>1. i + 1 \in 1 .. L /\ i \in Nat
        BY <1>1, <2>6, <3>2
      <4>2. PICK n \in Nat : n = s[i + 1].n
        BY <4>1, <1>1
      <4>3. ~(L < i + 2 + n) => h[i + 2 + n] = f[i + 2 + n]
        <5>1. ~(L < i + 2 + n) => i + 2 + n \in a + 1 .. L
          BY <1>1, <2>6, <4>1
        <5> QED
          BY <5>1, <2>8
      <4> QED
        BY <4>2, <4>3, <3>2 DEF Round
    <3> QED
      BY <3>1, <3>2
  <2>10. Runs(h, k)
    <3>1. \A i \in a .. L : h[i] = Round(h, i, s)
      BY <2>6, <2>7, <2>8, <2>9
    <3>2. h = [i \in a .. L |-> h[i]]
      BY DEF h
    <3>3. h = [i \in a .. L |-> Round(h, i, s)]
      BY <3>1, <3>2
    <3> QED
      BY <3>3 DEF a
  <2> QED
    BY <2>2, <2>10
<1>3. PICK f : Runs(f, L)
  <2>1. L \in 0 .. L
    BY <1>1
  <2> QED
    BY <1>2, <2>1
<1>4. L - L = 0
  BY <1>1
<1>5. f = [i \in 0 .. Len(s) |-> Round(f, i, s)]
  BY <1>3, <1>4
<1> QED
  BY <1>5

\* Where Chunks stops, a chunk begins; where it is done, the last one does.
ChunksStop(r, s, R, B) ==
    /\ r.at \in B /\ r.at \in 0 .. Len(s)
    /\ r.is = "done" => r.at + 2 = Len(R)

LEMMA ChunksAre ==
    ASSUME NEW s \in Texts, NEW R \in Texts, NEW B \in SUBSET Nat, Bounds(R, B),
           Len(s) <= Len(R), \A i \in 1 .. Len(s) : s[i] = R[i]
    PROVE  ChunksStop(Prio!Chunks(s), s, R, B)
<1> DEFINE L == Len(s)
           f == CHOOSE f : f = [i \in 0 .. Len(s) |-> Round(f, i, s)]
<1>1. L \in Nat /\ Len(R) \in Nat /\ \A i \in 1 .. L : s[i].n \in Nat
  BY TextFacts
<1>2. f = [i \in 0 .. L |-> Round(f, i, s)]
  <2>1. \E g : g = [i \in 0 .. Len(s) |-> Round(g, i, s)]
    BY RoundsExist
  <2> QED
    BY <2>1
<1>3. Prio!Chunks(s) = f[0]
  BY DEF Prio!Chunks, Round
<1> HIDE DEF f
<1>4. \A i \in 0 .. L : f[i] = Round(f, i, s)
  BY <1>2
<1> HIDE DEF L
<1> DEFINE Bad == {k \in 0 .. L : L - k \in B /\ ~ChunksStop(f[L - k], s, R, B)}
<1>5. Bad = {}
  <2>1. SUFFICES ASSUME Bad # {} PROVE FALSE
    OBVIOUS
  <2>2. PICK k \in Bad : \A j \in Bad : k <= j
    <3>1. Bad \in SUBSET Nat
      BY <1>1
    <3> HIDE DEF Bad
    <3> QED
      BY <2>1, <3>1, LeastNumber
  <2>3. PICK i \in 0 .. L : i = L - k /\ i \in B /\ ~ChunksStop(f[i], s, R, B)
    BY <1>1, <2>2
  <2>4. f[i] = Round(f, i, s)
    BY <1>4
  <2>5. CASE i = L
    <3>1. f[i] = [is |-> "read", at |-> i]
      BY <2>4, <2>5 DEF Round, L
    <3> QED
      BY <3>1, <2>3 DEF ChunksStop, L
  <2>6. CASE i # L
    <3>1. i + 1 \in 1 .. L /\ i \in Nat /\ s[i + 1] = R[i + 1]
      BY <1>1, <2>6 DEF L
    <3>2. PICK n \in Nat : n = s[i + 1].n /\ n = R[i + 1].n
      BY <3>1, <1>1
    <3>3. /\ n = 0 => i + 2 = Len(R)
          /\ n # 0 => i + 2 + n \in B
      BY <2>3, <3>2 DEF Bounds
    <3>4. f[i] = IF n = 0 THEN [is |-> IF i + 2 <= L THEN "done" ELSE "read", at |-> i]
                 ELSE IF L < i + 1 + n THEN [is |-> "read", at |-> i]
                 ELSE IF L < i + 2 + n THEN [is |-> "throw", at |-> i]
                 ELSE f[i + 2 + n]
      BY <2>4, <2>6, <3>2 DEF Round, L
    <3>5. CASE n # 0 /\ ~(L < i + 1 + n) /\ ~(L < i + 2 + n)
      <4>1. PICK m : m = i + 2 + n
        OBVIOUS
      <4>2. m \in 0 .. L /\ L - m \in 0 .. L /\ L - (L - m) = m /\ ~(k <= L - m) /\ m \in B
        BY <1>1, <2>2, <2>3, <3>1, <3>2, <3>3, <3>5, <4>1
      <4>3. ChunksStop(f[m], s, R, B)
        <5>1. L - m \notin Bad
          BY <2>2, <4>2
        <5> QED
          BY <5>1, <4>2
      <4> QED
        BY <4>1, <4>3, <3>4, <3>5, <2>3
    <3>6. CASE n = 0
      <4>1. f[i].at = i /\ i + 2 = Len(R)
        BY <3>3, <3>4, <3>6
      <4> QED
        BY <4>1, <2>3 DEF ChunksStop, L
    <3>7. CASE n # 0 /\ (L < i + 1 + n \/ L < i + 2 + n)
      <4>1. f[i].at = i /\ f[i].is # "done"
        BY <3>4, <3>7
      <4> QED
        BY <4>1, <2>3 DEF ChunksStop, L
    <3> QED
      BY <3>5, <3>6, <3>7
  <2> QED
    BY <2>5, <2>6
<1>6. L \in 0 .. L /\ L - L = 0 /\ 0 \in B
  BY <1>1 DEF Bounds
<1> QED
  BY <1>3, <1>5, <1>6

\* The texts u and v are what text is cut into.
Parts(text, u, v) ==
    /\ u \in Texts /\ v \in Texts /\ text = u \o v
    /\ Len(text) = Len(u) + Len(v)
    /\ \A i \in 1 .. Len(u) : text[i] = u[i]
    /\ \A i \in 1 .. Len(v) : text[Len(u) + i] = v[i]

LEMMA Joined ==
    ASSUME NEW u \in Texts, NEW v \in Texts
    PROVE  u \o v \in Texts /\ Parts(u \o v, u, v)
<1>1. u \in Seq(Prio!Tokens) /\ v \in Seq(Prio!Tokens) /\ Len(u) \in Nat /\ Len(v) \in Nat
  BY DEF Texts
<1>2. u \o v \in Seq(Prio!Tokens) /\ Len(u \o v) = Len(u) + Len(v)
  BY <1>1
<1>3. ASSUME NEW i \in 1 .. Len(u) PROVE (u \o v)[i] = u[i]
  <2>1. i \in 1 .. Len(u) + Len(v) /\ i <= Len(u)
    BY <1>1
  <2> QED
    BY <1>1, <2>1
<1>4. ASSUME NEW i \in 1 .. Len(v) PROVE (u \o v)[Len(u) + i] = v[i]
  <2>1. Len(u) + i \in 1 .. Len(u) + Len(v) /\ ~(Len(u) + i <= Len(u)) /\ (Len(u) + i) - Len(u) = i
    BY <1>1
  <2> QED
    BY <1>1, <2>1
<1> QED
  BY <1>1, <1>2, <1>3, <1>4 DEF Parts, Texts

LEMMA CutInTwo ==
    ASSUME NEW text \in Texts, NEW n \in 0 .. Len(text)
    PROVE  /\ Parts(text, SubSeq(text, 1, n), SubSeq(text, n + 1, Len(text)))
           /\ Len(SubSeq(text, 1, n)) = n /\ Len(SubSeq(text, n + 1, Len(text))) = Len(text) - n
<1>1. text \in Seq(Prio!Tokens) /\ Len(text) \in Nat /\ n \in Nat /\ n <= Len(text)
  BY DEF Texts
<1>2. PICK u, v : u = SubSeq(text, 1, n) /\ v = SubSeq(text, n + 1, Len(text))
  OBVIOUS
<1>3. u \in Seq(Prio!Tokens) /\ Len(u) = n /\ \A i \in 1 .. n : u[i] = text[i]
  <2>1. \A i \in 1 .. n : text[i] \in Prio!Tokens
    BY <1>1
  <2> QED
    BY <1>1, <1>2, <2>1
<1>4. v \in Seq(Prio!Tokens) /\ Len(v) = Len(text) - n /\ \A i \in 1 .. Len(text) - n : v[i] = text[n + i]
  <2>1. \A i \in n + 1 .. Len(text) : text[i] \in Prio!Tokens
    BY <1>1
  <2> QED
    BY <1>1, <1>2, <2>1
<1>5. Parts(u \o v, u, v) /\ u \o v \in Seq(Prio!Tokens)
  BY <1>3, <1>4, Joined DEF Texts
<1>6. PICK w : w = u \o v
  OBVIOUS
<1>7. Len(w) = Len(text)
  <2>1. Len(w) = Len(u) + Len(v)
    BY <1>5, <1>6 DEF Parts
  <2> QED
    BY <1>1, <1>3, <1>4, <2>1
<1>8. ASSUME NEW i \in 1 .. Len(w) PROVE w[i] = text[i]
  <2>1. CASE i \in 1 .. n
    BY <2>1, <1>3, <1>5, <1>6 DEF Parts
  <2>2. CASE i \notin 1 .. n
    <3>1. i - n \in 1 .. Len(text) - n /\ n + (i - n) = i
      BY <1>1, <1>7, <2>2
    <3> QED
      BY <3>1, <1>3, <1>4, <1>5, <1>6 DEF Parts
  <2> QED
    BY <2>1, <2>2
<1>9. w = text
  <2>1. w \in Seq(Prio!Tokens)
    BY <1>5, <1>6
  <2> QED
    BY <1>1, <1>7, <1>8, <2>1, SeqEqual
<1> QED
  BY <1>2, <1>3, <1>4, <1>5, <1>6, <1>9

-----------------------------------------------------------------------------
(* The answers, as the readers see them *)

\* What FlattenSeq computes, step by step.
Flattens(f, seqs, n, T) ==
    /\ f \in [1 .. n -> Seq(T)] /\ f[1] = seqs[1]
    /\ \A i \in 2 .. n : f[i] = f[i - 1] \o seqs[i]
    /\ Prio!FlattenSeq(seqs) = f[n]

LEMMA Flattened ==
    ASSUME NEW T, NEW n \in Nat \ {0}, NEW seqs \in Seq(Seq(T)), Len(seqs) = n
    PROVE  \E f : Flattens(f, seqs, n, T)
<1> DEFINE V == Seq(T)
           step == [p \in Nat \X V |-> IF p[1] \in 1 .. n THEN p[2] \o seqs[p[1]] ELSE p[2]]
           Goes(f) == [i \in 1 .. n |-> IF i = 1 THEN seqs[i] ELSE f[i - 1] \o seqs[i]]
           flat == CHOOSE f : f = Goes(f)
<1>1. n \in Nat /\ <<>> \in V /\ \A i \in 1 .. n : seqs[i] \in V
  OBVIOUS
<1>2. step \in [Nat \X V -> V]
  <2>1. ASSUME NEW p \in Nat \X V PROVE (IF p[1] \in 1 .. n THEN p[2] \o seqs[p[1]] ELSE p[2]) \in V
    <3>1. p[2] \in V
      OBVIOUS
    <3>2. CASE p[1] \in 1 .. n
      BY <3>1, <3>2, <1>1
    <3> QED
      BY <3>1, <3>2
  <2> QED
    BY <2>1
<1>3. PICK g : Iterates(g, V, <<>>, step, n)
  <2> HIDE DEF step, V
  <2> QED
    BY <1>1, <1>2, Recursion
<1>4. g \in [0 .. n -> V] /\ g[0] = <<>> /\ \A i \in 1 .. n : g[i] = g[i - 1] \o seqs[i]
  <2>1. g \in [0 .. n -> V] /\ g[0] = <<>> /\ \A i \in 1 .. n : g[i] = step[<<i, g[i - 1]>>]
    BY <1>3 DEF Iterates
  <2>2. ASSUME NEW i \in 1 .. n PROVE g[i] = g[i - 1] \o seqs[i]
    <3>1. i - 1 \in 0 .. n /\ i \in Nat
      BY <1>1
    <3>2. <<i, g[i - 1]>> \in Nat \X V
      BY <3>1, <2>1
    <3>3. step[<<i, g[i - 1]>>] = g[i - 1] \o seqs[i]
      BY <3>2
    <3> QED
      BY <3>3, <2>1
  <2> QED
    BY <2>1, <2>2
<1> DEFINE h == [i \in 1 .. n |-> g[i]]
<1>5. h = Goes(h)
  <2>1. ASSUME NEW i \in 1 .. n PROVE h[i] = IF i = 1 THEN seqs[i] ELSE h[i - 1] \o seqs[i]
    <3>1. CASE i = 1
      <4>1. i \in 0 .. n /\ seqs[i] \in Seq(T) /\ i - 1 = 0
        BY <3>1, <1>1
      <4>2. g[i] = <<>> \o seqs[i]
        BY <4>1, <1>4
      <4> QED
        BY <4>1, <4>2, <3>1
    <3>2. CASE i # 1
      <4>1. i - 1 \in 1 .. n
        BY <3>2
      <4> QED
        BY <3>2, <4>1, <1>4
    <3> QED
      BY <3>1, <3>2
  <2> HIDE DEF V
  <2> QED
    BY <2>1
<1>6. flat = Goes(flat)
  <2> HIDE DEF h
  <2> QED
    BY <1>5
<1>7. Prio!FlattenSeq(seqs) = flat[n]
  BY DEF Prio!FlattenSeq
<1> HIDE DEF flat, h
<1>8. \A i \in 1 .. n : flat[i] = IF i = 1 THEN seqs[i] ELSE flat[i - 1] \o seqs[i]
  BY <1>6
<1>9. \A i \in 1 .. n : flat[i] \in V
  <2> DEFINE Bad == {i \in 1 .. n : flat[i] \notin V}
  <2>1. SUFFICES ASSUME Bad # {} PROVE FALSE
    OBVIOUS
  <2>2. PICK i \in Bad : \A j \in Bad : i <= j
    <3>1. Bad \in SUBSET Nat
      OBVIOUS
    <3> HIDE DEF Bad
    <3> QED
      BY <2>1, <3>1, LeastNumber
  <2>3. i # 1
    BY <1>8, <1>1
  <2>4. i - 1 \in 1 .. n /\ ~(i <= i - 1)
    BY <2>3
  <2>5. flat[i - 1] \in V
    BY <2>2, <2>4
  <2>6. flat[i - 1] \o seqs[i] \in V
    BY <2>5, <1>1
  <2> QED
    BY <2>3, <2>6, <1>8
<1>10. flat = [i \in 1 .. n |-> flat[i]]
  BY <1>6
<1>11. flat \in [1 .. n -> V]
  <2> HIDE DEF V
  <2> QED
    BY <1>9, <1>10
<1>12. 1 \in 1 .. n /\ \A i \in 2 .. n : i \in 1 .. n /\ i # 1
  OBVIOUS
<1>13. flat[1] = seqs[1] /\ \A i \in 2 .. n : flat[i] = flat[i - 1] \o seqs[i]
  BY <1>8, <1>12
<1> QED
  BY <1>7, <1>11, <1>13 DEF Flattens

LEMMA RestOf ==
    ASSUME NEW text, NEW u, NEW v, Parts(text, u, v)
    PROVE  SubSeq(text, Len(u) + 1, Len(text)) = v
<1>1. /\ u \in Texts /\ v \in Texts /\ text \in Texts
      /\ Len(text) = Len(u) + Len(v) /\ \A i \in 1 .. Len(v) : text[Len(u) + i] = v[i]
  BY Joined DEF Parts
<1>2. Len(u) \in Nat /\ Len(v) \in Nat /\ Len(u) \in 0 .. Len(text)
  BY <1>1, TextFacts
<1>3. PICK r : r = SubSeq(text, Len(u) + 1, Len(text))
  OBVIOUS
<1>4. PICK p : Parts(text, p, r) /\ Len(p) = Len(u) /\ Len(r) = Len(text) - Len(u)
  BY <1>1, <1>2, <1>3, CutInTwo
<1>5. r \in Seq(Prio!Tokens) /\ v \in Seq(Prio!Tokens) /\ Len(r) = Len(v)
  BY <1>1, <1>2, <1>4 DEF Parts, Texts
<1>6. \A i \in 1 .. Len(r) : r[i] = v[i]
  BY <1>1, <1>4, <1>5 DEF Parts
<1> QED
  BY <1>3, <1>5, <1>6, SeqEqual

Heads == {"head", "chunked"}
Rest(a) == SubSeq(a, 3, Len(a))

\* What a conversation of HTTP/1 can make of an answer.
Answered(a) ==
    /\ 2 <= Len(a) /\ a[1].k \in Heads /\ a[2] = Prio!Blank /\ Rest(a) \in Texts
    /\ \/ a[1].k = "chunked" /\ ChunkText(Rest(a)) /\ Prio!Sent(a) = Prio!Sent(Rest(a))
       \/ a[1].k = "head" /\ a[1].n > 0 /\ Prio!Sent(a) = Rest(a) /\ Len(Rest(a)) = a[1].n
       \/ a[1] = Prio!Token("head", 0) /\ Prio!Sent(a) = Rest(a)

LEMMA TokenFacts ==
    ASSUME NEW k \in {"head", "chunked", "blank", "crlf", "size", "data", "end", "reset", "junk"}, NEW n \in Nat
    PROVE  Prio!Token(k, n) \in Prio!Tokens /\ Prio!Token(k, n).k = k /\ Prio!Token(k, n).n = n
BY DEF Prio!Token, Prio!Tokens

\* An answer begins with the line of its head and an empty line, which are no data.
HeadOf(a, h, t) ==
    /\ 2 <= Len(a) /\ a[1] = h /\ a[2] = Prio!Blank /\ Rest(a) = t
    /\ Prio!Sent(a) = Prio!Sent(t)

LEMMA Headed ==
    ASSUME NEW h \in Prio!Tokens, h.k \in Heads, NEW t \in Texts, NEW a, a = <<h, Prio!Blank>> \o t
    PROVE  HeadOf(a, h, t)
<1>1. PICK b : b = Prio!Blank
  OBVIOUS
<1>2. b \in Prio!Tokens /\ b.k = "blank"
  BY <1>1, TokenFacts DEF Prio!Blank
<1>3. PICK u : u = <<h, b>>
  OBVIOUS
<1>4. u \in Seq(Prio!Tokens) /\ Len(u) = 2 /\ u[1] = h /\ u[2] = b
  BY <1>2, <1>3
<1>5. u \in Texts /\ a = u \o t
  BY <1>1, <1>3, <1>4 DEF Texts
<1>6. Parts(a, u, t)
  BY <1>5, Joined
<1>7. Len(a) = 2 + Len(t) /\ a[1] = h /\ a[2] = b /\ Len(t) \in Nat
  <2>1. 1 \in 1 .. Len(u) /\ 2 \in 1 .. Len(u)
    BY <1>4
  <2> QED
    BY <1>4, <1>6, <2>1, TextFacts DEF Parts
<1>8. Rest(a) = t
  <2>1. SubSeq(a, Len(u) + 1, Len(a)) = t
    BY <1>6, RestOf
  <2>2. Len(u) + 1 = 3
    BY <1>4
  <2> QED
    BY <2>1, <2>2 DEF Rest
<1>9. Prio!Sent(a) = Prio!Sent(t)
  <2>1. Prio!IsKind("data", a) = Prio!IsKind("data", u) \o Prio!IsKind("data", t)
    <3>1. u \in Texts /\ t \in Texts
      BY <1>5
    <3>2. Prio!IsKind("data", u \o t) = Prio!IsKind("data", u) \o Prio!IsKind("data", t)
      BY ONLY <3>1, KindConcat
    <3> QED
      BY <1>5, <3>2
  <2>2. \A i \in 1 .. Len(u) : u[i].k # "data"
    <3>1. \A i \in 1 .. Len(u) : i = 1 \/ i = 2
      BY <1>4
    <3> QED
      BY <3>1, <1>2, <1>4 DEF Heads
  <2>3. Prio!IsKind("data", u) = <<>>
    BY <1>5, <2>2, KindAll
  <2>4. PICK w : w = Prio!IsKind("data", t) /\ w \in Seq(Prio!Tokens)
    BY KindIsText DEF Texts
  <2>5. <<>> \o w = w
    BY <2>4, ConcatEmptySeq
  <2> QED
    BY <2>1, <2>3, <2>4, <2>5 DEF Prio!Sent
<1> QED
  BY <1>1, <1>7, <1>8, <1>9 DEF HeadOf

LEMMA DataFacts ==
    ASSUME NEW n \in Nat
    PROVE  Prio!Data(n) \in Texts /\ Len(Prio!Data(n)) = n /\ Prio!Sent(Prio!Data(n)) = Prio!Data(n)
<1> DEFINE t(i) == Prio!Token("data", i)
           d == [i \in 1 .. n |-> t(i)]
<1>1. \A i \in 1 .. n : t(i) \in Prio!Tokens /\ t(i).k = "data"
  BY TokenFacts
<1> HIDE DEF t
<1>2. d \in Seq(Prio!Tokens) /\ Len(d) = n /\ \A i \in 1 .. n : d[i].k = "data"
  BY <1>1
<1>3. Prio!Data(n) = d
  BY DEF Prio!Data, t
<1> HIDE DEF d
<1>4. d \in Texts /\ Prio!IsKind("data", d) = d
  BY <1>2, KindAll DEF Texts
<1> QED
  BY <1>2, <1>3, <1>4 DEF Prio!Sent

ChunkOf(sizes, i) ==
    <<Prio!Token("size", sizes[i])>> \o [j \in 1 .. sizes[i] |-> Prio!Token("data", 2 * i + j)] \o <<Prio!Crlf>>

\* A chunk: its size first, and so much after it.
ChunkIs(c, n) ==
    /\ c \in Texts /\ Len(c) = n + 2 /\ c[1].n = n
    /\ \A i \in 1 .. Len(c) : c[i].k # "junk"

LEMMA ChunkFacts ==
    ASSUME NEW sizes, NEW i \in Nat, sizes[i] \in Nat
    PROVE  ChunkIs(ChunkOf(sizes, i), sizes[i])
<1>1. PICK n \in Nat : n = sizes[i]
  OBVIOUS
<1> DEFINE t(j) == Prio!Token("data", 2 * i + j)
           d == [j \in 1 .. n |-> t(j)]
<1>2. \A j \in 1 .. n : t(j) \in Prio!Tokens /\ t(j).k = "data"
  <2>1. \A j \in 1 .. n : 2 * i + j \in Nat
    OBVIOUS
  <2> QED
    BY <2>1, TokenFacts
<1> HIDE DEF t
<1>3. PICK x, y : x = Prio!Token("size", n) /\ y = Prio!Crlf
  OBVIOUS
<1>4. x \in Prio!Tokens /\ x.k = "size" /\ x.n = n /\ y \in Prio!Tokens /\ y.k = "crlf"
  BY <1>3, TokenFacts DEF Prio!Crlf
<1>5. d \in Texts /\ Len(d) = n /\ \A j \in 1 .. n : d[j].k = "data"
  <2>1. d \in Seq(Prio!Tokens)
    BY <1>2
  <2> QED
    BY <1>2, <2>1 DEF Texts
<1>6. ChunkOf(sizes, i) = <<x>> \o d \o <<y>>
  BY <1>1, <1>3 DEF ChunkOf, t
<1> HIDE DEF d
<1>7. PICK u, v : u = <<x>> /\ v = <<y>>
  OBVIOUS
<1>8. u \in Texts /\ Len(u) = 1 /\ u[1] = x /\ v \in Texts /\ Len(v) = 1 /\ v[1] = y
  BY <1>4, <1>7 DEF Texts
<1>9. PICK ud : ud = u \o d
  OBVIOUS
<1>10. ud \in Texts /\ Parts(ud, u, d)
  BY <1>5, <1>8, <1>9, Joined
<1>11. PICK c : c = ud \o v
  OBVIOUS
<1>12. c \in Texts /\ Parts(c, ud, v)
  BY <1>8, <1>10, <1>11, Joined
<1>13. Len(ud) = 1 + n /\ ud[1] = x /\ \A j \in 1 .. n : ud[1 + j] = d[j]
  <2>1. 1 \in 1 .. Len(u)
    BY <1>8
  <2> QED
    BY <2>1, <1>5, <1>8, <1>10 DEF Parts
<1>14. Len(c) = n + 2 /\ c[1] = x /\ c[n + 2] = y /\ \A j \in 1 .. n : c[1 + j] = d[j]
  <2>1. 1 \in 1 .. Len(ud) /\ 1 \in 1 .. Len(v) /\ \A j \in 1 .. n : 1 + j \in 1 .. Len(ud)
    BY <1>8, <1>13
  <2>2. Len(c) = Len(ud) + Len(v) /\ c[1] = ud[1] /\ c[Len(ud) + 1] = v[1] /\ \A j \in 1 .. n : c[1 + j] = ud[1 + j]
    BY <2>1, <1>12 DEF Parts
  <2>3. Len(ud) + 1 = n + 2 /\ Len(ud) + Len(v) = n + 2
    BY <1>8, <1>13
  <2> QED
    BY <2>2, <2>3, <1>8, <1>13
<1>15. ASSUME NEW j \in 1 .. Len(c) PROVE c[j].k # "junk"
  <2>1. j = 1 \/ j = n + 2 \/ (j - 1 \in 1 .. n /\ 1 + (j - 1) = j)
    BY <1>14
  <2>2. CASE j - 1 \in 1 .. n /\ 1 + (j - 1) = j
    <3>1. c[j] = d[j - 1] /\ d[j - 1].k = "data"
      BY <2>2, <1>5, <1>14
    <3> QED
      BY <3>1
  <2> QED
    BY <2>1, <2>2, <1>4, <1>14
<1>16. ChunkOf(sizes, i) = c
  BY <1>6, <1>7, <1>9, <1>11
<1>17. c[1].n = n
  BY <1>4, <1>14
<1> QED
  BY <1>1, <1>12, <1>14, <1>15, <1>16, <1>17 DEF ChunkIs

\* start[i]: where the chunk after the first i begins.
Begin(start, sizes, m) ==
    /\ start \in [0 .. m -> Nat] /\ start[0] = 0
    /\ \A i \in 1 .. m : start[i] = start[i - 1] + (sizes[i] + 2)

LEMMA BeginsExist ==
    ASSUME NEW m \in Nat, NEW sizes \in [1 .. m -> Nat]
    PROVE  \E start : Begin(start, sizes, m)
<1> DEFINE step == [p \in Nat \X Nat |-> IF p[1] \in 1 .. m THEN p[2] + (sizes[p[1]] + 2) ELSE p[2]]
<1>1. \A i \in 1 .. m : sizes[i] + 2 \in Nat
  OBVIOUS
<1>2. step \in [Nat \X Nat -> Nat]
  BY <1>1
<1>3. PICK g : Iterates(g, Nat, 0, step, m)
  <2> HIDE DEF step
  <2> QED
    BY <1>2, Recursion
<1>4. g \in [0 .. m -> Nat] /\ g[0] = 0 /\ \A i \in 1 .. m : g[i] = step[<<i, g[i - 1]>>]
  BY <1>3 DEF Iterates
<1>5. ASSUME NEW i \in 1 .. m PROVE g[i] = g[i - 1] + (sizes[i] + 2)
  <2>1. i - 1 \in 0 .. m /\ i \in Nat
    OBVIOUS
  <2>2. <<i, g[i - 1]>> \in Nat \X Nat
    BY <2>1, <1>4
  <2>3. step[<<i, g[i - 1]>>] = g[i - 1] + (sizes[i] + 2)
    BY <2>2
  <2> QED
    BY <2>3, <1>4
<1> QED
  BY <1>4, <1>5 DEF Begin

\* The chunks of the first i sizes: where each of them begins, and with what.
ChunksLaid(text, start, sizes, i) ==
    /\ text \in Texts /\ Len(text) = start[i]
    /\ \A j \in 1 .. i : start[j - 1] < start[i] /\ text[start[j - 1] + 1].n = sizes[j]
    /\ \A j \in 1 .. Len(text) : text[j].k # "junk"

LEMMA ChunkAdded ==
    ASSUME NEW m \in Nat, NEW sizes \in [1 .. m -> Nat], NEW start, Begin(start, sizes, m),
           NEW i \in 1 .. m, NEW text, ChunksLaid(text, start, sizes, i - 1), NEW c, ChunkIs(c, sizes[i])
    PROVE  ChunksLaid(text \o c, start, sizes, i)
<1>1. /\ i - 1 \in 0 .. m /\ i \in 0 .. m /\ start[i] = start[i - 1] + (sizes[i] + 2)
      /\ start[i - 1] \in Nat /\ sizes[i] \in Nat
  BY DEF Begin
<1>2. text \in Texts /\ Len(text) = start[i - 1] /\ c \in Texts /\ Len(c) = sizes[i] + 2 /\ c[1].n = sizes[i]
  BY DEF ChunksLaid, ChunkIs
<1>3. PICK w : w = text \o c
  OBVIOUS
<1>4. w \in Texts /\ Parts(w, text, c)
  BY <1>2, <1>3, Joined
<1>5. Len(w) = start[i]
  BY <1>1, <1>2, <1>4 DEF Parts
<1>6. ASSUME NEW j \in 1 .. i PROVE start[j - 1] < start[i] /\ w[start[j - 1] + 1].n = sizes[j]
  <2>1. CASE j = i
    <3>1. 1 \in 1 .. Len(c)
      BY <1>1, <1>2
    <3>2. w[start[i - 1] + 1] = c[1]
      BY <3>1, <1>2, <1>4 DEF Parts
    <3> QED
      BY <2>1, <3>2, <1>1, <1>2
  <2>2. CASE j # i
    <3>1. j \in 1 .. i - 1 /\ j - 1 \in 0 .. m
      <4>1. j \in Nat /\ 1 <= j /\ j <= i - 1 /\ i - 1 <= m /\ m \in Nat /\ i - 1 \in Nat
        BY <2>2, <1>1
      <4> QED
        BY <4>1
    <3>2. start[j - 1] < start[i - 1] /\ text[start[j - 1] + 1].n = sizes[j]
      BY <3>1 DEF ChunksLaid
    <3>3. start[j - 1] \in Nat
      BY <3>1 DEF Begin
    <3>4. start[j - 1] + 1 \in 1 .. Len(text) /\ start[j - 1] < start[i]
      BY <3>2, <3>3, <1>1, <1>2
    <3>5. w[start[j - 1] + 1] = text[start[j - 1] + 1]
      BY <3>4, <1>4 DEF Parts
    <3> QED
      BY <3>2, <3>4, <3>5
  <2> QED
    BY <2>1, <2>2
<1>7. ASSUME NEW j \in 1 .. Len(w) PROVE w[j].k # "junk"
  <2>1. Len(text) \in Nat /\ Len(c) \in Nat /\ Len(w) = Len(text) + Len(c)
    BY <1>1, <1>2, <1>4 DEF Parts
  <2>2. CASE j \in 1 .. Len(text)
    <3>1. w[j] = text[j] /\ text[j].k # "junk"
      BY <2>2, <1>4 DEF Parts, ChunksLaid
    <3> QED
      BY <3>1
  <2>3. CASE j \notin 1 .. Len(text)
    <3>1. PICK l \in 1 .. Len(c) : j = Len(text) + l
      <4>1. j - Len(text) \in 1 .. Len(c) /\ Len(text) + (j - Len(text)) = j
        BY <2>1, <2>3
      <4> QED
        BY <4>1
    <3>2. w[j] = c[l] /\ c[l].k # "junk"
      BY <3>1, <1>4 DEF Parts, ChunkIs
    <3> QED
      BY <3>2
  <2> QED
    BY <2>2, <2>3
<1> QED
  BY <1>3, <1>4, <1>5, <1>6, <1>7 DEF ChunksLaid

\* A text of chunks, made by FlattenSeq.
LEMMA ChunksFlat ==
    ASSUME NEW m \in Nat, NEW sizes \in [1 .. m -> Nat], NEW start, Begin(start, sizes, m)
    PROVE  ChunksLaid(Prio!FlattenSeq([i \in 1 .. m |-> ChunkOf(sizes, i)]), start, sizes, m)
<1> DEFINE seqs == [i \in 1 .. m |-> ChunkOf(sizes, i)]
<1>1. \A i \in 1 .. m : ChunkIs(ChunkOf(sizes, i), sizes[i]) /\ ChunkOf(sizes, i) \in Seq(Prio!Tokens)
  <2>1. \A i \in 1 .. m : i \in Nat /\ sizes[i] \in Nat
    OBVIOUS
  <2>2. \A i \in 1 .. m : ChunkIs(ChunkOf(sizes, i), sizes[i])
    BY <2>1, ChunkFacts
  <2> QED
    BY <2>2 DEF ChunkIs, Texts
<1>2. seqs \in Seq(Seq(Prio!Tokens)) /\ Len(seqs) = m
  BY <1>1
<1>3. ChunksLaid(<<>>, start, sizes, 0)
  <2>1. start[0] = 0 /\ <<>> \in Texts /\ Len(<<>>) = 0
    BY DEF Begin, Texts
  <2> QED
    BY <2>1 DEF ChunksLaid
<1>4. CASE m = 0
  <2>1. seqs = <<>> /\ Prio!FlattenSeq(seqs) = seqs
    BY <1>2, <1>4 DEF Prio!FlattenSeq
  <2> QED
    BY <2>1, <1>3, <1>4
<1>5. CASE m # 0
  <2>1. PICK f : Flattens(f, seqs, m, Prio!Tokens)
    <3>1. m \in Nat \ {0}
      BY <1>5
    <3> HIDE DEF seqs
    <3> QED
      BY <3>1, <1>2, Flattened
  <2>2. /\ f[1] = ChunkOf(sizes, 1) /\ Prio!FlattenSeq(seqs) = f[m]
        /\ \A i \in 2 .. m : f[i] = f[i - 1] \o ChunkOf(sizes, i)
    <3>1. 1 \in 1 .. m /\ \A i \in 2 .. m : i \in 1 .. m
      BY <1>5
    <3> QED
      BY <2>1, <3>1 DEF Flattens
  <2> HIDE DEF seqs
  <2> DEFINE Bad == {i \in 1 .. m : ~ChunksLaid(f[i], start, sizes, i)}
  <2>3. Bad = {}
    <3>1. SUFFICES ASSUME Bad # {} PROVE FALSE
      OBVIOUS
    <3>2. PICK i \in Bad : \A j \in Bad : i <= j
      <4>1. Bad \in SUBSET Nat
        OBVIOUS
      <4> HIDE DEF Bad
      <4> QED
        BY <3>1, <4>1, LeastNumber
    <3>3. CASE i = 1
      <4>1. 1 \in 1 .. m /\ 1 - 1 = 0
        BY <1>5
      <4>2. ChunksLaid(<<>> \o ChunkOf(sizes, 1), start, sizes, 1)
        BY <4>1, <1>1, <1>3, ChunkAdded
      <4>3. PICK c : c = ChunkOf(sizes, 1) /\ c \in Seq(Prio!Tokens)
        BY <4>1, <1>1
      <4>4. <<>> \o c = c
        BY <4>3, ConcatEmptySeq
      <4> QED
        BY <3>2, <3>3, <4>2, <4>3, <4>4, <2>2
    <3>4. CASE i # 1
      <4>1. i \in 2 .. m /\ i - 1 \in 1 .. m /\ ~(i <= i - 1)
        BY <3>2, <3>4
      <4>2. ChunksLaid(f[i - 1], start, sizes, i - 1)
        BY <4>1, <3>2
      <4>3. ChunksLaid(f[i - 1] \o ChunkOf(sizes, i), start, sizes, i)
        BY <4>1, <4>2, <1>1, ChunkAdded
      <4> QED
        BY <4>1, <4>3, <3>2, <2>2
    <3> QED
      BY <3>3, <3>4
  <2>4. m \in 1 .. m
    BY <1>5
  <2> QED
    BY <2>2, <2>3, <2>4 DEF seqs
<1> QED
  BY <1>4, <1>5

\* What follows the head of a chunked answer.
LEMMA ChunkedRest ==
    ASSUME NEW m \in Nat, NEW sizes \in [1 .. m -> Nat], \A i \in 1 .. m : sizes[i] # 0, NEW r,
           r = Prio!FlattenSeq([i \in 1 .. m |-> ChunkOf(sizes, i)]) \o <<Prio!Token("size", 0), Prio!Crlf>>
    PROVE  r \in Texts /\ ChunkText(r)
<1>1. PICK start : Begin(start, sizes, m)
  BY BeginsExist
<1>2. PICK w : w = Prio!FlattenSeq([i \in 1 .. m |-> ChunkOf(sizes, i)])
  OBVIOUS
<1>3. ChunksLaid(w, start, sizes, m)
  BY <1>1, <1>2, ChunksFlat
<1>4. PICK x, y : x = Prio!Token("size", 0) /\ y = Prio!Crlf
  OBVIOUS
<1>5. x \in Prio!Tokens /\ x.k = "size" /\ x.n = 0 /\ y \in Prio!Tokens /\ y.k = "crlf"
  BY <1>4, TokenFacts DEF Prio!Crlf
<1>6. PICK e : e = <<x, y>>
  OBVIOUS
<1>7. e \in Texts /\ Len(e) = 2 /\ e[1] = x /\ e[2] = y
  BY <1>5, <1>6 DEF Texts
<1>8. w \in Texts /\ r = w \o e
  BY <1>2, <1>3, <1>4, <1>6 DEF ChunksLaid
<1>9. r \in Texts /\ Parts(r, w, e)
  BY <1>7, <1>8, Joined
<1> DEFINE B == {start[i] : i \in 0 .. m}
<1>10. start \in [0 .. m -> Nat] /\ start[0] = 0 /\ \A i \in 1 .. m : start[i] = start[i - 1] + (sizes[i] + 2)
  BY <1>1 DEF Begin
<1>11. Len(w) = start[m] /\ start[m] \in Nat /\ Len(r) = start[m] + 2
       /\ \A i \in 1 .. start[m] : r[i] = w[i]
  <2>1. m \in 0 .. m
    OBVIOUS
  <2> QED
    BY <2>1, <1>3, <1>7, <1>9, <1>10 DEF ChunksLaid, Parts
<1>12. r[start[m] + 1] = x /\ r[start[m] + 2] = y
  <2>1. 1 \in 1 .. Len(e) /\ 2 \in 1 .. Len(e)
    BY <1>7
  <2> QED
    BY <2>1, <1>7, <1>9, <1>11 DEF Parts
<1>13. 0 \in B /\ B \subseteq 0 .. Len(r)
  <2>1. 0 \in 0 .. m /\ m \in 0 .. m
    OBVIOUS
  <2>2. ASSUME NEW i \in 0 .. m PROVE start[i] \in 0 .. Len(r)
    <3>1. CASE i = m
      BY <3>1, <1>11
    <3>2. CASE i # m
      <4>1. i + 1 \in 1 .. m /\ (i + 1) - 1 = i
        BY <3>2
      <4>2. start[i] < start[m] /\ start[i] \in Nat
        BY <4>1, <1>3, <1>10 DEF ChunksLaid
      <4> QED
        BY <4>2, <1>11
    <3> QED
      BY <3>1, <3>2
  <2> QED
    BY <2>1, <2>2, <1>10
<1>14. ASSUME NEW b \in B
       PROVE  /\ b + 2 <= Len(r)
              /\ r[b + 1].n = 0 => b + 2 = Len(r) /\ r[b + 1].k # "data" /\ r[b + 2].k # "data"
              /\ r[b + 1].n # 0 => b + 2 + r[b + 1].n \in B
  <2>1. PICK i \in 0 .. m : b = start[i]
    OBVIOUS
  <2>2. CASE i = m
    BY <2>1, <2>2, <1>5, <1>11, <1>12
  <2>3. CASE i # m
    <3>1. i + 1 \in 1 .. m /\ (i + 1) - 1 = i /\ i + 1 \in 0 .. m
      BY <2>3
    <3>2. start[i] < start[m] /\ start[i] \in Nat /\ w[start[i] + 1].n = sizes[i + 1]
      BY <3>1, <1>3, <1>10 DEF ChunksLaid
    <3>3. start[i] + 1 \in 1 .. start[m]
      BY <3>2, <1>11
    <3>4. r[b + 1].n = sizes[i + 1] /\ sizes[i + 1] # 0 /\ sizes[i + 1] \in Nat
      BY <3>1, <3>2, <3>3, <2>1, <1>11
    <3>5. start[i + 1] = b + 2 + sizes[i + 1]
      <4>1. start[i + 1] = start[i] + (sizes[i + 1] + 2)
        BY <3>1, <1>10
      <4> QED
        BY <4>1, <3>2, <3>4, <2>1
    <3>6. b + 2 + sizes[i + 1] \in B
      BY <3>1, <3>5
    <3>7. b + 2 <= Len(r)
      BY <3>2, <2>1, <1>11
    <3>8. r[b + 1].n # 0 /\ b + 2 + r[b + 1].n = b + 2 + sizes[i + 1]
      BY <3>4
    <3> QED
      BY <3>6, <3>7, <3>8
  <2> QED
    BY <2>2, <2>3
<1>15. ASSUME NEW j \in 1 .. Len(r) PROVE r[j].k # "junk"
  <2>1. j \in 1 .. start[m] \/ j = start[m] + 1 \/ j = start[m] + 2
    BY <1>11
  <2>2. CASE j \in 1 .. start[m]
    <3>1. r[j] = w[j] /\ w[j].k # "junk"
      BY <2>2, <1>3, <1>11 DEF ChunksLaid
    <3> QED
      BY <3>1
  <2> QED
    BY <2>1, <2>2, <1>5, <1>12
<1>16. B \in SUBSET Nat
  BY <1>10
<1> HIDE DEF B
<1>17. Bounds(r, B)
  BY <1>13, <1>14, <1>15 DEF Bounds
<1> QED
  BY <1>9, <1>16, <1>17 DEF ChunkText

LEMMA PlainIs ==
    ASSUME NEW a \in Texts, Prio!Plain(a)
    PROVE  Answered(a)
<1>1. Len(a) \in Nat
  BY TextFacts
<1>2. ASSUME NEW n \in Nat, a = <<Prio!Token("head", n), Prio!Blank>> \o Prio!Data(n) PROVE Answered(a)
  <2>1. PICK h : h = Prio!Token("head", n)
    OBVIOUS
  <2>2. h \in Prio!Tokens /\ h.k = "head" /\ h.n = n
    BY <2>1, TokenFacts
  <2>3. PICK t : t = Prio!Data(n)
    OBVIOUS
  <2>4. t \in Texts /\ Len(t) = n /\ Prio!Sent(t) = t
    BY <2>3, DataFacts
  <2>5. h.k \in Heads /\ a = <<h, Prio!Blank>> \o t
    BY <1>2, <2>1, <2>2, <2>3 DEF Heads
  <2>6. 2 <= Len(a) /\ a[1] = h /\ a[2] = Prio!Blank /\ Rest(a) = t /\ Prio!Sent(a) = Prio!Sent(t)
    <3>1. HeadOf(a, h, t)
      BY <2>2, <2>4, <2>5, Headed
    <3> QED
      BY <3>1 DEF HeadOf
  <2>7. CASE n = 0
    BY <2>1, <2>2, <2>4, <2>5, <2>6, <2>7 DEF Answered
  <2>8. CASE n # 0
    <3>1. n > 0
      BY <2>8
    <3> QED
      BY <3>1, <2>2, <2>4, <2>5, <2>6 DEF Answered
  <2> QED
    BY <2>7, <2>8
<1>3. ASSUME NEW n \in Nat, a = <<Prio!Token("head", 0), Prio!Blank>> \o Prio!Data(n) PROVE Answered(a)
  <2>1. PICK h : h = Prio!Token("head", 0)
    OBVIOUS
  <2>2. h \in Prio!Tokens /\ h.k = "head"
    BY <2>1, TokenFacts
  <2>3. PICK t : t = Prio!Data(n)
    OBVIOUS
  <2>4. t \in Texts /\ Prio!Sent(t) = t
    BY <2>3, DataFacts
  <2>5. h.k \in Heads /\ a = <<h, Prio!Blank>> \o t
    BY <1>3, <2>1, <2>2, <2>3 DEF Heads
  <2>6. 2 <= Len(a) /\ a[1] = h /\ a[2] = Prio!Blank /\ Rest(a) = t /\ Prio!Sent(a) = Prio!Sent(t)
    <3>1. HeadOf(a, h, t)
      BY <2>2, <2>4, <2>5, Headed
    <3> QED
      BY <3>1 DEF HeadOf
  <2> QED
    BY <2>1, <2>2, <2>4, <2>5, <2>6 DEF Answered
<1>4. ASSUME NEW m \in 0 .. Len(a), NEW sizes \in [1 .. m -> 1 .. Len(a)], a = Prio!Chunked(sizes)
      PROVE  Answered(a)
  <2>1. m \in Nat /\ sizes \in [1 .. m -> Nat] /\ DOMAIN sizes = 1 .. m /\ \A i \in 1 .. m : sizes[i] # 0
    BY <1>1
  <2>2. PICK h : h = Prio!Token("chunked", 0)
    OBVIOUS
  <2>3. h \in Prio!Tokens /\ h.k = "chunked" /\ h.k \in Heads
    BY <2>2, TokenFacts DEF Heads
  <2>4. PICK w, e : w = Prio!FlattenSeq([i \in 1 .. m |-> ChunkOf(sizes, i)]) /\ e = <<Prio!Token("size", 0), Prio!Crlf>>
    OBVIOUS
  <2>5. PICK hb : hb = <<h, Prio!Blank>>
    OBVIOUS
  <2>6. a = hb \o w \o e
    <3>1. Prio!FlattenSeq([i \in DOMAIN sizes |-> ChunkOf(sizes, i)]) = w
      BY <2>1, <2>4
    <3> QED
      BY <1>4, <2>2, <2>4, <2>5, <3>1 DEF Prio!Chunked, ChunkOf
  <2>7. PICK t : t = w \o e
    OBVIOUS
  <2>8. t \in Texts /\ ChunkText(t)
    BY <2>1, <2>4, <2>7, ChunkedRest
  <2>9. w \in Seq(Prio!Tokens) /\ e \in Seq(Prio!Tokens) /\ hb \in Seq(Prio!Tokens)
    <3>1. PICK start : Begin(start, sizes, m)
      BY <2>1, BeginsExist
    <3>2. w \in Texts
      <4>1. ChunksLaid(w, start, sizes, m)
        BY <2>1, <2>4, <3>1, ChunksFlat
      <4> QED
        BY <4>1 DEF ChunksLaid
    <3>3. Prio!Token("size", 0) \in Prio!Tokens /\ Prio!Crlf \in Prio!Tokens /\ Prio!Blank \in Prio!Tokens
      BY TokenFacts DEF Prio!Crlf, Prio!Blank
    <3> QED
      BY <2>3, <2>4, <2>5, <3>2, <3>3 DEF Texts
  <2>10. (hb \o w) \o e = hb \o (w \o e)
    BY ONLY <2>9, ConcatAssociative
  <2>11. a = <<h, Prio!Blank>> \o t
    BY <2>5, <2>6, <2>7, <2>10
  <2>12. 2 <= Len(a) /\ a[1] = h /\ a[2] = Prio!Blank /\ Rest(a) = t /\ Prio!Sent(a) = Prio!Sent(t)
    <3>1. HeadOf(a, h, t)
      BY <2>3, <2>8, <2>11, Headed
    <3> QED
      BY <3>1 DEF HeadOf
  <2> QED
    BY <2>3, <2>8, <2>12 DEF Answered
<1>5. \A n \in 0 .. Len(a) : n \in Nat
  BY <1>1
<1> QED
  BY <1>2, <1>3, <1>4, <1>5 DEF Prio!Plain, Prio!Length, Prio!Open

-----------------------------------------------------------------------------
(* The fetch() of prio settles once.  Over HTTP/1 the phase says so; over   *)
(* HTTP/2 it is read on, but the stream has only one end, after which the   *)
(* connection can only fail.                                                *)

Resolved(b) == Prio!Outcome("resolved", b)
Rejected == Prio!Outcome("rejected", <<>>)

EndLast(s) == \A i \in 1 .. Len(s) : s[i].k = "end" => i = Len(s)

Asking == {"start", "resolving", "connecting", "handshake", "writing", "greeting", "request"}

PrioInv ==
    /\ answer \in Answers
    /\ phase \in Asking \union {"reading", "frames", "done", "crashed"}
    /\ phase \in Asking => settled = <<>> /\ headers_stream_ = <<>>
    /\ phase = "reading" => settled = <<>>
    /\ phase = "frames" =>
          /\ headers_stream_ = <<>>
          /\ wire \in Texts /\ EndLast(wire)
          /\ settled = <<>> \/ ((\E b : settled = <<Resolved(b)>>) /\ ~Prio!Has("end", wire))
    /\ \/ settled = <<>>
       \/ \E o : settled = <<o>>
       \/ headers_stream_ = <<>> /\ \E b : settled = <<Resolved(b), Rejected>>

LEMMA InitPrio == Init => PrioInv
BY DEF Init, Prio!Init, PrioInv, Asking

\* The data of an answer, as frames
LEMMA FramesAre ==
    ASSUME NEW a \in Texts
    PROVE  /\ Prio!Frames(a) \in Texts /\ EndLast(Prio!Frames(a))
           /\ Prio!Sent(Prio!Frames(a)) = Prio!Sent(a)
<1> DEFINE K(s) == Prio!IsKind("data", s)
<1>1. PICK d : d = Prio!Sent(a) /\ d \in Texts
  BY KindIsText DEF Prio!Sent
<1>2. Len(d) \in Nat /\ \A i \in 1 .. Len(d) : d[i].k = "data"
  <2>1. d \in Seq({t \in Prio!Tokens : t.k = "data"})
    BY <1>1, KindKept DEF Prio!Sent
  <2> QED
    BY <2>1
<1>3. PICK x, y : x = Prio!Token("head", 0) /\ y = Prio!Token("end", 0)
  OBVIOUS
<1>4. x \in Prio!Tokens /\ x.k = "head" /\ y \in Prio!Tokens /\ y.k = "end"
  BY <1>3, TokenFacts
<1>5. PICK u, v : u = <<x>> /\ v = <<y>>
  OBVIOUS
<1>6. u \in Texts /\ Len(u) = 1 /\ u[1] = x /\ v \in Texts /\ Len(v) = 1 /\ v[1] = y
  BY <1>4, <1>5 DEF Texts
<1>7. PICK ud : ud = u \o d
  OBVIOUS
<1>8. ud \in Texts /\ Parts(ud, u, d)
  BY <1>1, <1>6, <1>7, Joined
<1>9. PICK w : w = ud \o v
  OBVIOUS
<1>10. w \in Texts /\ Parts(w, ud, v)
  BY <1>6, <1>8, <1>9, Joined
<1>11. \A i \in 1 .. Len(ud) : ud[i].k # "end"
  <2>1. Len(ud) = 1 + Len(d) /\ ud[1] = x /\ \A i \in 1 .. Len(d) : ud[1 + i] = d[i]
    <3>1. 1 \in 1 .. Len(u)
      BY <1>6
    <3> QED
      BY <3>1, <1>6, <1>8 DEF Parts
  <2> SUFFICES ASSUME NEW i \in 1 .. Len(ud) PROVE ud[i].k # "end"
    OBVIOUS
  <2>2. i = 1 \/ (i - 1 \in 1 .. Len(d) /\ 1 + (i - 1) = i)
    BY <1>2, <2>1
  <2>3. CASE i - 1 \in 1 .. Len(d) /\ 1 + (i - 1) = i
    <3>1. ud[i] = d[i - 1]
      BY <2>1, <2>3
    <3> QED
      BY <2>3, <3>1, <1>2
  <2> QED
    BY <2>1, <2>2, <2>3, <1>4
<1>12. EndLast(w)
  <2>1. Len(w) = Len(ud) + 1 /\ Len(ud) \in Nat
    BY <1>6, <1>8, <1>10, TextFacts DEF Parts
  <2> SUFFICES ASSUME NEW i \in 1 .. Len(w), w[i].k = "end" PROVE i = Len(w)
    BY DEF EndLast
  <2>2. i \notin 1 .. Len(ud)
    BY <1>10, <1>11 DEF Parts
  <2> QED
    BY <2>1, <2>2
<1>13. Prio!Sent(w) = d
  <2>1. K(w) = K(ud) \o K(v)
    <3>1. ud \in Texts /\ v \in Texts
      BY <1>6, <1>8
    <3>2. Prio!IsKind("data", ud \o v) = Prio!IsKind("data", ud) \o Prio!IsKind("data", v)
      BY ONLY <3>1, KindConcat
    <3> QED
      BY <1>9, <3>2
  <2>2. K(ud) = K(u) \o K(d)
    <3>1. u \in Texts /\ d \in Texts
      BY <1>6, <1>1
    <3>2. Prio!IsKind("data", u \o d) = Prio!IsKind("data", u) \o Prio!IsKind("data", d)
      BY ONLY <3>1, KindConcat
    <3> QED
      BY <1>7, <3>2
  <2>3. K(u) = <<>> /\ K(v) = <<>>
    <3>1. \A i \in 1 .. Len(u) : u[i].k # "data"
      BY <1>4, <1>6
    <3>2. \A i \in 1 .. Len(v) : v[i].k # "data"
      BY <1>4, <1>6
    <3> QED
      BY <3>1, <3>2, <1>6, KindAll
  <2>4. K(d) = d
    BY <1>1, <1>2, KindAll
  <2>5. <<>> \o d = d /\ d \o <<>> = d
    BY <1>1, ConcatEmptySeq DEF Texts
  <2> QED
    BY <2>1, <2>2, <2>3, <2>4, <2>5 DEF Prio!Sent
<1>14. Prio!Frames(a) = w
  BY <1>1, <1>3, <1>5, <1>7, <1>9 DEF Prio!Frames
<1> QED
  BY <1>1, <1>10, <1>12, <1>13, <1>14

\* A stream that is reset has no end.
LEMMA ResetNoEnd ==
    ASSUME NEW w \in Texts, EndLast(w), NEW i \in 0 .. Len(w) - 1,
           NEW s, s = Append(SubSeq(w, 1, i), Prio!Token("reset", 0))
    PROVE  s \in Texts /\ EndLast(s) /\ ~Prio!Has("end", s)
<1>1. Len(w) \in Nat /\ i \in Nat /\ i < Len(w) /\ i \in 0 .. Len(w)
  BY TextFacts
<1>2. PICK x : x = Prio!Token("reset", 0) /\ x \in Prio!Tokens /\ x.k = "reset"
  BY TokenFacts
<1>3. PICK c : c = Cut(w, i)
  OBVIOUS
<1>4. c \in Seq(Prio!Tokens) /\ Len(c) = i /\ \A j \in 1 .. i : c[j] = w[j]
  BY <1>1, <1>3, CutFacts DEF Texts
<1>5. s = Append(c, x)
  BY <1>2, <1>3 DEF Cut
<1>6. s \in Seq(Prio!Tokens) /\ Len(s) = i + 1 /\ s[i + 1] = x /\ \A j \in 1 .. i : s[j] = c[j]
  BY <1>1, <1>2, <1>4, <1>5
<1>7. ASSUME NEW j \in 1 .. Len(s) PROVE s[j].k # "end"
  <2>1. j = i + 1 \/ (j \in 1 .. i /\ j \in 1 .. Len(w) /\ j # Len(w))
    BY <1>1, <1>6
  <2>2. CASE j \in 1 .. i /\ j \in 1 .. Len(w) /\ j # Len(w)
    BY <2>2, <1>4, <1>6 DEF EndLast
  <2> QED
    BY <2>1, <2>2, <1>2, <1>6
<1> QED
  BY <1>6, <1>7 DEF Texts, EndLast, Prio!Has

\* Reading s of the stream w, of which r remains, keeps that the end comes last.
ReadOn(w, s, r) ==
    /\ Parts(w, s, r) /\ EndLast(r)
    /\ Prio!Has("end", w) => Prio!Has("end", s) \/ Prio!Has("end", r)
    /\ Prio!Has("end", s) => r = <<>> /\ s = w /\ Prio!Has("end", w)
    /\ ~Prio!Has("end", w) => ~Prio!Has("end", r) /\ ~Prio!Has("end", s)

LEMMA EndReadOnce ==
    ASSUME NEW w \in Texts, EndLast(w), NEW n \in 1 .. Len(w),
           NEW s, s = SubSeq(w, 1, n), NEW r, r = SubSeq(w, n + 1, Len(w))
    PROVE  ReadOn(w, s, r)
<1>1. Len(w) \in Nat /\ n \in 0 .. Len(w) /\ n \in Nat /\ n <= Len(w)
  BY TextFacts
<1>2. Parts(w, s, r) /\ Len(s) = n /\ Len(r) = Len(w) - n
  BY <1>1, CutInTwo
<1>3. s \in Seq(Prio!Tokens) /\ r \in Seq(Prio!Tokens) /\ w \in Seq(Prio!Tokens)
  BY <1>2 DEF Parts, Texts
<1>4. DOMAIN s = 1 .. n /\ DOMAIN r = 1 .. Len(w) - n /\ DOMAIN w = 1 .. Len(w)
  BY <1>1, <1>2, <1>3
<1>5. \A i \in 1 .. n : s[i] = w[i] /\ i \in 1 .. Len(w)
  BY <1>1, <1>2 DEF Parts
<1>6. \A i \in 1 .. Len(w) - n : r[i] = w[n + i] /\ n + i \in 1 .. Len(w) /\ i \in Nat
  BY <1>1, <1>2 DEF Parts
<1>7. EndLast(r)
  <2> SUFFICES ASSUME NEW i \in 1 .. Len(r), r[i].k = "end" PROVE i = Len(r)
    BY DEF EndLast
  <2>1. w[n + i].k = "end" /\ n + i \in 1 .. Len(w) /\ i \in Nat
    BY <1>2, <1>6
  <2>2. n + i = Len(w)
    BY <2>1 DEF EndLast
  <2> QED
    BY <2>1, <2>2, <1>1, <1>2
<1>8. ASSUME Prio!Has("end", s) PROVE r = <<>> /\ s = w /\ Prio!Has("end", w)
  <2>1. PICK i \in 1 .. n : s[i].k = "end"
    BY <1>4, <1>8 DEF Prio!Has
  <2>2. i = Len(w) /\ Prio!Has("end", w)
    BY <2>1, <1>4, <1>5 DEF EndLast, Prio!Has
  <2>3. n = Len(w)
    BY <2>1, <2>2, <1>1
  <2>4. s = w
    BY <2>3, <1>1, CutFacts DEF Cut
  <2>5. r = <<>>
    BY <2>3, <1>1, <1>2, <1>3, EmptySeq
  <2> QED
    BY <2>2, <2>4, <2>5
<1>9. ~Prio!Has("end", w) => ~Prio!Has("end", r) /\ ~Prio!Has("end", s)
  BY <1>4, <1>5, <1>6 DEF Prio!Has
<1>10. ASSUME Prio!Has("end", w) PROVE Prio!Has("end", s) \/ Prio!Has("end", r)
  <2>1. PICK i \in 1 .. Len(w) : w[i].k = "end"
    BY <1>4, <1>10 DEF Prio!Has
  <2>2. i \in 1 .. n \/ (i - n \in 1 .. Len(w) - n /\ n + (i - n) = i)
    BY <1>1
  <2>3. CASE i \in 1 .. n
    BY <2>1, <2>3, <1>4, <1>5 DEF Prio!Has
  <2>4. CASE i - n \in 1 .. Len(w) - n /\ n + (i - n) = i
    BY <2>1, <2>4, <1>4, <1>6 DEF Prio!Has
  <2> QED
    BY <2>2, <2>3, <2>4
<1> QED
  BY <1>2, <1>7, <1>8, <1>9, <1>10 DEF ReadOn

\* What the readers of HTTP/1 do with what they have read
LEMMA ReadSettles ==
    ASSUME PrioInv, Prio!Read
    PROVE  \/ settled' = settled /\ phase' \in {"reading", "crashed"}
           \/ phase' = "done" /\ \E o : settled' = Append(settled, o)
<1>1. phase = "reading"
  BY DEF Prio!Read
<1> DEFINE Goal == \/ settled' = settled /\ phase' \in {"reading", "crashed"}
                   \/ phase' = "done" /\ \E o : settled' = Append(settled, o)
<1>2. ASSUME NEW b, Prio!OnResponseComplete(b) PROVE Goal
  BY <1>2 DEF Prio!OnResponseComplete
<1>3. ASSUME Prio!OnRequestError PROVE Goal
  BY <1>3 DEF Prio!OnRequestError, Prio!Reject
<1>4. ASSUME NEW s, Prio!ConsumeChunks(s) PROVE Goal
  <2> HIDE DEF Goal
  <2>1. PICK r : CASE r.is = "read" -> UNCHANGED <<phase, sock, settled>>
                   [] r.is = "done" -> Prio!OnResponseComplete(body')
                   [] OTHER -> \/ Prio!OnRequestError
                               \/ reader_ = "head" /\ phase' = "crashed" /\ UNCHANGED <<sock, settled>>
    BY <1>4 DEF Prio!ConsumeChunks
  <2>2. CASE r.is = "read"
    BY <2>1, <2>2, <1>1 DEF Goal
  <2>3. CASE r.is = "done"
    BY <2>1, <2>3, <1>2
  <2>4. CASE r.is # "read" /\ r.is # "done"
    <3>1. Prio!OnRequestError \/ (phase' = "crashed" /\ settled' = settled)
      BY <2>1, <2>4
    <3> QED
      BY <3>1, <1>3 DEF Goal
  <2> QED
    BY <2>2, <2>3, <2>4
<1>5. ASSUME NEW s, NEW size, Prio!ConsumeLength(s, size) PROVE Goal
  BY <1>5, <1>1, <1>2 DEF Prio!ConsumeLength
<1>6. ASSUME NEW s, Prio!ConsumeHead(s) PROVE Goal
  <2> HIDE DEF Goal
  <2>1. CASE ~Prio!Has("blank", headers_stream_ \o s)
    <3>1. UNCHANGED <<phase, settled>>
      BY <1>6, <2>1 DEF Prio!ConsumeHead
    <3> QED
      BY <3>1, <1>1 DEF Goal
  <2>2. CASE Prio!Has("blank", headers_stream_ \o s)
    <3>1. \E b, n : Prio!ConsumeChunks(b) \/ Prio!ConsumeLength(b, n) \/ Prio!OnResponseComplete(b)
      BY <1>6, <2>2 DEF Prio!ConsumeHead
    <3> QED
      BY <3>1, <1>2, <1>4, <1>5
  <2> QED
    BY <2>1, <2>2
<1>7. \E s, n : Prio!ConsumeHead(s) \/ Prio!ConsumeLength(s, n) \/ Prio!ConsumeChunks(s)
  BY DEF Prio!Read
<1> HIDE DEF Goal
<1>8. Goal
  BY <1>7, <1>4, <1>5, <1>6
<1> QED
  BY <1>8 DEF Goal

\* What a sequence of at most one element becomes when one is appended.
LEMMA AppendedTo ==
    ASSUME NEW x, NEW y
    PROVE  Append(<<>>, y) = <<y>> /\ Append(<<x>>, y) = <<x, y>>
<1> DEFINE a == Append(<<x>>, y)
           b == <<x, y>>
<1>1. <<>> \in Seq({y}) /\ <<x>> \in Seq({x, y})
  OBVIOUS
<1>2. b \in Seq({x, y}) /\ Len(b) = 2 /\ b[1] = x /\ b[2] = y
  OBVIOUS
<1>3. a \in Seq({x, y}) /\ Len(a) = 2 /\ a[1] = x /\ a[2] = y
  BY <1>1
<1> HIDE DEF a, b
<1>4. \A i \in 1 .. Len(a) : a[i] = b[i]
  BY <1>2, <1>3
<1>5. a = b
  BY <1>2, <1>3, <1>4, SeqEqual
<1>6. Append(<<>>, y) = <<y>>
  BY <1>1
<1> QED
  BY <1>5, <1>6 DEF a, b

LEMMA NextPrio == PrioInv /\ [Next]_vars => PrioInv'
<1> SUFFICES ASSUME PrioInv, [Next]_vars PROVE PrioInv'
  OBVIOUS
<1> USE DEF Asking
<1>0. AnswerAssumption
  BY AnswerAssumption
<1>1. CASE UNCHANGED prio
  BY <1>1 DEF PrioInv, prio, EndLast, Prio!Has
<1>2. CASE Prio!Fetch
  BY <1>2 DEF PrioInv, Prio!Fetch, Prio!network, Prio!parsing
<1>3. CASE Prio!Connecting
  <2>1. settled = <<>> /\ headers_stream_ = <<>> /\ headers_stream_' = <<>> /\ answer' = answer
    BY <1>3 DEF PrioInv, Prio!Connecting, Prio!Resolve, Prio!Connected, Prio!Handshake, Prio!HandshakeFails,
                Prio!Unverified, Prio!network, Prio!parsing
  <2>2. \/ phase' = "done" /\ settled' = Append(settled, Rejected)
        \/ phase' \in Asking /\ settled' = settled
    BY <1>3 DEF Prio!Connecting, Prio!Resolve, Prio!Connected, Prio!Handshake, Prio!HandshakeFails,
                Prio!Unverified, Prio!Reject, Rejected
  <2> QED
    BY <2>1, <2>2 DEF PrioInv
<1>4. CASE Prio!Write
  BY <1>4 DEF PrioInv, Prio!Write, Prio!parsing
<1>5. CASE Prio!WriteFails \/ Prio!ReadFails
  <2>1. settled = <<>> /\ headers_stream_' = headers_stream_ /\ answer' = answer /\ phase' = "done"
        /\ settled' = Append(settled, Rejected)
    BY <1>5 DEF PrioInv, Prio!WriteFails, Prio!ReadFails, Prio!parsing, Prio!OnRequestError, Prio!Reject, Rejected
  <2> QED
    BY <2>1 DEF PrioInv
<1>6. CASE Prio!Read
  <2>1. settled = <<>> /\ answer' = answer
    BY <1>6 DEF PrioInv, Prio!Read
  <2> QED
    BY <2>1, <1>6, ReadSettles DEF PrioInv
<1>7. CASE Prio!Greeted
  BY <1>7 DEF PrioInv, Prio!Greeted, Prio!network, Prio!parsing
<1>8. CASE Prio!Requested
  <2>1. settled' = <<>> /\ headers_stream_' = <<>> /\ answer' = answer /\ phase' = "frames"
    BY <1>8 DEF PrioInv, Prio!Requested, Prio!parsing
  <2>2. wire' \in Texts /\ EndLast(wire')
    <3>1. answer \in Texts
      BY <1>0 DEF PrioInv, Texts
    <3> QED
      BY <1>8, <3>1, FramesAre, ResetNoEnd DEF Prio!Requested
  <2> QED
    BY <2>1, <2>2 DEF PrioInv, EndLast
<1>9. CASE Prio!Recv
  <2>1. PICK n \in 1 .. Len(wire) :
          /\ wire' = SubSeq(wire, n + 1, Len(wire))
          /\ \/ Prio!Has("end", SubSeq(wire, 1, n)) /\ phase' = phase
                /\ \E b : settled' = Append(settled, Resolved(b))
             \/ ~Prio!Has("end", SubSeq(wire, 1, n)) /\ settled' = settled /\ phase' = phase
             \/ phase' = "crashed" /\ settled' = settled
    BY <1>9 DEF Prio!Recv, Resolved
  <2>2. headers_stream_ = <<>> /\ headers_stream_' = <<>> /\ answer' = answer /\ phase = "frames"
        /\ wire \in Texts /\ EndLast(wire)
        /\ (settled = <<>> \/ ((\E b : settled = <<Resolved(b)>>) /\ ~Prio!Has("end", wire)))
    BY <1>9 DEF PrioInv, Prio!Recv
  <2>3. ReadOn(wire, SubSeq(wire, 1, n), wire')
    BY <2>1, <2>2, EndReadOnce
  <2>4. wire' \in Texts /\ EndLast(wire')
    BY <2>3 DEF Parts, ReadOn
  <2>5. CASE phase' = "crashed" /\ settled' = settled
    BY <2>2, <2>5 DEF PrioInv
  <2>6. CASE Prio!Has("end", SubSeq(wire, 1, n)) /\ phase' = phase /\ \E b : settled' = Append(settled, Resolved(b))
    <3>1. settled = <<>> /\ ~Prio!Has("end", wire')
      <4>1. Prio!Has("end", wire) /\ wire' = <<>>
        BY <2>6, <2>3 DEF ReadOn
      <4> QED
        BY <4>1, <2>2 DEF Prio!Has
    <3>2. \E b : settled' = <<Resolved(b)>>
      BY <3>1, <2>6
    <3> QED
      BY <3>1, <3>2, <2>2, <2>4, <2>6 DEF PrioInv, EndLast, Prio!Has
  <2>7. CASE settled' = settled /\ phase' = phase
    <3>1. ~Prio!Has("end", wire) => ~Prio!Has("end", wire')
      BY <2>3 DEF ReadOn
    <3> QED
      BY <3>1, <2>2, <2>4, <2>7 DEF PrioInv, EndLast, Prio!Has
  <2> QED
    BY <2>1, <2>5, <2>6, <2>7
<1>10. CASE Prio!FramesFail
  <2>1. headers_stream_ = <<>> /\ headers_stream_' = <<>> /\ answer' = answer
        /\ (settled = <<>> \/ \E b : settled = <<Resolved(b)>>)
    BY <1>10 DEF PrioInv, Prio!FramesFail, Prio!parsing
  <2>2. phase' \in {"done", "crashed"} /\ (settled' = settled \/ settled' = Append(settled, Rejected))
    BY <1>10 DEF Prio!FramesFail, Prio!OnRequestError2, Prio!OnRequestError, Prio!Reject, Rejected
  <2>3. settled' = settled \/ settled' = <<Rejected>> \/ \E b : settled' = <<Resolved(b), Rejected>>
    <3> HIDE DEF Rejected, Resolved
    <3> QED
      BY <2>1, <2>2, AppendedTo
  <2> QED
    BY <2>1, <2>2, <2>3 DEF PrioInv
<1>11. UNCHANGED prio \/ Prio!Next
  BY DEF Next, ByPrio, ByCurl, vars
<1> QED
  BY <1>1, <1>2, <1>3, <1>4, <1>5, <1>6, <1>7, <1>8, <1>9, <1>10, <1>11
     DEF Prio!Next, Prio!Http1, Prio!Http2

LEMMA PrioSettlesOnce == PrioInv => Prio!SettlesOnce
BY DEF PrioInv, Prio!SettlesOnce, Prio!Http1Answered, Prio!Outcome, Resolved, Rejected

\* Either client settles a fetch once, whatever fails and however the answer is cut: but for
\* HTTP/2 in prio, which tells the end of the connection as well.
THEOREM SettlesOnceHolds == Spec => []SettlesOnce
<1>1. PrioInv /\ Counted => SettlesOnce
  BY PrioSettlesOnce DEF Counted, Curl!SettlesOnce, SettlesOnce
<1> QED
  BY <1>1, InitPrio, NextPrio, InitCurl, InitCounted, NextCurl, NextCounted, PTL DEF Spec

-----------------------------------------------------------------------------
(* then() gets the body that was sent.  Of an answer that a reader is made  *)
(* for, what has been read and what has not make up the answer, and the body*)
(* so far with what of it has not been read is the body: however it is cut. *)

\* The chunks that follow one are chunks.
ChunksAfter(R, w) == ChunkText(w) /\ (Len(w) = 2 => Prio!Sent(w) = <<>>)

LEMMA ChunkTail ==
    ASSUME NEW R, NEW u, NEW w, Parts(R, u, w), NEW B \in SUBSET Nat, Bounds(R, B), Len(u) \in B
    PROVE  ChunksAfter(R, w)
<1>1. PICK at \in Nat : at = Len(u)
  OBVIOUS
<1>2. /\ R \in Texts /\ w \in Texts /\ Len(R) = at + Len(w) /\ Len(w) \in Nat
      /\ \A i \in 1 .. Len(w) : R[at + i] = w[i]
  BY <1>1, Joined, TextFacts DEF Parts
<1> DEFINE C == {i \in 0 .. Len(w) : at + i \in B}
<1>3. 0 \in C /\ C \subseteq 0 .. Len(w)
  BY <1>1, <1>2
<1>4. \A i \in 1 .. Len(R) : R[i].k # "junk" /\ R[i].n \in Nat
  BY <1>2, TextFacts DEF Bounds
<1>5. ASSUME NEW b \in C
      PROVE  /\ b + 2 <= Len(w)
             /\ w[b + 1].n = 0 => b + 2 = Len(w) /\ w[b + 1].k # "data" /\ w[b + 2].k # "data"
             /\ w[b + 1].n # 0 => b + 2 + w[b + 1].n \in C
  <2>1. PICK c : c = at + b /\ c \in B /\ b \in Nat
    BY <1>2
  <2>2. /\ c + 2 <= Len(R)
        /\ R[c + 1].n = 0 => c + 2 = Len(R) /\ R[c + 1].k # "data" /\ R[c + 2].k # "data"
        /\ R[c + 1].n # 0 => c + 2 + R[c + 1].n \in B
    BY <2>1 DEF Bounds
  <2>3. b + 2 <= Len(w)
    BY <2>1, <2>2, <1>2
  <2>4. b + 1 \in 1 .. Len(w) /\ b + 2 \in 1 .. Len(w) /\ at + (b + 1) = c + 1 /\ at + (b + 2) = c + 2
    BY <2>1, <2>3, <1>2
  <2>5. w[b + 1] = R[c + 1] /\ w[b + 2] = R[c + 2] /\ c + 1 \in 1 .. Len(R)
    <3>1. w[b + 1] = R[at + (b + 1)] /\ w[b + 2] = R[at + (b + 2)]
      BY <2>4, <1>2
    <3>2. c + 1 \in 1 .. Len(R)
      BY <2>1, <2>2, <1>2
    <3> QED
      BY <3>1, <3>2, <2>4
  <2>6. PICK n \in Nat : n = R[c + 1].n /\ n = w[b + 1].n
    BY <2>5, <1>4
  <2>7. n = 0 => b + 2 = Len(w) /\ w[b + 1].k # "data" /\ w[b + 2].k # "data"
    <3>1. c + 2 = Len(R) => b + 2 = Len(w)
      BY <2>1, <1>2
    <3> QED
      BY <2>2, <2>5, <2>6, <3>1
  <2>8. n # 0 => b + 2 + n \in C
    <3>1. ASSUME n # 0 PROVE b + 2 + n \in C
      <4>1. PICK m : m = c + 2 + n /\ m \in B
        BY <2>2, <2>6, <3>1
      <4>2. m \in 0 .. Len(R)
        BY <4>1 DEF Bounds
      <4>3. PICK lw \in Nat : lw = Len(w) /\ m \in 0 .. at + lw
        BY <4>2, <1>2
      <4>4. m = at + b + 2 + n /\ b \in Nat
        BY <4>1, <2>1
      <4>5. b + 2 + n \in 0 .. lw /\ at + (b + 2 + n) = m
        BY ONLY <4>3, <4>4, at \in Nat, n \in Nat
      <4> QED
        BY <4>1, <4>3, <4>5
    <3> QED
      BY <3>1
  <2> QED
    BY <2>3, <2>6, <2>7, <2>8
<1>6. \A i \in 1 .. Len(w) : w[i].k # "junk"
  <2>1. \A i \in 1 .. Len(w) : at + i \in 1 .. Len(R)
    BY <1>2
  <2> QED
    BY <2>1, <1>2, <1>4
<1>7. C \in SUBSET Nat
  BY <1>2
<1>8. ASSUME Len(w) = 2 PROVE Prio!Sent(w) = <<>>
  <2>1. w[0 + 1].n = 0
    <3>1. w[0 + 1].n # 0 => 0 + 2 + w[0 + 1].n \in 0 .. Len(w)
      BY <1>3, <1>5
    <3>2. w[0 + 1].n \in Nat
      <4>1. 0 + 1 \in 1 .. Len(w)
        BY <1>8
      <4> QED
        BY <4>1, <1>2, TextFacts
    <3>3. PICK n \in Nat : n = w[0 + 1].n
      BY <3>2
    <3> QED
      BY <3>1, <3>3, <1>8
  <2>2. w[0 + 1].k # "data" /\ w[0 + 2].k # "data"
    BY <2>1, <1>3, <1>5
  <2>3. \A i \in 1 .. Len(w) : w[i].k # "data"
    <3>1. \A i \in 1 .. Len(w) : i = 1 \/ i = 2
      BY <1>8
    <3>2. 0 + 1 = 1 /\ 0 + 2 = 2
      OBVIOUS
    <3> QED
      BY <2>2, <3>1, <3>2
  <2> QED
    BY <2>3, <1>2, KindAll DEF Prio!Sent
<1> HIDE DEF C
<1>9. Bounds(w, C)
  BY <1>3, <1>5, <1>6 DEF Bounds
<1> QED
  BY <1>7, <1>8, <1>9 DEF ChunksAfter, ChunkText

\* The data of what is put together.
LEMMA SentConcat ==
    ASSUME NEW u \in Texts, NEW v \in Texts
    PROVE  /\ Prio!Sent(u) \in Texts /\ u \o v \in Texts
           /\ Prio!Sent(u \o v) = Prio!Sent(u) \o Prio!Sent(v)
<1>1. Prio!IsKind("data", u \o v) = Prio!IsKind("data", u) \o Prio!IsKind("data", v)
  BY KindConcat
<1>2. u \o v \in Texts
  BY Joined
<1> QED
  BY <1>1, <1>2, KindIsText DEF Prio!Sent

\* fetch() may settle with b, or fail, or go on.
Tells(b) == settled' = settled \/ settled' = Append(settled, Rejected) \/ settled' = Append(settled, Resolved(b))

\* What the chunked reader makes of s, when r is still to come.
ChunkedOn(s, r) ==
    /\ body_stream_' \in Texts /\ body' \in Texts
    /\ ChunkText(body_stream_' \o r)
    /\ body' \o Prio!Sent(body_stream_' \o r) = body \o Prio!Sent(s \o r)
    /\ reader_' = "chunked"
    /\ Tells(body \o Prio!Sent(s \o r))

LEMMA ConsumeChunksExact ==
    ASSUME NEW s \in Texts, NEW r \in Texts, body \in Texts, ChunkText(s \o r), Prio!ConsumeChunks(s)
    PROVE  ChunkedOn(s, r)
<1>1. PICK R : R = s \o r
  OBVIOUS
<1>2. R \in Texts /\ Parts(R, s, r) /\ Len(s) \in Nat /\ Len(r) \in Nat
  BY <1>1, Joined, TextFacts
<1>3. PICK B \in SUBSET Nat : Bounds(R, B)
  BY <1>1 DEF ChunkText
<1>4. Len(s) <= Len(R) /\ \A i \in 1 .. Len(s) : s[i] = R[i]
  BY <1>2 DEF Parts
<1>5. ~Prio!Has("junk", s)
  <2>1. DOMAIN s = 1 .. Len(s)
    BY DEF Texts
  <2>2. \A i \in 1 .. Len(s) : i \in 1 .. Len(R)
    BY <1>2, <1>4 DEF Parts
  <2> QED
    BY <2>1, <2>2, <1>3, <1>4 DEF Prio!Has, Bounds
<1>6. PICK c \in Prio!ChunkResults(s) :
        /\ body_stream_' = SubSeq(s, c.at + 1, Len(s))
        /\ body' = body \o Prio!Sent(SubSeq(s, 1, c.at))
        /\ reader_' = "chunked"
        /\ CASE c.is = "read" -> UNCHANGED <<phase, sock, settled>>
             [] c.is = "done" -> Prio!OnResponseComplete(body')
             [] OTHER -> \/ Prio!OnRequestError
                         \/ reader_ = "head" /\ phase' = "crashed" /\ UNCHANGED <<sock, settled>>
  BY DEF Prio!ConsumeChunks
<1>7. c = Prio!Chunks(s)
  BY <1>5 DEF Prio!ChunkResults
<1>8. ChunksStop(c, s, R, B)
  BY <1>2, <1>3, <1>4, <1>7, ChunksAre
<1>9. PICK at : at = c.at /\ at \in B /\ at \in 0 .. Len(s) /\ at \in Nat
  BY <1>2, <1>8 DEF ChunksStop
<1>10. PICK u, v : u = SubSeq(s, 1, at) /\ v = SubSeq(s, at + 1, Len(s))
  OBVIOUS
<1>11. Parts(s, u, v) /\ Len(u) = at
  BY <1>9, <1>10, CutInTwo
<1>12. u \in Texts /\ v \in Texts /\ s = u \o v
  BY <1>11 DEF Parts
<1>13. PICK w : w = v \o r
  OBVIOUS
<1>14. w \in Texts /\ R = u \o w
  <2>1. u \in Seq(Prio!Tokens) /\ v \in Seq(Prio!Tokens) /\ r \in Seq(Prio!Tokens)
    BY <1>12 DEF Texts
  <2>2. (u \o v) \o r = u \o (v \o r)
    BY ONLY <2>1, ConcatAssociative
  <2> QED
    BY <2>2, <1>1, <1>12, <1>13, Joined
<1>15. Parts(R, u, w)
  BY <1>12, <1>14, Joined
<1>16. ChunksAfter(R, w)
  BY <1>3, <1>9, <1>11, <1>15, ChunkTail
<1>17. Prio!Sent(R) = Prio!Sent(u) \o Prio!Sent(w) /\ Prio!Sent(u) \in Texts /\ Prio!Sent(w) \in Texts
  BY <1>12, <1>14, SentConcat, KindIsText DEF Prio!Sent
<1>18. body_stream_' = v /\ body' = body \o Prio!Sent(u)
  BY <1>6, <1>9, <1>10
<1>19. PICK su, sw : su = Prio!Sent(u) /\ sw = Prio!Sent(w)
  OBVIOUS
<1>20. body' \o sw = body \o (su \o sw) /\ body' \in Texts
  <2>1. body \in Seq(Prio!Tokens) /\ su \in Seq(Prio!Tokens) /\ sw \in Seq(Prio!Tokens)
    BY <1>17, <1>19 DEF Texts
  <2>2. (body \o su) \o sw = body \o (su \o sw)
    BY ONLY <2>1, ConcatAssociative
  <2>3. body \o su \in Texts
    BY <1>17, <1>19, Joined
  <2> QED
    BY <2>2, <2>3, <1>18, <1>19
<1>21. Tells(body \o Prio!Sent(R))
  <2>1. CASE c.is = "read"
    BY <2>1, <1>6 DEF Tells
  <2>2. CASE c.is = "done"
    <3>1. at + 2 = Len(R)
      BY <2>2, <1>8, <1>9 DEF ChunksStop
    <3>2. Len(w) = 2
      <4>1. Len(R) = at + Len(w) /\ Len(w) \in Nat
        BY <1>11, <1>14, <1>15, TextFacts DEF Parts
      <4>2. PICK lw \in Nat : lw = Len(w) /\ at + 2 = at + lw
        BY <3>1, <4>1
      <4> QED
        BY ONLY <4>2, <1>9
    <3>3. sw = <<>>
      BY <3>2, <1>16, <1>19 DEF ChunksAfter
    <3>4. su \o sw = su
      BY <3>3, <1>17, <1>19, ConcatEmptySeq DEF Texts
    <3>5. body' = body \o Prio!Sent(R)
      BY <3>4, <1>17, <1>18, <1>19
    <3>6. settled' = Append(settled, Resolved(body'))
      BY <2>2, <1>6 DEF Prio!OnResponseComplete, Resolved
    <3> QED
      BY <3>5, <3>6 DEF Tells
  <2>3. CASE c.is # "read" /\ c.is # "done"
    <3>1. Prio!OnRequestError \/ settled' = settled
      BY <2>3, <1>6
    <3> QED
      BY <3>1 DEF Tells, Prio!OnRequestError, Prio!Reject, Rejected
  <2> QED
    BY <2>1, <2>2, <2>3
<1> QED
  BY <1>1, <1>6, <1>12, <1>13, <1>16, <1>17, <1>18, <1>19, <1>20, <1>21 DEF ChunkedOn, ChunksAfter

\* What the reader of a length makes of s, when r is still to come.
LengthOn(t, r) ==
    /\ body' \in Texts /\ body' \o r = t
    /\ reader_' = "length"
    /\ Tells(t)

LEMMA ConsumeLengthExact ==
    ASSUME NEW s \in Texts, NEW r \in Texts, NEW t \in Texts, body \in Texts, (body \o s) \o r = t,
           NEW size, size = Len(t), Prio!ConsumeLength(s, size)
    PROVE  LengthOn(t, r)
<1>1. PICK b : b = body \o s /\ b \in Texts
  BY Joined
<1>2. Parts(t, b, r) /\ Len(b) \in Nat /\ Len(r) \in Nat /\ Len(t) = Len(b) + Len(r)
  BY <1>1, Joined, TextFacts DEF Parts
<1>3. Prio!Min({size, Len(b)}) = Len(b)
  <2>1. Len(b) <= size /\ size \in Nat
    BY <1>2
  <2>2. \E x \in {size, Len(b)} : \A y \in {size, Len(b)} : x <= y
    BY <2>1, <1>2
  <2>3. PICK m : m = Prio!Min({size, Len(b)})
    OBVIOUS
  <2>4. m \in {size, Len(b)} /\ \A y \in {size, Len(b)} : m <= y
    BY <2>2, <2>3 DEF Prio!Min
  <2> QED
    BY <2>1, <2>3, <2>4, <1>2
<1>4. body' = b
  <2>1. body' = SubSeq(b, 1, Prio!Min({size, Len(b)}))
    BY <1>1 DEF Prio!ConsumeLength
  <2>2. SubSeq(b, 1, Len(b)) = b
    BY <1>1, SubSeqFull DEF Texts
  <2> QED
    BY <2>1, <2>2, <1>3
<1>5. Tells(t)
  <2>1. CASE Len(body') >= size
    <3>1. Len(r) = 0
      BY <2>1, <1>2, <1>4
    <3>2. r = <<>>
      BY <3>1, EmptySeq DEF Texts
    <3>3. b = t
      BY <3>2, <1>1, ConcatEmptySeq DEF Texts
    <3>4. settled' = Append(settled, Resolved(body'))
      BY <2>1 DEF Prio!ConsumeLength, Prio!OnResponseComplete, Resolved
    <3> QED
      BY <3>3, <3>4, <1>4 DEF Tells
  <2>2. CASE ~(Len(body') >= size)
    BY <2>2 DEF Prio!ConsumeLength, Tells
  <2> QED
    BY <2>1, <2>2
<1> QED
  BY <1>1, <1>4, <1>5 DEF LengthOn, Prio!ConsumeLength

LEMMA RestPart ==
    ASSUME NEW a, NEW u, NEW v, Parts(a, u, v), 2 <= Len(u)
    PROVE  Rest(u) \in Texts /\ Rest(a) = Rest(u) \o v
<1>1. u \in Texts /\ v \in Texts /\ a = u \o v /\ Len(u) \in Nat
  BY TextFacts DEF Parts
<1>2. 2 \in 0 .. Len(u) /\ 2 + 1 = 3
  BY <1>1
<1>3. PICK h, t : h = SubSeq(u, 1, 2) /\ t = SubSeq(u, 2 + 1, Len(u))
  OBVIOUS
<1>4. Parts(u, h, t) /\ Len(h) = 2
  BY <1>1, <1>2, <1>3, CutInTwo
<1>5. Rest(u) = t
  BY <1>2, <1>3 DEF Rest
<1>6. h \in Texts /\ t \in Texts /\ u = h \o t
  BY <1>4 DEF Parts
<1>7. PICK w : w = t \o v /\ w \in Texts
  BY <1>1, <1>6, Joined
<1>8. a = h \o w
  <2>1. h \in Seq(Prio!Tokens) /\ t \in Seq(Prio!Tokens) /\ v \in Seq(Prio!Tokens)
    BY <1>1, <1>6 DEF Texts
  <2>2. (h \o t) \o v = h \o (t \o v)
    BY ONLY <2>1, ConcatAssociative
  <2> QED
    BY <2>2, <1>1, <1>6, <1>7
<1>9. Parts(a, h, w)
  BY <1>6, <1>7, <1>8, Joined
<1>10. SubSeq(a, Len(h) + 1, Len(a)) = w
  BY <1>9, RestOf
<1>11. Rest(a) = w
  BY <1>2, <1>4, <1>10 DEF Rest
<1> QED
  BY <1>5, <1>6, <1>7, <1>11

\* What the reader of the head makes of a read, when r is still to come.
HeadGoesOn(r) == settled' = settled /\ reader_' = reader_ /\ body' = body /\ headers_stream_' \o r = answer
HeadGarbled == garbled' /\ (reader_' # "head" \/ phase' = "done")
HeadChunked(r) ==
    /\ body_stream_' \in Texts /\ body' \in Texts
    /\ ChunkText(body_stream_' \o r)
    /\ body' \o Prio!Sent(body_stream_' \o r) = Prio!Sent(answer)
    /\ reader_' = "chunked"
    /\ Tells(Prio!Sent(answer))
HeadLength(r) == size_' = Len(Prio!Sent(answer)) /\ LengthOn(Prio!Sent(answer), r)
HeadOpen ==
    /\ phase' = "done" /\ Prio!HasOpenEnd
    /\ \E b : settled' = Append(settled, Resolved(b)) /\ Prio!IsPrefix(b, Prio!Sent(answer))

HeadOn(r) ==
    /\ headers_stream_' \in Texts /\ headers_stream_' # <<>>
    /\ HeadGoesOn(r) \/ HeadGarbled \/ HeadChunked(r) \/ HeadLength(r) \/ HeadOpen

\* The empty line after the head is the first one.
LEMMA FirstBlank ==
    ASSUME NEW text \in Texts, 2 <= Len(text), text[1].k \in Heads, text[2] = Prio!Blank
    PROVE  2 = CHOOSE i \in DOMAIN text : text[i] = Prio!Blank /\ \A j \in 1 .. i - 1 : text[j] # Prio!Blank
<1>1. Len(text) \in Nat /\ DOMAIN text = 1 .. Len(text)
  BY DEF Texts
<1>2. Prio!Blank.k = "blank"
  BY TokenFacts DEF Prio!Blank
<1>3. text[1] # Prio!Blank
  BY <1>2 DEF Heads
<1> DEFINE First(i) == text[i] = Prio!Blank /\ \A j \in 1 .. i - 1 : text[j] # Prio!Blank
<1>4. 2 \in DOMAIN text /\ First(2)
  <2>1. \A j \in 1 .. 2 - 1 : j = 1
    OBVIOUS
  <2> QED
    BY <2>1, <1>1, <1>3
<1>5. ASSUME NEW i \in DOMAIN text, First(i) PROVE i = 2
  <2>1. i # 1
    BY <1>3, <1>5
  <2>2. CASE i > 2
    <3>1. 2 \in 1 .. i - 1
      BY <1>1, <2>2
    <3> QED
      BY <3>1, <1>4, <1>5
  <2> QED
    BY <2>1, <2>2, <1>1
<1>6. PICK e : e = CHOOSE i \in DOMAIN text : First(i)
  OBVIOUS
<1> HIDE DEF First
<1>7. e \in DOMAIN text /\ First(e)
  BY <1>4, <1>6
<1>8. e = 2
  BY <1>5, <1>7
<1> QED
  BY <1>6, <1>8 DEF First

LEMMA ConsumeHeadExact ==
    ASSUME Answered(answer), headers_stream_ \in Texts, body = <<>>,
           NEW s \in Texts, NEW r \in Texts, s # <<>>, (headers_stream_ \o s) \o r = answer,
           Prio!ConsumeHead(s)
    PROVE  HeadOn(r)
<1>1. PICK w : w = headers_stream_ \o s
  OBVIOUS
<1>2. w \in Texts /\ Parts(w, headers_stream_, s) /\ Parts(answer, w, r)
  BY <1>1, Joined
<1>3. w # <<>> /\ headers_stream_' = w
  <2>1. w # <<>>
    BY <1>1, ConcatEqualIffEmpty DEF Texts
  <2> QED
    BY <2>1, <1>1 DEF Prio!ConsumeHead
<1>4. CASE ~Prio!Has("blank", w)
  <2>1. UNCHANGED <<phase, sock, settled, garbled, reader_, size_, body_stream_, body>>
    BY <1>1, <1>4 DEF Prio!ConsumeHead
  <2>2. HeadGoesOn(r)
    BY <2>1, <1>1, <1>3 DEF HeadGoesOn
  <2> QED
    BY <2>2, <1>2, <1>3 DEF HeadOn
<1>5. CASE Prio!Has("blank", w)
  <2>1. Len(w) \in Nat /\ DOMAIN w = 1 .. Len(w) /\ Len(answer) = Len(w) + Len(r) /\ Len(r) \in Nat
        /\ \A i \in 1 .. Len(w) : answer[i] = w[i]
    BY <1>2, TextFacts DEF Parts, Texts
  <2>2. answer[1].k \in Heads /\ answer[2] = Prio!Blank
    BY DEF Answered
  <2>3. 2 <= Len(w)
    <3>1. PICK i \in 1 .. Len(w) : w[i].k = "blank"
      BY <1>5, <2>1 DEF Prio!Has
    <3>2. i # 1
      BY <3>1, <2>1, <2>2 DEF Heads
    <3> QED
      BY <3>1, <3>2, <2>1
  <2>4. w[1] = answer[1] /\ w[2] = Prio!Blank
    <3>1. 1 \in 1 .. Len(w) /\ 2 \in 1 .. Len(w)
      BY <2>1, <2>3
    <3> QED
      BY <3>1, <2>1, <2>2
  <2>5. 2 = CHOOSE i \in DOMAIN w : w[i] = Prio!Blank /\ \A j \in 1 .. i - 1 : w[j] # Prio!Blank
    BY <1>2, <2>2, <2>3, <2>4, FirstBlank
  <2>6. PICK rest : rest = Rest(w)
    OBVIOUS
  <2>7. rest \in Texts /\ Rest(answer) = rest \o r
    BY <1>2, <2>3, <2>6, RestPart
  <2>8. PICK apart : apart = (headers_stream_ # <<>> /\ rest # <<>>)
    OBVIOUS
  <2>9. PICK b : b = IF apart THEN [i \in DOMAIN rest |-> Prio!Junk] ELSE rest
    OBVIOUS
  <2>10. /\ garbled' = apart
         /\ size_' = w[1].n
         /\ IF w[1].k = "chunked" THEN Prio!ConsumeChunks(b)
            ELSE IF w[1].n > 0 THEN Prio!ConsumeLength(b, w[1].n)
            ELSE Prio!OnResponseComplete(b) /\ UNCHANGED <<reader_, body_stream_, body>>
    <3>1. rest = SubSeq(w, 2 + 1, Len(w))
      BY <2>6 DEF Rest
    <3> QED
      BY <1>1, <1>5, <2>5, <2>8, <2>9, <3>1 DEF Prio!ConsumeHead
  <2>11. CASE apart
    <3>1. garbled' /\ (reader_' # "head" \/ phase' = "done")
      BY <2>10, <2>11 DEF Prio!ConsumeChunks, Prio!ConsumeLength, Prio!OnResponseComplete
    <3>2. HeadGarbled
      BY <3>1 DEF HeadGarbled
    <3> QED
      BY <3>2, <1>2, <1>3 DEF HeadOn
  <2>12. CASE ~apart
    <3>1. b = rest
      BY <2>9, <2>12
    <3>2. <<>> \o rest = rest /\ body \in Texts
      BY <2>7, ConcatEmptySeq DEF Texts
    <3>3. PICK t : t = Prio!Sent(answer)
      OBVIOUS
    <3>4. \/ w[1].k = "chunked" /\ ChunkText(rest \o r) /\ t = Prio!Sent(rest \o r)
          \/ w[1].k = "head" /\ w[1].n > 0 /\ t = rest \o r /\ Len(t) = w[1].n
          \/ w[1] = Prio!Token("head", 0) /\ t = rest \o r
      BY <2>4, <2>7, <3>3 DEF Answered
    <3>5. CASE w[1].k = "chunked" /\ ChunkText(rest \o r) /\ t = Prio!Sent(rest \o r)
      <4>1. ChunkedOn(rest, r)
        BY <2>7, <2>10, <3>1, <3>2, <3>5, ConsumeChunksExact
      <4>2. <<>> \o t = t
        <5>1. t \in Texts
          BY <2>7, <3>5, SentConcat, Joined, KindIsText DEF Prio!Sent
        <5> QED
          BY <5>1, ConcatEmptySeq DEF Texts
      <4>3. HeadChunked(r)
        BY <4>1, <4>2, <3>3, <3>5 DEF HeadChunked, ChunkedOn
      <4> QED
        BY <4>3, <1>2, <1>3 DEF HeadOn
    <3>6. CASE w[1].k = "head" /\ w[1].n > 0 /\ t = rest \o r /\ Len(t) = w[1].n
      <4>1. t \in Texts /\ (body \o rest) \o r = t
        BY <2>7, <3>2, <3>6, Joined
      <4>2. PICK size : size = w[1].n
        OBVIOUS
      <4>3. Prio!ConsumeLength(rest, size) /\ size = Len(t)
        BY <2>10, <3>1, <3>6, <4>2
      <4>4. LengthOn(t, r)
        BY <2>7, <3>2, <4>1, <4>3, ConsumeLengthExact
      <4>5. HeadLength(r)
        BY <4>2, <4>3, <4>4, <2>10, <3>3 DEF HeadLength
      <4> QED
        BY <4>5, <1>2, <1>3 DEF HeadOn
    <3>7. CASE w[1] = Prio!Token("head", 0) /\ t = rest \o r
      <4>1. w[1].k = "head" /\ ~(w[1].n > 0)
        <5>1. Prio!Token("head", 0).k = "head" /\ Prio!Token("head", 0).n = 0
          BY TokenFacts
        <5>2. ~(0 > 0)
          OBVIOUS
        <5> QED
          BY <3>7, <5>1, <5>2
      <4>2. phase' = "done" /\ settled' = Append(settled, Resolved(rest))
        BY <2>10, <3>1, <4>1 DEF Prio!OnResponseComplete, Resolved
      <4>3. Prio!IsPrefix(rest, t)
        <5>1. Parts(t, rest, r)
          BY <2>7, <3>7, Joined
        <5>2. Len(rest) \in Nat /\ Len(r) \in Nat /\ Len(t) = Len(rest) + Len(r)
          BY <2>7, <5>1, TextFacts DEF Parts
        <5>3. t \in Texts /\ Len(rest) \in 0 .. Len(t)
          BY <2>7, <3>7, <5>2, Joined
        <5>4. PICK p, q : p = SubSeq(t, 1, Len(rest)) /\ q = SubSeq(t, Len(rest) + 1, Len(t))
          OBVIOUS
        <5>5. Parts(t, p, q) /\ Len(p) = Len(rest)
          BY <5>3, <5>4, CutInTwo
        <5>6. p = rest
          <6>1. p \in Seq(Prio!Tokens) /\ rest \in Seq(Prio!Tokens)
            BY <2>7, <5>5 DEF Parts, Texts
          <6>2. \A i \in 1 .. Len(p) : p[i] = rest[i]
            BY <5>1, <5>5 DEF Parts
          <6> QED
            BY <6>1, <6>2, <5>5, SeqEqual
        <5>7. SubSeq(rest, 1, Len(rest)) = rest
          BY <2>7, SubSeqFull DEF Texts
        <5> QED
          BY <5>2, <5>4, <5>6, <5>7 DEF Prio!IsPrefix
      <4>4. HeadOpen
        BY <2>4, <3>3, <3>7, <4>2, <4>3 DEF HeadOpen, Prio!HasOpenEnd
      <4> QED
        BY <4>4, <1>2, <1>3 DEF HeadOn
    <3> QED
      BY <3>4, <3>5, <3>6, <3>7
  <2> QED
    BY <2>8, <2>11, <2>12
<1> QED
  BY <1>4, <1>5

\* What a conversation of HTTP/1 has read, and what is still to come, make up the answer.
InStep ==
    \/ reader_ = "head" /\ body = <<>> /\ headers_stream_ \o wire = answer
    \/ /\ reader_ = "length" /\ size_ = Len(Prio!Sent(answer))
       /\ body \in Texts /\ body \o wire = Prio!Sent(answer)
    \/ /\ reader_ = "chunked" /\ body_stream_ \in Texts /\ ChunkText(body_stream_ \o wire)
       /\ body \in Texts /\ body \o Prio!Sent(body_stream_ \o wire) = Prio!Sent(answer)

Reading ==
    /\ wire \in Texts /\ headers_stream_ \in Texts
    /\ reader_ # "head" => headers_stream_ # <<>>
    /\ Prio!HasInterim \/ (reader_ # "head" /\ garbled) \/ InStep

BodyInv ==
    /\ phase \in Asking => body = <<>> /\ reader_ = "head"
    /\ phase = "reading" => Reading
    /\ phase = "frames" => body \in Texts /\ (Prio!Has("end", wire) => body \o Prio!Sent(wire) = Prio!Sent(answer))
    /\ Prio!BodyExact

LEMMA InitBody == Init => BodyInv
BY DEF Init, Prio!Init, BodyInv, Asking, Prio!BodyExact

LEMMA AnswerIs ==
    ASSUME PrioInv
    PROVE  answer \in Texts /\ (~Prio!HasInterim => Answered(answer))
<1>1. answer \in Texts /\ (~Prio!HasInterim => Prio!Plain(answer))
  BY AnswerAssumption, PlainAssumption DEF PrioInv, Texts, Prio!HasInterim
<1> QED
  BY <1>1, PlainIs

\* When fetch() may be told that it has got b
Due(b) ==
    \/ garbled
    \/ Prio!Http1Answered /\ Prio!HasInterim
    \/ b = Prio!Sent(answer)
    \/ Prio!Http1Answered /\ Prio!HasOpenEnd /\ Prio!IsPrefix(b, Prio!Sent(answer))

LEMMA ExactWhenDue ==
    ASSUME settled' = <<>> \/ settled' = <<Rejected>> \/ \E b : settled' = <<Resolved(b)>> /\ Due(b)'
    PROVE  Prio!BodyExact'
<1>1. Rejected.what = "rejected" /\ \A b : Resolved(b).what = "resolved" /\ Resolved(b).body = b
  BY DEF Rejected, Resolved, Prio!Outcome
<1>2. CASE settled' = <<>>
  BY <1>2 DEF Prio!BodyExact
<1>3. CASE settled' = <<Rejected>>
  <2>1. \A i \in DOMAIN settled' : settled'[i] = Rejected
    BY <1>3
  <2> QED
    BY <2>1, <1>1 DEF Prio!BodyExact
<1>4. ASSUME NEW b, settled' = <<Resolved(b)>>, Due(b)' PROVE Prio!BodyExact'
  <2>1. \A i \in DOMAIN settled' : settled'[i] = Resolved(b)
    BY <1>4
  <2> QED
    BY <2>1, <1>1, <1>4 DEF Prio!BodyExact, Due
<1> QED
  BY <1>2, <1>3, <1>4

\* ... and afterwards it may be told that something failed.
LEMMA ExactWhenFailed ==
    ASSUME Prio!BodyExact, PrioInv, settled' = settled \/ settled' = Append(settled, Rejected),
           answer' = answer, headers_stream_' = headers_stream_, garbled' = garbled
    PROVE  Prio!BodyExact'
<1>1. CASE settled' = settled
  BY <1>1 DEF Prio!BodyExact, Prio!Http1Answered, Prio!HasInterim, Prio!HasOpenEnd
<1>2. CASE settled' = Append(settled, Rejected)
  <2>1. \A i \in DOMAIN settled' : settled'[i] = Rejected \/ (i \in DOMAIN settled /\ settled'[i] = settled[i])
    <3> HIDE DEF Rejected, Resolved
    <3>1. CASE settled = <<>>
      BY <3>1, <1>2
    <3>2. ASSUME NEW o, settled = <<o>>
          PROVE  \A i \in DOMAIN settled' : settled'[i] = Rejected \/ (i \in DOMAIN settled /\ settled'[i] = settled[i])
      BY <3>2, <1>2
    <3>3. ASSUME NEW b, settled = <<Resolved(b), Rejected>>
          PROVE  \A i \in DOMAIN settled' : settled'[i] = Rejected \/ (i \in DOMAIN settled /\ settled'[i] = settled[i])
      BY <3>3, <1>2
    <3> QED
      BY <3>1, <3>2, <3>3 DEF PrioInv
  <2>2. Rejected.what = "rejected"
    BY DEF Rejected, Prio!Outcome
  <2> QED
    BY <2>1, <2>2 DEF Prio!BodyExact, Prio!Http1Answered, Prio!HasInterim, Prio!HasOpenEnd
<1> QED
  BY <1>1, <1>2

LEMMA ReadKeepsBody ==
    ASSUME PrioInv, BodyInv, Prio!Read
    PROVE  BodyInv'
<1>1. /\ phase = "reading" /\ settled = <<>> /\ answer' = answer
      /\ wire \in Texts /\ headers_stream_ \in Texts /\ (reader_ # "head" => headers_stream_ # <<>>)
      /\ Prio!HasInterim \/ (reader_ # "head" /\ garbled) \/ InStep
  BY DEF PrioInv, BodyInv, Reading, Prio!Read
<1>2. PICK n \in 1 .. Len(wire) :
        LET s == SubSeq(wire, 1, n)
        IN  /\ wire' = SubSeq(wire, n + 1, Len(wire))
            /\ CASE reader_ = "head" -> Prio!ConsumeHead(s)
                 [] reader_ = "length" -> Prio!ConsumeLength(s, size_) /\ UNCHANGED <<headers_stream_, garbled, size_>>
                 [] OTHER -> Prio!ConsumeChunks(body_stream_ \o s) /\ UNCHANGED <<headers_stream_, garbled, size_>>
  BY DEF Prio!Read
<1>3. PICK s : s = SubSeq(wire, 1, n)
  OBVIOUS
<1>4. PICK r : r = wire'
  OBVIOUS
<1>5. s \in Texts /\ r \in Texts /\ wire = s \o r /\ s # <<>>
  <2>1. Len(wire) \in Nat /\ n \in 0 .. Len(wire) /\ n # 0
    BY <1>1, TextFacts
  <2>2. Parts(wire, s, r) /\ Len(s) = n
    BY <2>1, <1>1, <1>2, <1>3, <1>4, CutInTwo
  <2>3. Len(<<>>) = 0
    OBVIOUS
  <2> QED
    BY <2>1, <2>2, <2>3 DEF Parts
<1>6. /\ reader_ = "head" => Prio!ConsumeHead(s)
      /\ reader_ = "length" => Prio!ConsumeLength(s, size_) /\ UNCHANGED <<headers_stream_, garbled, size_>>
      /\ reader_ # "head" /\ reader_ # "length" =>
           Prio!ConsumeChunks(body_stream_ \o s) /\ UNCHANGED <<headers_stream_, garbled, size_>>
  BY <1>2, <1>3
<1>7. headers_stream_' \in Texts /\ headers_stream_' # <<>>
  <2>1. CASE reader_ = "head"
    <3>1. headers_stream_' = headers_stream_ \o s
      BY <2>1, <1>6 DEF Prio!ConsumeHead
    <3>2. headers_stream_ \o s # <<>> /\ headers_stream_ \o s \in Texts
      BY <1>1, <1>5, Joined, ConcatEqualIffEmpty DEF Texts
    <3> QED
      BY <3>1, <3>2
  <2>2. CASE reader_ # "head"
    BY <2>2, <1>1, <1>6
  <2> QED
    BY <2>1, <2>2
<1>8. phase' \in {"reading", "crashed", "done"}
  BY ReadSettles
<1>9. ASSUME Prio!HasInterim' \/ (garbled' /\ (reader_' # "head" \/ phase' = "done"))
             \/ (InStep' /\ Prio!BodyExact') \/ (phase' = "done" /\ Prio!BodyExact')
      PROVE  BodyInv'
  <2>1. Prio!BodyExact'
    BY <1>7, <1>9 DEF Prio!BodyExact, Prio!Http1Answered
  <2>2. phase' = "reading" => Reading'
    BY <1>4, <1>5, <1>7, <1>9 DEF Reading
  <2> QED
    BY <2>1, <2>2, <1>8 DEF BodyInv, Asking
<1>10. CASE Prio!HasInterim
  BY <1>1, <1>9, <1>10 DEF Prio!HasInterim
<1>11. CASE reader_ # "head" /\ garbled
  <2>1. garbled' /\ reader_' # "head"
    BY <1>6, <1>11 DEF Prio!ConsumeLength, Prio!ConsumeChunks
  <2> QED
    BY <2>1, <1>9
<1>12. ASSUME Tells(Prio!Sent(answer)) PROVE Prio!BodyExact'
  <2>1. settled' = <<>> \/ settled' = <<Rejected>> \/ settled' = <<Resolved(Prio!Sent(answer))>>
    <3> HIDE DEF Rejected, Resolved
    <3> QED
      BY <1>1, <1>12, AppendedTo DEF Tells
  <2>2. PICK b : b = Prio!Sent(answer)
    OBVIOUS
  <2>3. Due(b)'
    BY <2>2, <1>1 DEF Due
  <2> QED
    BY <2>1, <2>2, <2>3, ExactWhenDue
<1>13. CASE ~Prio!HasInterim /\ InStep /\ reader_ = "head"
  <2>1. Answered(answer) /\ body = <<>> /\ headers_stream_ \o wire = answer
    BY <1>13, AnswerIs DEF InStep
  <2>2. (headers_stream_ \o s) \o r = answer
    <3>1. headers_stream_ \in Seq(Prio!Tokens) /\ s \in Seq(Prio!Tokens) /\ r \in Seq(Prio!Tokens)
      BY <1>1, <1>5 DEF Texts
    <3>2. (headers_stream_ \o s) \o r = headers_stream_ \o (s \o r)
      BY ONLY <3>1, ConcatAssociative
    <3> QED
      BY <2>1, <3>2, <1>5
  <2>3. HeadOn(r)
    BY <2>1, <2>2, <1>1, <1>5, <1>6, <1>13, ConsumeHeadExact
  <2>4. CASE HeadGoesOn(r)
    <3>1. InStep'
      BY <2>1, <2>4, <1>1, <1>4, <1>13 DEF InStep, HeadGoesOn
    <3>2. Prio!BodyExact'
      BY <2>4, <1>1, ExactWhenDue DEF HeadGoesOn
    <3> QED
      BY <3>1, <3>2, <1>9
  <2>5. CASE HeadGarbled
    BY <2>5, <1>9 DEF HeadGarbled
  <2>6. CASE HeadChunked(r)
    <3>1. InStep'
      BY <2>6, <1>1, <1>4 DEF InStep, HeadChunked
    <3> QED
      BY <2>6, <3>1, <1>9, <1>12 DEF HeadChunked
  <2>7. CASE HeadLength(r)
    <3>1. InStep'
      BY <2>7, <1>1, <1>4 DEF InStep, HeadLength, LengthOn
    <3> QED
      BY <2>7, <3>1, <1>9, <1>12 DEF HeadLength, LengthOn
  <2>8. CASE HeadOpen
    <3>1. PICK b : settled' = Append(settled, Resolved(b)) /\ Prio!IsPrefix(b, Prio!Sent(answer))
      BY <2>8 DEF HeadOpen
    <3>2. settled' = <<Resolved(b)>>
      <4> HIDE DEF Resolved
      <4> QED
        BY <3>1, <1>1, AppendedTo
    <3>3. Due(b)'
      BY <2>8, <3>1, <1>1, <1>7 DEF Due, HeadOpen, Prio!Http1Answered, Prio!HasOpenEnd
    <3>4. Prio!BodyExact'
      BY <3>2, <3>3, ExactWhenDue
    <3> QED
      BY <2>8, <3>4, <1>9 DEF HeadOpen
  <2> QED
    BY <2>3, <2>4, <2>5, <2>6, <2>7, <2>8 DEF HeadOn
<1>14. CASE InStep /\ reader_ = "length"
  <2>1. PICK t : t = Prio!Sent(answer) /\ size_ = Len(t) /\ body \in Texts /\ body \o wire = t
    BY <1>14 DEF InStep
  <2>2. (body \o s) \o r = t
    <3>1. body \in Seq(Prio!Tokens) /\ s \in Seq(Prio!Tokens) /\ r \in Seq(Prio!Tokens)
      BY <2>1, <1>5 DEF Texts
    <3>2. (body \o s) \o r = body \o (s \o r)
      BY ONLY <3>1, ConcatAssociative
    <3> QED
      BY <2>1, <3>2, <1>5
  <2>3. t \in Texts
    BY <2>1, <1>1, Joined
  <2>4. LengthOn(t, r)
    BY <2>1, <2>2, <2>3, <1>5, <1>6, <1>14, ConsumeLengthExact
  <2>5. InStep'
    <3>1. size_' = size_
      BY <1>6, <1>14
    <3> QED
      BY <2>1, <2>4, <3>1, <1>1, <1>4 DEF InStep, LengthOn
  <2> QED
    BY <2>1, <2>4, <2>5, <1>9, <1>12 DEF LengthOn
<1>15. CASE InStep /\ reader_ # "head" /\ reader_ # "length"
  <2>1. /\ body_stream_ \in Texts /\ ChunkText(body_stream_ \o wire)
        /\ body \in Texts /\ body \o Prio!Sent(body_stream_ \o wire) = Prio!Sent(answer)
    BY <1>15 DEF InStep
  <2>2. PICK z : z = body_stream_ \o s /\ z \in Texts
    BY <2>1, <1>5, Joined
  <2>3. z \o r = body_stream_ \o wire
    <3>1. body_stream_ \in Seq(Prio!Tokens) /\ s \in Seq(Prio!Tokens) /\ r \in Seq(Prio!Tokens)
      BY <2>1, <1>5 DEF Texts
    <3>2. (body_stream_ \o s) \o r = body_stream_ \o (s \o r)
      BY ONLY <3>1, ConcatAssociative
    <3> QED
      BY <2>2, <3>2, <1>5
  <2>4. Prio!ConsumeChunks(z) /\ ChunkText(z \o r)
    BY <2>1, <2>2, <2>3, <1>6, <1>15
  <2>5. ChunkedOn(z, r)
    BY <2>1, <2>2, <2>4, <1>5, ConsumeChunksExact
  <2>6. body \o Prio!Sent(z \o r) = Prio!Sent(answer)
    BY <2>1, <2>3
  <2>7. InStep'
    BY <2>5, <2>6, <1>1, <1>4 DEF InStep, ChunkedOn
  <2> QED
    BY <2>5, <2>6, <2>7, <1>9, <1>12 DEF ChunkedOn
<1> QED
  BY <1>1, <1>10, <1>11, <1>13, <1>14, <1>15

LEMMA RecvKeepsBody ==
    ASSUME PrioInv, BodyInv, Prio!Recv
    PROVE  BodyInv'
<1>1. /\ phase = "frames" /\ answer' = answer /\ headers_stream_' = headers_stream_ /\ garbled' = garbled
      /\ wire \in Texts /\ EndLast(wire) /\ (settled = <<>> \/ ~Prio!Has("end", wire))
      /\ body \in Texts /\ (Prio!Has("end", wire) => body \o Prio!Sent(wire) = Prio!Sent(answer))
      /\ Prio!BodyExact
  BY DEF PrioInv, BodyInv, Prio!Recv
<1>2. PICK n \in 1 .. Len(wire) :
        LET s == SubSeq(wire, 1, n)
        IN  /\ wire' = SubSeq(wire, n + 1, Len(wire))
            /\ body' = body \o Prio!Sent(s)
            /\ \/ Prio!Has("end", s) /\ settled' = Append(settled, Resolved(body')) /\ phase' = phase
               \/ settled' = settled /\ phase' = phase
               \/ settled' = settled /\ phase' = "crashed"
  BY DEF Prio!Recv, Resolved
<1>3. PICK s : s = SubSeq(wire, 1, n)
  OBVIOUS
<1>4. PICK r : r = wire'
  OBVIOUS
<1>5. ReadOn(wire, s, r)
  BY <1>1, <1>2, <1>3, <1>4, EndReadOnce
<1>6. s \in Texts /\ r \in Texts /\ wire = s \o r
  BY <1>5 DEF ReadOn, Parts
<1>7. /\ Prio!Sent(wire) = Prio!Sent(s) \o Prio!Sent(r)
      /\ Prio!Sent(s) \in Texts /\ Prio!Sent(r) \in Texts
  BY <1>6, SentConcat, KindIsText DEF Prio!Sent
<1>8. body' \in Texts /\ body' \o Prio!Sent(r) = body \o Prio!Sent(wire)
  <2>1. PICK a, b : a = Prio!Sent(s) /\ b = Prio!Sent(r)
    OBVIOUS
  <2>2. body \in Seq(Prio!Tokens) /\ a \in Seq(Prio!Tokens) /\ b \in Seq(Prio!Tokens)
    BY <2>1, <1>1, <1>7 DEF Texts
  <2>3. (body \o a) \o b = body \o (a \o b)
    BY ONLY <2>2, ConcatAssociative
  <2>4. body' = body \o a /\ body \o a \in Texts
    BY <2>1, <1>1, <1>2, <1>3, <1>7, Joined
  <2> QED
    BY <2>1, <2>3, <2>4, <1>7
<1>9. Prio!Has("end", r) => body' \o Prio!Sent(r) = Prio!Sent(answer)
  BY <1>1, <1>5, <1>8 DEF ReadOn
<1>10. Prio!BodyExact'
  <2>1. CASE settled' = settled
    BY <2>1, <1>1, ExactWhenFailed
  <2>2. CASE Prio!Has("end", s) /\ settled' = Append(settled, Resolved(body'))
    <3>1. r = <<>> /\ Prio!Has("end", wire)
      BY <2>2, <1>5 DEF ReadOn
    <3>2. PICK b : b = body'
      OBVIOUS
    <3>3. b = Prio!Sent(answer)
      <4>1. Prio!Sent(r) = <<>>
        BY <3>1, KindEmpty DEF Prio!Sent
      <4>2. b \o <<>> = b
        BY <3>2, <1>8, ConcatEmptySeq DEF Texts
      <4> QED
        BY <3>1, <3>2, <4>1, <4>2, <1>1, <1>8
    <3>4. settled = <<>>
      BY <3>1, <1>1
    <3>5. settled' = <<Resolved(b)>>
      <4>1. settled' = Append(<<>>, Resolved(b))
        BY <2>2, <3>2, <3>4
      <4> HIDE DEF Resolved
      <4> QED
        BY <4>1, AppendedTo
    <3>6. Due(b)'
      BY <3>3, <1>1 DEF Due
    <3> QED
      BY <3>5, <3>6, ExactWhenDue
  <2> QED
    BY <2>1, <2>2, <1>2, <1>3
<1>11. phase' \in {"frames", "crashed"}
  BY <1>1, <1>2
<1>12. Prio!Has("end", wire') => body' \o Prio!Sent(wire') = Prio!Sent(answer')
  BY <1>1, <1>4, <1>9
<1> QED
  BY <1>8, <1>10, <1>11, <1>12 DEF BodyInv, Asking, Prio!Has

\* The stream begins: what of it comes to its end has the data of the answer.
LEMMA RequestedKeepsBody ==
    ASSUME PrioInv, BodyInv, Prio!Requested
    PROVE  BodyInv'
<1>1. /\ phase' = "frames" /\ UNCHANGED <<answer, settled, headers_stream_, garbled, body>>
      /\ body = <<>> /\ Prio!BodyExact
  BY DEF BodyInv, Prio!Requested, Prio!parsing, Asking
<1>2. PICK w : w = Prio!Frames(answer) /\ w \in Texts /\ EndLast(w) /\ Prio!Sent(w) = Prio!Sent(answer)
  BY AnswerIs, FramesAre
<1>3. \/ wire' = w
      \/ \E i \in 0 .. Len(w) - 1 : wire' = Append(SubSeq(w, 1, i), Prio!Token("reset", 0))
  BY <1>2 DEF Prio!Requested
<1>4. Prio!Has("end", wire') => wire' = w
  BY <1>2, <1>3, ResetNoEnd
<1>5. Prio!Has("end", wire') => body' \o Prio!Sent(wire') = Prio!Sent(answer')
  <2>1. PICK d : d = Prio!Sent(w) /\ d \in Texts
    BY <1>2, KindIsText DEF Prio!Sent
  <2>2. <<>> \o d = d
    BY <2>1, ConcatEmptySeq DEF Texts
  <2> QED
    BY <2>1, <2>2, <1>1, <1>2, <1>4
<1>6. Prio!BodyExact'
  BY <1>1, ExactWhenFailed
<1>7. <<>> \in Texts
  BY KindEmpty
<1> QED
  BY <1>1, <1>5, <1>6, <1>7 DEF BodyInv, Asking, Prio!Has

\* The request is written, the answer begins.
LEMMA WriteKeepsBody ==
    ASSUME PrioInv, BodyInv, Prio!Write
    PROVE  BodyInv'
<1>1. /\ phase' = "reading" /\ wire' = answer
      /\ UNCHANGED <<answer, settled, headers_stream_, garbled, body, reader_>>
      /\ body = <<>> /\ reader_ = "head" /\ headers_stream_ = <<>> /\ Prio!BodyExact
  BY DEF PrioInv, BodyInv, Prio!Write, Prio!parsing, Asking
<1>2. answer \in Texts /\ <<>> \in Texts /\ <<>> \o answer = answer
  BY AnswerIs, KindEmpty, ConcatEmptySeq DEF Texts
<1>3. Reading'
  BY <1>1, <1>2 DEF Reading, InStep
<1>4. Prio!BodyExact'
  BY <1>1, ExactWhenFailed
<1> QED
  BY <1>1, <1>3, <1>4 DEF BodyInv, Asking

\* The other actions read nothing.
LEMMA OthersKeepBody ==
    ASSUME PrioInv, BodyInv, UNCHANGED <<answer, headers_stream_, garbled, body, reader_>>,
           settled' = settled \/ settled' = Append(settled, Rejected),
           phase' \in {"done", "crashed"} \/ (phase \in Asking /\ phase' \in Asking)
    PROVE  BodyInv'
<1>1. Prio!BodyExact'
  BY ExactWhenFailed DEF BodyInv
<1> QED
  BY <1>1 DEF BodyInv, Asking

LEMMA NextBody == PrioInv /\ BodyInv /\ [Next]_vars => BodyInv'
<1> SUFFICES ASSUME PrioInv, BodyInv, [Next]_vars PROVE BodyInv'
  OBVIOUS
<1>1. CASE UNCHANGED prio
  BY <1>1 DEF BodyInv, Reading, InStep, prio, Prio!BodyExact, Prio!HasInterim, Prio!HasOpenEnd, Prio!Http1Answered,
              Prio!Has
<1>2. CASE Prio!Fetch \/ Prio!Connecting \/ Prio!Greeted
  <2>1. UNCHANGED <<answer, headers_stream_, garbled, body, reader_>>
    BY <1>2 DEF Prio!Fetch, Prio!Connecting, Prio!Resolve, Prio!Connected, Prio!Handshake, Prio!HandshakeFails,
                Prio!Unverified, Prio!Greeted, Prio!network, Prio!parsing
  <2>2. phase \in Asking /\ (phase' = "done" \/ phase' \in Asking)
    BY <1>2 DEF Asking, Prio!Fetch, Prio!Connecting, Prio!Resolve, Prio!Connected, Prio!Handshake,
                Prio!HandshakeFails, Prio!Unverified, Prio!Greeted, Prio!Reject
  <2>3. settled' = settled \/ settled' = Append(settled, Rejected)
    BY <1>2 DEF Prio!Fetch, Prio!Connecting, Prio!Resolve, Prio!Connected, Prio!Handshake, Prio!HandshakeFails,
                Prio!Unverified, Prio!Greeted, Prio!Reject, Rejected
  <2> QED
    BY <2>1, <2>2, <2>3, OthersKeepBody
<1>3. CASE Prio!WriteFails \/ Prio!ReadFails \/ Prio!FramesFail
  <2>1. UNCHANGED <<answer, headers_stream_, garbled, body, reader_>>
    BY <1>3 DEF Prio!WriteFails, Prio!ReadFails, Prio!FramesFail, Prio!parsing
  <2>2. phase' \in {"done", "crashed"} /\ (settled' = settled \/ settled' = Append(settled, Rejected))
    BY <1>3 DEF Prio!WriteFails, Prio!ReadFails, Prio!FramesFail, Prio!OnRequestError2, Prio!OnRequestError,
                Prio!Reject, Rejected
  <2> QED
    BY <2>1, <2>2, OthersKeepBody
<1>4. UNCHANGED prio \/ Prio!Next
  BY DEF Next, ByPrio, ByCurl, vars
<1> QED
  BY <1>1, <1>2, <1>3, <1>4, ReadKeepsBody, RecvKeepsBody, RequestedKeepsBody, WriteKeepsBody
     DEF Prio!Next, Prio!Http1, Prio!Http2

\* then() gets the body that the server sent, of any length and in any chunks, however TCP cuts
\* it and over HTTP/2; a beginning of it if it only ends with the connection.  Excepted are an
\* answer that another comes before, and a head in several reads, the last with some of the body.
THEOREM BodyExactHolds == Spec => []BodyExact
<1>1. BodyInv => BodyExact
  BY DEF BodyInv, BodyExact
<1> QED
  BY <1>1, InitPrio, NextPrio, InitBody, NextBody, PTL DEF Spec
=============================================================================
