----------------------------- MODULE CurlMulti -----------------------------
(***************************************************************************)
(* reprocurl: the one CurlMulti and the CurlEasy of each transfer          *)
(* (libraries/repro-curl/src/asyncCurl_libevent.cpp), fetch() and          *)
(* fetch_all() (api.cpp).                                                  *)
(*                                                                         *)
(* libcurl is external: curl_multi_socket_action() takes some transfers on,*)
(* and calls back with what each then waits for: its socket, or the timer. *)
(* Events of libevent fire once, so each has to be added again.  Each      *)
(* transfer has a socket of its own.                                       *)
(*                                                                         *)
(* The model stops where a CurlEasy is used that has been deleted.         *)
(***************************************************************************)
EXTENDS Naturals, FiniteSets, Sequences

CONSTANT Transfer           \* the transfers a program makes

VARIABLES
    all,                    \* the transfers of its one fetch_all()
    holds,                  \* what the program keeps of each
    easy,                   \* how far each is
    what_,                  \* what libcurl has asked for, last
    io,                     \* the events of io_read and io_write
    lib,                    \* what libcurl waits for
    good,                   \* how the transfer ended
    timeout_,               \* the timer of the multi handle is set
    still_running_,
    \* fetch_all()
    cnt, responses, outcome,
    \* history
    settled,                \* how the promise of each was settled
    flaw                    \* why the model stopped

fetched == <<cnt, responses, outcome, settled>>
vars == <<all, holds, easy, what_, io, lib, good, timeout_, still_running_, fetched, flaw>>

Wants == {"in", "out", "inout"}

Events(what) == {e \in {"in", "out"} : what \in {e, "inout"}}

Init ==
    /\ all \in SUBSET Transfer
    /\ holds \in [Transfer -> {"easy", "response", "nothing"}]
    /\ \A t \in all : holds[t] = "response"
    /\ easy = [t \in Transfer |-> "new"]
    /\ what_ = [t \in Transfer |-> "none"]
    /\ io = [t \in Transfer |-> {}]
    /\ lib = [t \in Transfer |-> "none"]
    /\ good \in [Transfer -> BOOLEAN]
    /\ timeout_ = FALSE
    /\ still_running_ = 1
    /\ cnt = 0 /\ responses = {} /\ outcome = "none"
    /\ settled = [t \in Transfer |-> <<>>]
    /\ flaw = "none"

Works == flaw = "none"

-----------------------------------------------------------------------------
(* A transfer begins *)

Begin(T) ==
    /\ easy' = [t \in Transfer |-> IF t \in T THEN "tick" ELSE easy[t]]
    /\ UNCHANGED <<all, holds, what_, io, lib, good, timeout_, still_running_, responses, settled, flaw>>

\* fetch(), perform()
Fetch(t) ==
    /\ Works /\ easy[t] = "new" /\ t \notin all
    /\ Begin({t})
    /\ UNCHANGED <<cnt, outcome>>

\* fetch_all(): of nothing, it would never settle
FetchAll ==
    /\ Works /\ outcome = "none" /\ all # {}
    /\ Begin(all)
    /\ cnt' = Cardinality(all)
    /\ outcome' = "waiting"

\* the tick of perform(): init_request(), CurlMulti::add(); libcurl sets the timer
InitRequest(t) ==
    /\ Works /\ easy[t] = "tick"
    /\ easy' = [easy EXCEPT ![t] = "added"]
    /\ lib' = [lib EXCEPT ![t] = "start"]
    /\ timeout_' = TRUE
    /\ UNCHANGED <<all, holds, what_, io, good, still_running_, fetched, flaw>>

-----------------------------------------------------------------------------
(* It goes on *)

\* with libcurl
Added == {t \in Transfer : lib[t] # "none"}

\* CurlEasy::resolve() or reject() of the transfers in E, and dispose(): out of libcurl, and
\* deleted, with its events, unless the program has a reference, in a response or of its own
Settle(E) ==
    LET failed == {t \in E : ~good[t]}
        kept == {t \in E : holds[t] = "easy" \/ (good[t] /\ holds[t] = "response")}
    IN  /\ settled' = [t \in Transfer |-> IF t \notin E THEN settled[t]
                                          ELSE Append(settled[t], IF good[t] THEN "resolved" ELSE "rejected")]
        /\ easy' = [t \in Transfer |-> IF t \notin E THEN easy[t] ELSE IF t \in kept THEN "kept" ELSE "deleted"]
        /\ responses' = responses \union (E \ failed)
        /\ cnt' = cnt - Cardinality((E \ failed) \intersect all)
        /\ outcome' = IF outcome # "waiting" THEN outcome
                      ELSE IF failed \intersect all # {} THEN "rejected"
                      ELSE IF cnt' = 0 THEN "resolved" ELSE outcome

\* curl_multi_socket_action() for the transfers in S, and check_multi_info().  A transfer
\* that was added goes to a socket, one on a socket may want something else, and each may
\* end; what changes is told by sock_cb (to on_sock_cb), the timer by multi_timer_cb.  To use
\* is the transfer whose event it is, which goes on to wait for what_, if any runs.
Action(S, use, left) ==
    \E next \in [S -> Wants \union {"ended"}] :
        LET now == [t \in Transfer |-> IF t \in S THEN next[t] ELSE lib[t]]
            ended == {t \in Transfer : now[t] = "ended"}
            told(t) == t \in S /\ now[t] # lib[t]
            asked(t) == IF ~told(t) THEN what_[t]
                        ELSE IF now[t] # "ended" THEN now[t]
                        ELSE IF lib[t] \in Wants THEN "remove" ELSE what_[t]
            running == {t \in Transfer : now[t] \in Wants \union {"start"}}
            again == use # {} /\ running # {}
        IN  /\ lib' = [t \in Transfer |-> IF t \in ended THEN "none" ELSE now[t]]
            /\ what_' = [t \in Transfer |-> asked(t)]
            /\ still_running_' = Cardinality(running)
            /\ Settle(ended)
            /\ timeout_' \in IF running = {} THEN {FALSE}
                             ELSE IF \E t \in running : now[t] = "start" THEN {TRUE} ELSE BOOLEAN
            /\ flaw' = IF again /\ \E t \in use : easy'[t] = "deleted" THEN "freed" ELSE flaw
            /\ io' = [t \in Transfer |->
                        IF easy'[t] = "deleted" THEN {}
                        ELSE IF told(t) \/ (again /\ t \in use) THEN Events(asked(t))
                        ELSE left[t]]
    /\ UNCHANGED <<all, holds, good>>

\* Slip: an event is not added again unless libcurl asks for it.
OnSocket_Once(t, e) ==
    /\ Works /\ e \in io[t]
    /\ \E S \in SUBSET Added : Action(S \union {t}, {}, [io EXCEPT ![t] = @ \ {e}])

\* The event of a transfer fires, and onSocket() tells libcurl, which also looks after the
\* timers of others.
OnSocket(t, e) ==
    /\ Works /\ e \in io[t]
    /\ \E S \in SUBSET Added : Action(S \union {t}, {t}, [io EXCEPT ![t] = @ \ {e}])

\* ... which fails: the transfer is rejected, whatever others have to say is not looked at
OnSocketFails(t, e) ==
    /\ Works /\ e \in io[t] /\ ~good[t]
    /\ lib' = [lib EXCEPT ![t] = "none"]
    /\ what_' = [what_ EXCEPT ![t] = "remove"]
    /\ io' = [io EXCEPT ![t] = {}]
    /\ Settle({t})
    /\ UNCHANGED <<all, holds, good, timeout_, still_running_, flaw>>

\* The timer fires: all that were added since begin, and others may time out.
OnTimer ==
    /\ Works /\ timeout_
    /\ \E S \in SUBSET Added : {t \in Added : lib[t] = "start"} \subseteq S /\ Action(S, {}, io)

-----------------------------------------------------------------------------
Program == FetchAll \/ \E t \in Transfer : Fetch(t)

Multi(t) == InitRequest(t) \/ \E e \in {"in", "out"} : OnSocket(t, e) \/ OnSocketFails(t, e)

Next == Program \/ OnTimer \/ \E t \in Transfer : Multi(t)

Spec == Init /\ [][Next]_vars

\* ticks and timers are served, a socket becomes ready, and what libcurl does ends
Ends(t) == Multi(t) /\ (easy[t] = "tick" \/ lib'[t] = "none")
Fairness == WF_vars(OnTimer) /\ \A t \in Transfer : WF_vars(Ends(t))

FairSpec == Spec /\ Fairness

-----------------------------------------------------------------------------
(* Properties *)

TypeOK ==
    /\ easy \in [Transfer -> {"new", "tick", "added", "kept", "deleted"}]
    /\ what_ \in [Transfer -> Wants \union {"none", "remove"}]
    /\ io \in [Transfer -> SUBSET {"in", "out"}]
    /\ lib \in [Transfer -> Wants \union {"none", "start"}]
    /\ still_running_ \in 0 .. Cardinality(Transfer) + 1

\* libcurl never waits for what nobody watches: a transfer on a socket has the events it
\* asked for last, also after those have fired, and one that was added has the timer.
Watched ==
    Works => \A t \in Transfer :
                /\ lib[t] \in Wants => easy[t] = "added" /\ io[t] = Events(lib[t])
                /\ lib[t] = "start" => timeout_
                /\ lib[t] = "none" => io[t] = {}

\* A fetch settles once, and fetch_all() resolves with the responses of all.
SettlesOnce ==
    /\ \A t \in Transfer : Len(settled[t]) <= 1
    /\ outcome = "resolved" => all \subseteq responses

\* A fetch settles, and fetch_all() does, whatever the others do: unless one that has ended
\* is deleted while others run.
Settles ==
    /\ \A t \in Transfer : easy[t] = "tick" ~> settled[t] # <<>> \/ ~Works
    /\ outcome = "waiting" ~> outcome # "waiting" \/ ~Works
=============================================================================
