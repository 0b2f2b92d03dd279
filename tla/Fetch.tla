------------------------------- MODULE Fetch -------------------------------
(***************************************************************************)
(* The two clients that a program of this repository may fetch with: the   *)
(* one of prio, for one url (HttpClient), and the one over libcurl, for    *)
(* several at once (CurlMulti).  Both promise the same: a fetch settles,   *)
(* and once.                                                               *)
(***************************************************************************)
EXTENDS Naturals, Sequences, FiniteSets

CONSTANTS
    Answers,                \* of HttpClient
    Transfer                \* of CurlMulti

ASSUME TransferAssumption == IsFiniteSet(Transfer)

VARIABLES
    client,                 \* which one the program uses: "prio" or "curl"
    \* HttpClient
    proto, held, answer, phase, refused, sock, wire, headers_stream_, reader_, size_, body_stream_,
    body, settled, garbled, unverified,
    \* CurlMulti
    all, holds, easy, what_, io, lib, good, timeout_, still_running_, cnt, responses, outcome,
    settles, flaw

prio == <<proto, held, answer, phase, refused, sock, wire, headers_stream_, reader_, size_,
          body_stream_, body, settled, garbled, unverified>>
curl == <<all, holds, easy, what_, io, lib, good, timeout_, still_running_, cnt, responses, outcome,
          settles, flaw>>
vars == <<client, prio, curl>>

Prio == INSTANCE HttpClient
Curl == INSTANCE CurlMulti WITH settled <- settles

\* Servers answer in the ways that the readers are made for, or with one answer before another.
ASSUME AnswerAssumption == Answers \subseteq Seq(Prio!Tokens)
ASSUME PlainAssumption == \A a \in Answers : Prio!Interrupted(a) \/ Prio!Plain(a)

\* The client that the program does not use, in a state that is left alone
UnusedPrio ==
    /\ proto = "http" /\ ~held
    /\ answer = CHOOSE a \in Answers : TRUE
UnusedCurl ==
    /\ all = {}
    /\ good = [t \in Transfer |-> TRUE]
    /\ holds = [t \in Transfer |-> "nothing"]

Init ==
    /\ Prio!Init /\ Curl!Init
    /\ \/ client = "prio" /\ UnusedCurl
       \/ client = "curl" /\ UnusedPrio

ByPrio(A) == client = "prio" /\ A /\ UNCHANGED <<client, curl>>
ByCurl(A) == client = "curl" /\ A /\ UNCHANGED <<client, prio>>

Next == ByPrio(Prio!Next) \/ ByCurl(Curl!Next)

Spec == Init /\ [][Next]_vars

\* The fairness of both: see there.
Fairness ==
    /\ WF_vars(ByPrio(Prio!Connecting \/ Prio!Http1 \/ Prio!Http2))
    /\ WF_vars(ByCurl(Curl!OnTimer))
    /\ \A t \in Transfer : WF_vars(ByCurl(Curl!Ends(t)))

FairSpec == Spec /\ Fairness

-----------------------------------------------------------------------------
(* Properties *)

TypeOK == client \in {"prio", "curl"} /\ Prio!TypeOK /\ Curl!TypeOK

\* prio: then() gets the body the server sent, however TCP cut it.
BodyExact == Prio!BodyExact

\* curl: libcurl never waits for a socket or a timer that nobody watches.
Watched == Curl!Watched

\* Either client settles a fetch once, but for HTTP/2 in prio; fetch_all() has all responses.
SettlesOnce == Prio!SettlesOnce /\ Curl!SettlesOnce

\* Either client settles a fetch whatever fails on the way, but for what the code gives up.
Settles ==
    /\ client = "prio" => Prio!SettlesAndCloses
    /\ client = "curl" => Curl!Settles
=============================================================================
