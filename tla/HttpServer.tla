----------------------------- MODULE HttpServer -----------------------------
(***************************************************************************)
(* prio::http_server (libraries/prio-http/src/http_server.cpp) and its     *)
(* Listener (libraries/prio/src/libevent.cpp), for one client: the         *)
(* connection is accepted, a secure one goes through the TLS handshake, and*)
(* it becomes an HttpConversation, or, if the handshake has agreed on "h2",*)
(* an Http2Conversation, for good.                                         *)
(***************************************************************************)
EXTENDS Naturals

CONSTANTS
    NRequests, MaxBody, MaxChunks,              \* of HttpConversation
    Stream, MaxSize, Window, MaxUpdates         \* of Http2Conversation

ASSUME HttpServerAssumption ==
    /\ NRequests \in Nat /\ MaxBody \in Nat /\ MaxChunks \in Nat
    /\ MaxSize \in Nat /\ MaxUpdates \in Nat /\ Window \in Nat \ {0}
    /\ Stream \intersect {"hello", "recv"} = {}

VARIABLES
    stage,                  \* how far the connection is
    kind,                   \* "http" or "h2": client->isHttp2Requested()
    gone,                   \* the client has gone, of whichever kind
    \* HttpConversation
    size, keep, expect, sending, left, wire, out, alive, await, reader_, stream_, cur,
    keep_alive_, seen, writer_, chunks_, writing_, done_, headersSent_, nchunks, handler, stuck,
    \* Http2Conversation
    answer, open, self_, reading, writes, peer, live, handlers, resp, body, window, updates,
    got, ended, flaw

http == <<size, keep, expect, sending, left, wire, out, alive, await, reader_, stream_, cur,
          keep_alive_, seen, writer_, chunks_, writing_, done_, headersSent_, nchunks, handler, stuck>>
h2 == <<answer, open, self_, reading, writes, peer, live, handlers, resp, body, window, updates,
        got, ended, flaw>>
listener == <<stage, kind>>
vars == <<listener, gone, http, h2>>

H1 == INSTANCE HttpConversation
H2 == INSTANCE Http2Conversation WITH size <- answer, handler <- handlers

\* The conversation that the connection does not get, in a state that is left alone
Unused1 ==
    /\ size = [i \in H1!Request |-> 0]
    /\ expect = [i \in H1!Request |-> FALSE]
    /\ keep = [i \in H1!Request |-> TRUE]
Unused2 ==
    /\ answer = [s \in Stream |-> 0]
    /\ writes["hello"] = "tick"

\* bind() has succeeded
Init ==
    /\ H1!Init /\ H2!Init
    /\ stage = "connecting"
    /\ \/ kind = "http" /\ Unused2
       \/ kind = "h2" /\ Unused1

-----------------------------------------------------------------------------
(* The listener *)

\* http_server::shutdown(): nobody is accepted any more, whoever was goes on
Shutdown ==
    /\ stage = "connecting"
    /\ stage' = "refused"
    /\ UNCHANGED <<kind, gone, http, h2>>

\* TcpListenerImpl::accept_handler: the connection is handed over, or cannot be accepted
TcpAccept ==
    /\ stage = "connecting" /\ kind = "http"
    /\ stage' \in {"open", "refused"}
    /\ UNCHANGED <<kind, gone, http, h2>>

\* SslListenerImpl::accept_handler: ... or waits for more of the handshake
SslAccept ==
    /\ stage = "connecting"
    /\ stage' \in {"handshake", "open", "refused"}
    /\ UNCHANGED <<kind, gone, http, h2>>

\* do_ssl_accept: the handshake comes to its end, with a certificate that do_verify takes,
\* or with one that it does not, or with an error.  There is no timeout.
DoSslAccept ==
    /\ stage = "handshake"
    /\ stage' \in {"open", "refused"}
    /\ UNCHANGED <<kind, gone, http, h2>>

\* The client goes in the middle of the handshake.
ClientGoes ==
    /\ stage = "handshake" /\ ~gone
    /\ gone' = TRUE
    /\ UNCHANGED <<listener, http, h2>>

-----------------------------------------------------------------------------
OnAccept(A) == stage = "open" /\ kind = "http" /\ A /\ UNCHANGED <<listener, h2>>
OnAccept2(A) == stage = "open" /\ kind = "h2" /\ A /\ UNCHANGED <<listener, http>>

Next ==
    \/ Shutdown \/ TcpAccept \/ SslAccept \/ DoSslAccept \/ ClientGoes
    \/ OnAccept(H1!Next) \/ OnAccept2(H2!Next)

Spec == Init /\ [][Next]_vars

\* The fairness of both: see there.  A handshake ends when the client has gone.
Fairness ==
    /\ WF_vars(gone /\ DoSslAccept)
    /\ WF_vars(OnAccept(H1!Io)) /\ WF_vars(OnAccept(H1!Flush))
    /\ WF_vars(OnAccept(H1!ClientSends)) /\ WF_vars(OnAccept(H1!ClientBegins))
    /\ WF_vars(OnAccept2(H2!Writing))
    /\ WF_vars(OnAccept2(gone /\ (H2!ReadFails \/ H2!ReadAfterClose)))
    /\ \A s \in Stream : WF_vars(OnAccept2(H2!FlushStep(s)))

FairSpec == Spec /\ Fairness

-----------------------------------------------------------------------------
(* Properties *)

TypeOK ==
    /\ stage \in {"connecting", "handshake", "open", "refused"} /\ kind \in {"http", "h2"}
    /\ H1!TypeOK /\ H2!TypeOK

\* HTTP/1.1: a handler is called with the body of its request, however TCP cut it.
BodyExact == H1!BodyExact

\* HTTP/1.1: the responses are well-formed and in the order of the requests.
AnswersInOrder == H1!AnswersInOrder

\* HTTP/2: a client that is told the end of a response has all of its body.
ResponseWhole == H2!ResponseWhole

\* On either kind of connection a request is answered, but for what the code gives up.
RequestAnswered ==
    /\ kind = "http" => H1!RequestAnswered
    /\ kind = "h2" => H2!RequestAnswered

\* When the client has gone, what the server has of it goes: the half of a handshake, or
\* the conversation of either kind, but for what the code gives up.
NoLeak ==
    gone ~> \/ stage = "refused"
            \/ stage = "open" /\ kind = "http" /\ (~alive \/ stuck)
            \/ stage = "open" /\ kind = "h2" /\ (~H2!Held \/ ~H2!Works)
=============================================================================
