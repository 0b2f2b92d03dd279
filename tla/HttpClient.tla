----------------------------- MODULE HttpClient -----------------------------
(***************************************************************************)
(* One fetch() of prio::HttpClient (libraries/prio-http/src/client.cpp),   *)
(* from the resolver and the TLS handshake (libraries/prio/src/libevent.cpp*)
(* and libevent_ssl_connection.cpp) to the answer, which a conversation of *)
(* HTTP/1 or of HTTP/2 reads (client_conversation.cpp, http2_client.cpp).  *)
(*                                                                         *)
(* What the server answers, as the client reads it, is in HttpAnswer.      *)
(***************************************************************************)
EXTENDS Naturals, Sequences, SequencesExt, HttpAnswer

CONSTANT Answers            \* what servers answer, as text

VARIABLES
    proto,                  \* of the url: "http" or "https"
    held,                   \* the program keeps its HttpClient::Ptr
    answer,                 \* what this server answers
    phase,                  \* what the client waits for
    refused,                \* the connection was refused
    sock,                   \* who has the connection
    wire,                   \* what of the answer has not been read
    headers_stream_,        \* of the ClientHttpHeaderReader
    reader_,                \* which reader has the next read
    size_,                  \* of the response, by its head
    body_stream_,           \* of the chunked reader
    body,                   \* of the wrapped reader, or of the stream
    \* history
    settled,                \* the calls of then() and of otherwise(), with the body
    garbled,                \* body bytes came in the read that ended a head begun in another
    unverified              \* the certificate was refused

network == <<proto, answer, refused, sock, wire>>
parsing == <<headers_stream_, reader_, size_, body_stream_, body, garbled>>
vars == <<network, held, phase, parsing, settled, unverified>>

Junk == Token("junk", 0)            \* whatever is in memory

Init ==
    /\ proto \in {"http", "https"}
    /\ held \in BOOLEAN
    /\ answer \in Answers
    /\ phase = "start"
    /\ refused = FALSE
    /\ sock = "none"
    /\ wire = <<>>
    /\ headers_stream_ = <<>>
    /\ reader_ = "head"
    /\ size_ = 0
    /\ body_stream_ = <<>>
    /\ body = <<>>
    /\ settled = <<>>
    /\ garbled = FALSE
    /\ unverified = FALSE

-----------------------------------------------------------------------------
(* The end *)

Outcome(what, b) == [what |-> what, body |-> b]

\* The conversation and fetch() have let go of the connection; a client that the program
\* keeps still has it.
LetGo == sock' = IF held THEN "program" ELSE "closed"

\* cb_.reject() of the HttpClient, self_.reset()
Reject ==
    /\ settled' = Append(settled, Outcome("rejected", <<>>))
    /\ phase' = "done"

\* Slip: the connection stays open and is read on.
OnResponseComplete_Open(b) ==
    /\ settled' = Append(settled, Outcome("resolved", b))
    /\ UNCHANGED <<phase, sock>>

\* HttpClientConversation::onResponseComplete: then() is called, the connection closed
OnResponseComplete(b) ==
    /\ settled' = Append(settled, Outcome("resolved", b))
    /\ phase' = "done"
    /\ sock' = "closed"

OnRequestError == Reject /\ LetGo

-----------------------------------------------------------------------------
(* Connecting *)

Fetch ==
    /\ phase = "start"
    /\ phase' = "resolving"
    /\ UNCHANGED <<network, held, parsing, settled, unverified>>

\* Resolver::connect: the task on the thread pool resolves the name, makes the socket and
\* begins to connect
Resolve ==
    /\ phase = "resolving"
    /\ \/ Reject /\ UNCHANGED sock
       \/ phase' = "connecting" /\ sock' = "client" /\ UNCHANGED settled
    /\ UNCHANGED <<proto, held, answer, refused, wire, parsing, unverified>>

\* IO::onWrite: the socket is writable, connected or refused
Connected ==
    /\ phase = "connecting"
    /\ refused' \in BOOLEAN
    /\ phase' = IF proto = "http" THEN "writing" ELSE "handshake"
    /\ UNCHANGED <<proto, held, answer, sock, wire, parsing, settled, unverified>>

\* SslConnection::ssl_do_connect, to its end: HTTP/2 or not is agreed on
Handshake ==
    /\ phase = "handshake" /\ ~refused
    /\ phase' \in {"writing", "greeting"}
    /\ UNCHANGED <<network, held, parsing, settled, unverified>>

\* ... an error or the timeout: the SslConnection deletes itself
HandshakeFails ==
    /\ phase = "handshake"
    /\ Reject
    /\ sock' = "closed"
    /\ UNCHANGED <<proto, held, answer, refused, wire, parsing, unverified>>

\* ... no certificate, or a wrong one: nobody deletes it
Unverified ==
    /\ phase = "handshake" /\ ~refused
    /\ Reject
    /\ unverified' = TRUE
    /\ UNCHANGED <<network, held, parsing>>

-----------------------------------------------------------------------------
(* HTTP/1 *)

\* HttpClientConversation::on
Write ==
    /\ phase = "writing" /\ ~refused
    /\ phase' = "reading"
    /\ wire' = answer
    /\ UNCHANGED <<proto, held, answer, refused, sock, parsing, settled, unverified>>

WriteFails ==
    /\ phase \in {"writing", "greeting", "request"}
    /\ OnRequestError
    /\ UNCHANGED <<proto, held, answer, refused, wire, parsing, unverified>>

\* Slip: a chunk that ends with the read ends the body.
Chunks_Empty(s) ==
    LET parse[i \in 0 .. Len(s)] ==
          IF i = Len(s) THEN [is |-> "done", at |-> i]
          ELSE LET n == s[i + 1].n
               IN  IF n = 0 THEN [is |-> IF i + 2 <= Len(s) THEN "done" ELSE "read", at |-> i]
                   ELSE IF Len(s) < i + 1 + n THEN [is |-> "read", at |-> i]
                   ELSE IF Len(s) < i + 2 + n THEN [is |-> "throw", at |-> i]
                   ELSE parse[i + 2 + n]
    IN  parse[0]

\* HttpClientChunkedBodyReader::consume with body_stream_ = s: what it does in the end and
\* how much of s it has taken.  A chunk whose line end is missing makes substr() throw.
Chunks(s) ==
    LET parse[i \in 0 .. Len(s)] ==
          IF i = Len(s) THEN [is |-> "read", at |-> i]
          ELSE LET n == s[i + 1].n
               IN  IF n = 0 THEN [is |-> IF i + 2 <= Len(s) THEN "done" ELSE "read", at |-> i]
                   ELSE IF Len(s) < i + 1 + n THEN [is |-> "read", at |-> i]
                   ELSE IF Len(s) < i + 2 + n THEN [is |-> "throw", at |-> i]
                   ELSE parse[i + 2 + n]
    IN  parse[0]

\* Junk may look like anything.
ChunkResults(s) ==
    IF ~Has("junk", s) THEN {Chunks(s)} ELSE [is : {"read", "done", "throw"}, at : {0}]

\* The chunked reader takes s.  If it throws inside consume() of the head reader, which is
\* deleted by then, the handler uses that one: it may work or not.
ConsumeChunks(s) ==
    \E r \in ChunkResults(s) :
        /\ body_stream_' = SubSeq(s, r.at + 1, Len(s))
        /\ body' = body \o Sent(SubSeq(s, 1, r.at))
        /\ reader_' = "chunked"
        /\ CASE r.is = "read" -> UNCHANGED <<phase, sock, settled>>
             [] r.is = "done" -> OnResponseComplete(body')
             [] OTHER -> \/ OnRequestError
                         \/ reader_ = "head" /\ phase' = "crashed" /\ UNCHANGED <<sock, settled>>

\* HttpClientContentLengthBodyReader::consume
ConsumeLength(s, size) ==
    /\ body' = LET all == body \o s IN SubSeq(all, 1, Min({size, Len(all)}))
    /\ reader_' = "length"
    /\ UNCHANGED body_stream_
    /\ IF Len(body') >= size THEN OnResponseComplete(body') ELSE UNCHANGED <<phase, sock, settled>>

\* ClientHttpHeaderReader::consume, parse_headers() and onHeadersComplete().  What follows
\* the empty line is cut out of this read at its offset in all reads.
ConsumeHead(s) ==
    LET all == headers_stream_ \o s
    IN  /\ headers_stream_' = all
        /\ IF ~Has("blank", all)
           THEN UNCHANGED <<phase, sock, settled, garbled, reader_, size_, body_stream_, body>>
           ELSE LET end == CHOOSE i \in DOMAIN all : all[i] = Blank /\ \A j \in 1 .. i - 1 : all[j] # Blank
                    rest == SubSeq(all, end + 1, Len(all))
                    apart == headers_stream_ # <<>> /\ rest # <<>>
                    b == IF apart THEN [i \in DOMAIN rest |-> Junk] ELSE rest
                IN  /\ garbled' = apart
                    /\ size_' = all[1].n
                    /\ IF all[1].k = "chunked" THEN ConsumeChunks(b)
                       ELSE IF all[1].n > 0 THEN ConsumeLength(b, all[1].n)
                       ELSE OnResponseComplete(b) /\ UNCHANGED <<reader_, body_stream_, body>>

Read ==
    /\ phase = "reading"
    /\ \E n \in 1 .. Len(wire) :
          LET s == SubSeq(wire, 1, n)
          IN  /\ wire' = SubSeq(wire, n + 1, Len(wire))
              /\ CASE reader_ = "head" -> ConsumeHead(s)
                   [] reader_ = "length" -> ConsumeLength(s, size_) /\ UNCHANGED <<headers_stream_, garbled, size_>>
                   [] OTHER -> ConsumeChunks(body_stream_ \o s) /\ UNCHANGED <<headers_stream_, garbled, size_>>
    /\ UNCHANGED <<proto, held, answer, refused, unverified>>

\* Slip: nobody is told.
ReadFails_Silent ==
    /\ phase = "reading"
    /\ phase' = "done"
    /\ LetGo
    /\ UNCHANGED <<proto, held, answer, refused, wire, parsing, settled, unverified>>

\* the server has closed or reset the connection, or the read times out
ReadFails ==
    /\ phase = "reading"
    /\ OnRequestError
    /\ UNCHANGED <<proto, held, answer, refused, wire, parsing, unverified>>

-----------------------------------------------------------------------------
(* HTTP/2 *)

\* Http2ClientConversation::on: the settings are written, then the request
Greeted ==
    /\ phase = "greeting"
    /\ phase' = "request"
    /\ UNCHANGED <<network, held, parsing, settled, unverified>>

\* The server answers, or resets the stream at some point.
Requested ==
    /\ phase = "request"
    /\ phase' = "frames"
    /\ LET frames == Frames(answer)
       IN  \/ wire' = frames
           \/ \E i \in 0 .. Len(frames) - 1 : wire' = Append(SubSeq(frames, 1, i), Token("reset", 0))
    /\ UNCHANGED <<proto, held, answer, refused, sock, parsing, settled, unverified>>

\* onRequestError(): a client that nobody keeps is gone once it has settled, and used here
OnRequestError2 ==
    IF settled # <<>> /\ ~held
    THEN phase' \in {"done", "crashed"} /\ LetGo /\ UNCHANGED settled
    ELSE OnRequestError

\* schedule_read() and recv(): the headers are looked up beyond the end of an array of one,
\* which may fail; the end of the stream resolves fetch(), the reading goes on
Recv ==
    /\ phase = "frames"
    /\ \E n \in 1 .. Len(wire) :
          LET s == SubSeq(wire, 1, n)
          IN  /\ wire' = SubSeq(wire, n + 1, Len(wire))
              /\ body' = body \o Sent(s)
              /\ \/ /\ Has("end", s)
                    /\ settled' = Append(settled, Outcome("resolved", body'))
                    /\ UNCHANGED phase
                 \/ ~Has("end", s) /\ UNCHANGED <<settled, phase>>
                 \/ Has("head", s) /\ phase' = "crashed" /\ UNCHANGED settled
    /\ UNCHANGED <<proto, held, answer, refused, sock, headers_stream_, reader_, size_, body_stream_, garbled, unverified>>

\* a read fails, or the write of what nghttp2 has to say
FramesFail ==
    /\ phase = "frames"
    /\ OnRequestError2
    /\ UNCHANGED <<proto, held, answer, refused, wire, parsing, unverified>>

-----------------------------------------------------------------------------
Connecting == Resolve \/ Connected \/ Handshake \/ HandshakeFails \/ Unverified
Http1 == Write \/ WriteFails \/ Read \/ ReadFails
Http2 == Greeted \/ Requested \/ Recv \/ FramesFail

Next == Fetch \/ Connecting \/ Http1 \/ Http2

Spec == Init /\ [][Next]_vars

\* the task ends, the kernel gives up connecting, a handshake and a read have timeouts
FairSpec == Spec /\ WF_vars(Connecting \/ Http1 \/ Http2)

-----------------------------------------------------------------------------
(* Properties *)

TypeOK ==
    /\ phase \in {"start", "resolving", "connecting", "handshake", "writing", "reading", "greeting",
                  "request", "frames", "done", "crashed"}
    /\ sock \in {"none", "client", "program", "closed"}
    /\ reader_ \in {"head", "length", "chunked"}
    /\ \A i \in DOMAIN settled : settled[i].what \in {"resolved", "rejected"}

Http1Answered == headers_stream_ # <<>>
HasInterim == Interrupted(answer)
HasOpenEnd == answer[1] = Token("head", 0)

\* then() gets the body the server sent, however TCP cut it, and over HTTP/2 too.  Of a
\* body that only ends with the connection it gets a beginning.  Not promised when an
\* interim answer came first, which is taken for the answer, or when the head came in
\* several reads and the end of it with a part of the body.
BodyExact ==
    \A i \in DOMAIN settled :
        settled[i].what = "resolved" /\ ~garbled /\ ~(Http1Answered /\ HasInterim)
            => \/ settled[i].body = Sent(answer)
               \/ Http1Answered /\ HasOpenEnd /\ IsPrefix(settled[i].body, Sent(answer))

\* fetch() settles once, except over HTTP/2, where the connection is read on after the
\* answer and its end is told as well: then() is called, and otherwise() after it.
SettlesOnce ==
    Len(settled) > 1 =>
        ~Http1Answered /\ Len(settled) = 2 /\ settled[1].what = "resolved" /\ settled[2].what = "rejected"

\* fetch() settles, and lets go of its connection, whatever fails on the way: except for
\* a certificate that is refused, and undefined behaviour.
SettlesAndCloses ==
    phase # "start" ~> \/ settled # <<>> /\ (sock # "client" \/ unverified)
                       \/ phase = "crashed"
=============================================================================
