-------------------------- MODULE HttpConversation --------------------------
(***************************************************************************)
(* One connection of prio::http_server: HttpConversation (libraries/       *)
(* prio-http/src/conversation.cpp) with the readers and writers it swaps   *)
(* in and out (server_reader.cpp, server_writer.cpp), the handler that     *)
(* answers each request in its own time, and the client.                   *)
(*                                                                         *)
(* What the conversation does next is decided by which promise it waits    *)
(* for: a read, a write, or the hook that runs before headers are flushed. *)
(* A message is the sequence of its pieces <<request, kind>>; TCP may cut  *)
(* it anywhere.  The client sends one request at a time: the code drops    *)
(* what follows a request in the same read.  The handler does not use a    *)
(* response whose conversation is gone.                                    *)
(***************************************************************************)
EXTENDS Naturals, Sequences, SequencesExt

CONSTANTS
    NRequests,              \* how many requests the client sends
    MaxBody,                \* bound: pieces of a request body
    MaxChunks               \* bound: calls of res.chunk() for one request

Request == 1 .. NRequests

VARIABLES
    \* the client
    size, keep, expect,     \* per request: body pieces, keep-alive, "Expect: 100-continue"
    sending,                \* the request the client is at
    left,                   \* pieces of it not sent yet
    gone,                   \* the client closed the connection
    wire,                   \* pieces on their way to the server
    out,                    \* pieces the server has written
    \* the conversation
    alive,                  \* self_ holds it
    await,                  \* the promise it waits for
    reader_,                \* the reader in place: "header" or "body"
    stream_,                \* what that reader has collected
    writer_,                \* the writer in place: "plain" or "chunked"
    chunks_, writing_, done_,
    cur,                    \* the request the reader has parsed
    keep_alive_,
    headersSent_,           \* of res
    handler,                \* the handler: "none", "busy", or "flushed" its response
    nchunks,                \* calls of res.chunk() for this response
    seen,                   \* history: the body each request was dispatched with
    stuck                   \* history: a promise was rejected that nobody looks at

client == <<size, keep, expect, sending, left, gone>>
reading == <<reader_, stream_, cur, keep_alive_, seen>>
chunking == <<writer_, chunks_, writing_, done_, headersSent_, nchunks>>
vars == <<client, wire, out, alive, await, reading, chunking, handler, stuck>>

Head_(i) == <<i, "head">>
End(i) == <<i, "end">>                  \* the piece with the empty line
Body(i) == [k \in 1 .. size[i] |-> <<i, "body">>]
Message(i) == <<Head_(i), End(i)>> \o Body(i)

Await == {"accept", "read", "continue", "none", "hook", "payload"}

Init ==
    /\ size \in [Request -> 0 .. MaxBody]
    /\ keep \in [Request -> BOOLEAN]
    /\ expect \in [Request -> BOOLEAN]
    /\ \A i \in Request : expect[i] => size[i] > 0
    /\ \A i \in Request : i < NRequests => keep[i]
    /\ sending = 0 /\ left = <<>> /\ gone = FALSE /\ wire = <<>> /\ out = <<>>
    /\ alive = TRUE /\ await = "accept"
    /\ reader_ = "header" /\ stream_ = <<>>
    /\ writer_ = "plain" /\ chunks_ = <<>> /\ writing_ = FALSE /\ done_ = FALSE
    /\ cur = 0 /\ keep_alive_ = FALSE /\ headersSent_ = FALSE
    /\ handler = "none" /\ nchunks = 0
    /\ seen = [i \in Request |-> <<>>]
    /\ stuck = FALSE

-----------------------------------------------------------------------------
(* The client *)

\* what closes the response to a request
Answered(i) == \E k \in DOMAIN out : out[k] \in {<<i, "response">>, <<i, "last">>}

ClientBegins ==
    /\ ~gone /\ left = <<>> /\ sending < NRequests
    /\ sending > 0 => Answered(sending)
    /\ sending' = sending + 1
    /\ left' = Message(sending + 1)
    /\ UNCHANGED <<size, keep, expect, gone, wire, out, alive, await, reading, chunking, handler, stuck>>

\* Any number of pieces at once.  With "Expect" the body may, but need not, wait
\* for the "100 Continue".
ClientSends ==
    /\ ~gone
    /\ \E n \in 1 .. Len(left) :
          /\ wire' = wire \o SubSeq(left, 1, n)
          /\ left' = SubSeq(left, n + 1, Len(left))
    /\ UNCHANGED <<size, keep, expect, sending, gone, out, alive, await, reading, chunking, handler, stuck>>

ClientGoes ==
    /\ ~gone
    /\ gone' = TRUE
    /\ UNCHANGED <<size, keep, expect, sending, left, wire, out, alive, await, reading, chunking, handler, stuck>>

-----------------------------------------------------------------------------
(* Ending a request or the conversation *)

\* con_->close(); self_.reset().  Nothing that was under way comes back.
Destroy == alive' = FALSE /\ await' = "none" /\ wire' = <<>>

\* onRequestError(ex): cb_.reject(ex), close, and gone
OnRequestError ==
    /\ Destroy
    /\ UNCHANGED <<client, out, reading, chunking, handler, stuck>>

\* Slip: the next request is read with the body reader of the last one.
FreshReader_Kept == reader_' = reader_ /\ stream_' = <<>>

\* onResponseComplete(): a new reader, unless the connection ends here
FreshReader == reader_' = "header" /\ stream_' = <<>>

FreshWriter ==
    /\ writer_' = "plain" /\ chunks_' = <<>> /\ writing_' = FALSE /\ done_' = FALSE
    /\ headersSent_' = FALSE /\ nchunks' = 0

OnResponseComplete ==
    /\ handler' = "none"
    /\ FreshWriter
    /\ IF keep_alive_
       THEN FreshReader /\ await' = "read" /\ UNCHANGED <<wire, alive>>
       ELSE Destroy /\ UNCHANGED <<reader_, stream_>>
    /\ UNCHANGED <<client, cur, keep_alive_, seen, stuck>>

-----------------------------------------------------------------------------
(* Reading a request *)

\* http_server::onAccept: HttpConversation::on, and its first consume("")
Accept ==
    /\ await = "accept"
    /\ await' = "read"
    /\ UNCHANGED <<client, wire, out, alive, reading, chunking, handler, stuck>>

\* onRequestComplete(b): the handler is called, and may throw
Dispatch(i, b) ==
    /\ keep_alive_' = keep[i]
    /\ seen' = [seen EXCEPT ![i] = b]
    /\ \/ handler' = "busy" /\ await' = "none" /\ UNCHANGED alive
       \/ handler' = "none" /\ await' = "none" /\ alive' = FALSE

More == await' = "read" /\ UNCHANGED <<alive, handler, keep_alive_, seen>>

\* HttpContentLengthBodyReader::consume: body_ is cut at size_
ConsumeBody(i, b) ==
    /\ reader_' = "body"
    /\ stream_' = SubSeq(b, 1, IF Len(b) > size[i] THEN size[i] ELSE Len(b))
    /\ cur' = i
    /\ IF Len(b) >= size[i] THEN Dispatch(i, stream_') ELSE More

\* Slip: a body that came with the headers is forgotten.
OnHeadersComplete_Drop(i, b) ==
    IF size[i] = 0
    THEN Dispatch(i, b) /\ reader_' = reader_ /\ stream_' = <<>> /\ cur' = i
    ELSE ConsumeBody(i, <<>>)

\* onHeadersComplete(b), b what followed the headers
OnHeadersComplete(i, b) ==
    IF size[i] = 0
    THEN Dispatch(i, b) /\ reader_' = reader_ /\ stream_' = <<>> /\ cur' = i
    ELSE IF b = <<>> /\ expect[i]
    THEN /\ reader_' = "body" /\ stream_' = <<>> /\ cur' = i
         /\ await' = "continue"
         /\ UNCHANGED <<alive, handler, keep_alive_, seen>>
    ELSE ConsumeBody(i, b)

\* HttpHeaderReader::consume: collect until the empty line
ConsumeHeaders(s) ==
    LET ends == {k \in DOMAIN s : s[k][2] = "end"}
    IN  IF ends = {}
        THEN stream_' = s /\ More /\ UNCHANGED <<reader_, cur>>
        ELSE LET k == CHOOSE k \in ends : \A e \in ends : k <= e
             IN  OnHeadersComplete(s[k][1], SubSeq(s, k + 1, Len(s)))

\* con_->read() gives some of what is on the wire
Read ==
    /\ alive /\ await = "read"
    /\ \E n \in 1 .. Len(wire) :
          LET s == stream_ \o SubSeq(wire, 1, n)
          IN  /\ wire' = SubSeq(wire, n + 1, Len(wire))
              /\ IF reader_ = "header" THEN ConsumeHeaders(s) ELSE ConsumeBody(cur, s)
    /\ UNCHANGED <<client, out, chunking, stuck>>

\* What a read can time out on: a client between two requests, or in the middle of one
ClientOwes == left # <<>> \/ sending = 0 \/ Answered(sending)

\* Slip: nobody looks at the rejection of the read.
ReadFails_Silent ==
    /\ alive /\ await = "read"
    /\ wire = <<>> /\ (gone \/ ClientOwes)
    /\ await' = "none"
    /\ UNCHANGED <<client, wire, out, alive, reading, chunking, handler, stuck>>

\* con_->read() fails: end of file or a timeout
ReadFails ==
    /\ alive /\ await = "read"
    /\ wire = <<>> /\ (gone \/ ClientOwes)
    /\ OnRequestError

\* "100 Continue" is written, the body reader starts
ContinueWritten ==
    /\ alive /\ await = "continue"
    /\ out' = Append(out, <<cur, "100">>)
    /\ await' = "read"
    /\ UNCHANGED <<client, wire, alive, reading, chunking, handler, stuck>>

\* ... or is not, and nobody looks at that
ContinueFails ==
    /\ alive /\ await = "continue"
    /\ gone
    /\ await' = "none" /\ stuck' = TRUE
    /\ UNCHANGED <<client, wire, out, alive, reading, chunking, handler>>

-----------------------------------------------------------------------------
(* Answering it *)

\* HttpChunkedBodyWriter::chunkResponse, with the chunks c to go
ChunkResponse(c) ==
    IF writing_ \/ c = <<>>
    THEN chunks_' = c /\ UNCHANGED writing_
    ELSE chunks_' = c /\ writing_' = TRUE

\* res.chunk(c) while no flush() was called: the first call puts the chunked writer
\* in place and queues the headers; an empty chunk goes no further.
Chunk(empty) ==
    /\ alive /\ handler = "busy" /\ nchunks < MaxChunks
    /\ nchunks' = nchunks + 1
    /\ headersSent_' = TRUE
    /\ writer_' = "chunked"
    /\ LET queued == chunks_ \o (IF headersSent_ THEN <<>> ELSE <<<<cur, "headers">>>>)
       IN  IF empty THEN chunks_' = queued /\ UNCHANGED writing_
           ELSE ChunkResponse(queued \o <<<<cur, "chunk", nchunks + 1>>>>)
    /\ UNCHANGED <<client, wire, out, alive, await, reading, done_, handler, stuck>>

\* res.flush(): the flusheaders_func_ first
Flush ==
    /\ alive /\ handler = "busy"
    /\ handler' = "flushed"
    /\ await' = "hook"
    /\ UNCHANGED <<client, wire, out, alive, reading, chunking, stuck>>

\* Slip: the writer is flushed as if no chunk were being written.
HookDone_Eager ==
    /\ alive /\ await = "hook"
    /\ headersSent_' = TRUE
    /\ IF writer_ = "chunked"
       THEN /\ done_' = TRUE /\ await' = "none" /\ writing_' = TRUE
            /\ chunks_' = <<<<cur, "last">>>> \o chunks_
       ELSE await' = "payload" /\ UNCHANGED <<done_, chunks_, writing_>>
    /\ UNCHANGED <<client, wire, out, alive, reading, writer_, handler, nchunks, stuck>>

\* ... then writer_->flush(): the whole response after a tick, or the last chunk
HookDone ==
    /\ alive /\ await = "hook"
    /\ headersSent_' = TRUE
    /\ IF writer_ = "chunked"
       THEN /\ done_' = TRUE /\ await' = "none"
            /\ ChunkResponse(Append(chunks_, <<cur, "last">>))
       ELSE await' = "payload" /\ UNCHANGED <<done_, chunks_, writing_>>
    /\ UNCHANGED <<client, wire, out, alive, reading, writer_, handler, nchunks, stuck>>

\* ... which nobody calls if the hook's promise is rejected
HookFails ==
    /\ alive /\ await = "hook"
    /\ await' = "none" /\ stuck' = TRUE
    /\ UNCHANGED <<client, wire, out, alive, reading, chunking, handler>>

\* the write of HttpPlainBodyWriter::flush
PayloadWritten ==
    /\ alive /\ await = "payload"
    /\ out' = Append(out, <<cur, "response">>)
    /\ OnResponseComplete

\* the write of chunkResponse: then the next chunk, or the response is complete
ChunkWritten ==
    /\ alive /\ writing_
    /\ out' = Append(out, Head(chunks_))
    /\ IF Len(chunks_) = 1 /\ done_
       THEN OnResponseComplete
       ELSE /\ chunks_' = Tail(chunks_)
            /\ writing_' = (Len(chunks_) > 1)
            /\ UNCHANGED <<client, wire, alive, await, reading, writer_, done_, headersSent_, nchunks, handler, stuck>>

WriteFails ==
    /\ alive /\ gone
    /\ await = "payload" \/ writing_
    /\ OnRequestError

-----------------------------------------------------------------------------
Client == ClientBegins \/ ClientSends \/ ClientGoes

Io ==
    \/ Accept \/ Read \/ ReadFails \/ ContinueWritten \/ ContinueFails
    \/ HookDone \/ HookFails \/ PayloadWritten \/ ChunkWritten \/ WriteFails

Handler == Flush \/ \E empty \in BOOLEAN : Chunk(empty)

Next == Client \/ Io \/ Handler

Spec == Init /\ [][Next]_vars

\* I/O completes, the handler flushes its response, a client that began a request
\* sends it.  Whether the client goes or begins another one is its own business.
Fairness == WF_vars(Io) /\ WF_vars(Flush) /\ WF_vars(ClientSends) /\ WF_vars(ClientBegins)

FairSpec == Spec /\ Fairness

-----------------------------------------------------------------------------
(* Properties *)

TypeOK ==
    /\ sending \in 0 .. NRequests /\ gone \in BOOLEAN /\ alive \in BOOLEAN
    /\ await \in Await
    /\ reader_ \in {"header", "body"} /\ writer_ \in {"plain", "chunked"}
    /\ writing_ \in BOOLEAN /\ done_ \in BOOLEAN /\ headersSent_ \in BOOLEAN
    /\ cur \in 0 .. NRequests
    /\ handler \in {"none", "busy", "flushed"}
    /\ nchunks \in 0 .. MaxChunks

\* The handler is called with the request the client is at and with its body, no
\* more and no less, however TCP cut the message, whichever reader the last request
\* left behind and whether or not the body waited for "100 Continue".
BodyExact == handler # "none" => cur = sending /\ seen[cur] = Body(cur)

\* What the server writes is a sequence of well-formed responses, in the order of the
\* requests: a "100" only if asked for; then one response, or headers, chunks in the
\* order of the calls, and the last chunk, with nothing after it.
AnswersInOrder ==
    /\ \A k \in DOMAIN out : \A m \in 1 .. k : out[m][1] <= out[k][1]
    /\ \A k \in DOMAIN out :
          /\ out[k][2] \in {"response", "last"} =>
                \A m \in k + 1 .. Len(out) : out[m][1] > out[k][1]
          /\ out[k][2] \in {"chunk", "last"} =>
                \E m \in 1 .. k - 1 : out[m] = <<out[k][1], "headers">>
          /\ out[k][2] \in {"response", "headers"} =>
                \A m \in 1 .. k - 1 : out[m][1] = out[k][1] => out[m][2] = "100"
          /\ out[k][2] = "100" => expect[out[k][1]]
          /\ out[k][2] = "chunk" =>
                \A m \in 1 .. k - 1 : out[m][1] = out[k][1] /\ out[m][2] = "chunk" => out[m][3] < out[k][3]

\* A request that the client has begun is answered, if the client stays, the handler
\* does not throw and the hook before the headers does not fail.
RequestAnswered ==
    \A i \in Request : (sending = i /\ alive) ~> (Answered(i) \/ gone \/ ~alive \/ stuck)

\* When the client is gone, the conversation goes too, from whatever it was doing:
\* except if the promise that was rejected is one that nobody looks at.
NoLeak == gone ~> (~alive \/ stuck)
=============================================================================
