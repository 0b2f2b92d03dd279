------------------------- MODULE Http2Conversation -------------------------
(***************************************************************************)
(* One HTTP/2 connection of prio::http_server: Http2Conversation           *)
(* (libraries/prio-http/src/http2_conversation.cpp) and its                *)
(* http2_server_session with a stream object for each request (http2.cpp), *)
(* on an SslConnection.  nghttp2 is external: it tells of headers, of the  *)
(* end of a request and of the end of a stream, and gives send() the       *)
(* frames that flow control lets go, of all streams.                       *)
(*                                                                         *)
(* A read is pending nearly always, and each stream may begin a write.     *)
(* SslConnection has one event for all of them (see Connection): where a   *)
(* write has to wait for the socket beside another operation, one of them  *)
(* is lost, and the model stops.  It stops too where a connection is used  *)
(* after close(), which frees its SSL.                                     *)
(***************************************************************************)
EXTENDS Naturals, FiniteSets

CONSTANTS
    Stream,                 \* the streams the client opens
    MaxSize,                \* bound: the size of a response body
    Window,                 \* the flow control window of a stream
    MaxUpdates              \* bound: window updates for a stream

VARIABLES
    size,                   \* of the body each handler answers with
    gone,                   \* the client has gone
    \* the conversation
    open,                   \* con_ is open
    self_,
    reading,                \* the read of schedule_read() is pending
    writes,                 \* the writes of send(), by who waits for them
    \* per stream
    peer,                   \* the client's half of the stream
    live,                   \* it is in streams_, nghttp2 has it
    handler,                \* the handler, then the flush of its response
    resp,                   \* the response with nghttp2
    body,                   \* what of res.body() is to be sent
    window, updates,
    \* history
    got, ended,             \* what the client has been sent of the body, and its end
    flaw                    \* why the model stopped

conversation == <<open, self_, reading, writes>>
sending == <<resp, body, window, got, ended>>
vars == <<size, gone, conversation, peer, live, handler, sending, updates, flaw>>

\* Who waits for a write: on(), recv(), or the flush of a stream
Who == {"hello", "recv"} \union Stream

\* "tick": the socket took it all, the promise is resolved by a tick
Writes == {"none", "tick", "waits"}

Init ==
    /\ size \in [Stream -> 0 .. MaxSize]
    /\ gone = FALSE
    /\ open = TRUE /\ self_ = TRUE /\ reading = FALSE
    /\ \E how \in {"tick", "waits"} : writes = [w \in Who |-> IF w = "hello" THEN how ELSE "none"]
    /\ peer = [s \in Stream |-> "idle"]
    /\ live = [s \in Stream |-> FALSE]
    /\ handler = [s \in Stream |-> "none"]
    /\ resp = [s \in Stream |-> "none"]
    /\ body = [s \in Stream |-> 0]
    /\ window = [s \in Stream |-> Window]
    /\ updates = [s \in Stream |-> 0]
    /\ got = [s \in Stream |-> 0]
    /\ ended = [s \in Stream |-> FALSE]
    /\ flaw = "none"

Works == flaw = "none"

Waiting == {w \in Who : writes[w] = "waits"}

-----------------------------------------------------------------------------
(* Sending *)

\* nghttp2_session_mem_send() until there is no more: how much of a body goes, and
\* whether that is its end
Going(r, b, v, s) == IF r[s] # "sending" THEN 0 ELSE IF b[s] < v[s] THEN b[s] ELSE v[s]
Ending(r, b, v, s) == r[s] = "sending" /\ v[s] > 0 /\ b[s] <= v[s]

\* http2_session::send() for w, with the responses r and bodies b, the windows v and the
\* streams l; m says that there is more to send than responses.  A stream that has
\* ended is closed and leaves streams_.  With nothing to send, Resolved.
Send(w, r, b, v, l, m, Resolved) ==
    LET end == {s \in Stream : Ending(r, b, v, s)}
    IN  /\ got' = [s \in Stream |-> got[s] + Going(r, b, v, s)]
        /\ body' = [s \in Stream |-> b[s] - Going(r, b, v, s)]
        /\ window' = [s \in Stream |-> v[s] - Going(r, b, v, s)]
        /\ ended' = [s \in Stream |-> ended[s] \/ s \in end]
        /\ resp' = [s \in Stream |-> IF s \in end THEN "ended" ELSE r[s]]
        /\ live' = [s \in Stream |-> l[s] /\ s \notin end]
        /\ IF ~m /\ end = {} /\ \A s \in Stream : Going(r, b, v, s) = 0
           THEN Resolved
           ELSE \E how \in {"tick", "waits"} :
                  /\ writes' = [writes EXCEPT ![w] = how]
                  /\ flaw' = IF ~open THEN "closed"
                             ELSE IF Waiting # {} \/ (how = "waits" /\ reading') THEN "jam"
                             ELSE "none"

\* schedule_read(), when the write of w has ended
ScheduleRead(w) ==
    /\ reading' = TRUE
    /\ flaw' = IF ~open THEN "closed" ELSE IF Waiting \ {w} # {} THEN "jam" ELSE "none"

-----------------------------------------------------------------------------
(* Receiving *)

\* http2_session::recv: a frame is taken, then all is sent that can be, then the next read
Recv(r, v, l) ==
    \E control \in BOOLEAN :
        /\ reading' \in BOOLEAN
        /\ Send("recv", r, body, v, l, control, reading' /\ UNCHANGED <<writes, flaw>>)
        /\ reading' => writes' = writes

Receives == Works /\ open /\ reading /\ ~gone

Receiving == UNCHANGED <<size, gone, open, self_>>

\* on_begin_headers_callback: the stream object is made
BeginHeaders(s) ==
    /\ Receives /\ peer[s] = "idle"
    /\ peer' = [peer EXCEPT ![s] = "sending"]
    /\ Recv(resp, window, [live EXCEPT ![s] = TRUE])
    /\ UNCHANGED <<handler, updates>> /\ Receiving

\* on_frame_recv_callback, END_STREAM, and on_request_recv: the handler is called
RequestRecv(s) ==
    /\ Receives /\ peer[s] = "sending"
    /\ peer' = [peer EXCEPT ![s] = "sent"]
    /\ handler' = [handler EXCEPT ![s] = "busy"]
    /\ Recv(resp, window, live)
    /\ UNCHANGED updates /\ Receiving

\* on_stream_close_callback: the client has reset the stream, whose object goes if no
\* flush holds it
StreamClose(s) ==
    /\ Receives /\ live[s]
    /\ peer' = [peer EXCEPT ![s] = "reset"]
    /\ Recv([resp EXCEPT ![s] = "none"], window, [live EXCEPT ![s] = FALSE])
    /\ UNCHANGED <<handler, updates>> /\ Receiving

\* nghttp2 takes up a response that flow control had stopped
WindowUpdate(s) ==
    /\ Receives /\ live[s] /\ updates[s] < MaxUpdates
    /\ updates' = [updates EXCEPT ![s] = @ + 1]
    /\ Recv(resp, [window EXCEPT ![s] = @ + 1], live)
    /\ UNCHANGED <<peer, handler>> /\ Receiving

ClientGoes ==
    /\ ~gone
    /\ gone' = TRUE
    /\ UNCHANGED <<size, conversation, peer, live, handler, sending, updates, flaw>>

-----------------------------------------------------------------------------
(* The end *)

\* onRequestError: close() cancels what waits for the event, with all that its closures
\* hold; ticks still come.  The read may be such a tick.  h: the handlers
OnRequestError(h, w) ==
    /\ open' = FALSE /\ self_' = FALSE
    /\ reading' \in {FALSE, reading}
    /\ writes' = [x \in Who |-> IF x # w /\ writes[x] = "tick" THEN "tick" ELSE "none"]
    /\ handler' = [s \in Stream |-> IF s # w /\ writes[s] = "waits" THEN "lost" ELSE h[s]]

\* end of file, a reset, a timeout
ReadFails ==
    /\ Works /\ reading
    /\ reading' = FALSE
    /\ OnRequestError(handler, "read")
    /\ UNCHANGED <<size, gone, peer, live, sending, updates, flaw>>

\* The tick of a read that was still to come when the connection was closed: recv() and
\* schedule_read() on it
ReadAfterClose ==
    /\ Works /\ reading /\ ~open
    /\ flaw' = "closed"
    /\ UNCHANGED <<size, gone, conversation, peer, live, handler, sending, updates>>

-----------------------------------------------------------------------------
(* Answering *)

\* res.flush(): the stream is looked up and held, its flusheaders_func called.  A handler
\* whose stream has gone has nothing to flush: its response is gone too.
Flush(s) ==
    /\ Works /\ handler[s] = "busy"
    /\ handler' = [handler EXCEPT ![s] = IF live[s] /\ self_ THEN "hook" ELSE "gone"]
    /\ UNCHANGED <<size, gone, conversation, peer, live, sending, updates, flaw>>

\* Slip: the stream is reset when its response is with nghttp2.
HookDone_Reset(s) ==
    /\ Works /\ handler[s] = "hook"
    /\ IF live[s]
       THEN /\ handler' = [handler EXCEPT ![s] = "write"]
            /\ UNCHANGED reading
            /\ Send(s, [resp EXCEPT ![s] = "sending"], [body EXCEPT ![s] = 0], window, live, TRUE, TRUE)
       ELSE /\ handler' = [handler EXCEPT ![s] = "done"]
            /\ UNCHANGED <<reading, writes, flaw, sending, live>>
    /\ UNCHANGED <<size, gone, open, self_, peer, updates>>

\* Http2Conversation::flush after the hook: the response is handed to nghttp2, if the
\* stream is still there, and sent
HookDone(s) ==
    /\ Works /\ handler[s] = "hook"
    /\ IF live[s]
       THEN /\ handler' = [handler EXCEPT ![s] = "write"]
            /\ UNCHANGED reading
            /\ Send(s, [resp EXCEPT ![s] = "sending"], [body EXCEPT ![s] = size[s]], window, live, TRUE, TRUE)
       ELSE /\ handler' = [handler EXCEPT ![s] = "done"]
            /\ UNCHANGED <<reading, writes, flaw, sending, live>>
    /\ UNCHANGED <<size, gone, open, self_, peer, updates>>

\* ... which nobody does if the promise of the hook is rejected
HookFails(s) ==
    /\ Works /\ handler[s] = "hook"
    /\ handler' = [handler EXCEPT ![s] = "stuck"]
    /\ UNCHANGED <<size, gone, conversation, peer, live, sending, updates, flaw>>

\* Slip: after the write of recv() nothing is read any more.
WriteDone_NoRead(w) ==
    /\ Works /\ writes[w] # "none"
    /\ writes' = [writes EXCEPT ![w] = "none"]
    /\ IF w \in Stream
       THEN /\ handler' = [handler EXCEPT ![w] = "done"]
            /\ body' = [body EXCEPT ![w] = 0]
       ELSE UNCHANGED <<handler, body>>
    /\ IF w = "hello" THEN ScheduleRead(w) ELSE UNCHANGED <<reading, flaw>>
    /\ UNCHANGED <<size, gone, open, self_, peer, live, resp, window, got, ended, updates>>

\* A write has ended: the next read; or completion_func, and stream->reset(), which takes
\* the body away even from a response that flow control has stopped.
WriteDone(w) ==
    /\ Works /\ writes[w] # "none"
    /\ writes' = [writes EXCEPT ![w] = "none"]
    /\ IF w \in Stream
       THEN /\ handler' = [handler EXCEPT ![w] = "done"]
            /\ body' = [body EXCEPT ![w] = 0]
            /\ UNCHANGED <<reading, flaw>>
       ELSE ScheduleRead(w) /\ UNCHANGED <<handler, body>>
    /\ UNCHANGED <<size, gone, open, self_, peer, live, resp, window, got, ended, updates>>

WriteFails(w) ==
    /\ Works /\ writes[w] # "none"
    /\ OnRequestError([s \in Stream |-> IF s = w THEN "done" ELSE handler[s]], w)
    /\ body' = [s \in Stream |-> IF s = w THEN 0 ELSE body[s]]
    /\ UNCHANGED <<size, gone, peer, live, resp, window, got, ended, updates, flaw>>

-----------------------------------------------------------------------------
Frame == \E s \in Stream : BeginHeaders(s) \/ RequestRecv(s) \/ StreamClose(s) \/ WindowUpdate(s)

FlushStep(s) == Flush(s) \/ HookDone(s) \/ HookFails(s)

Writing == \E w \in Who : WriteDone(w) \/ WriteFails(w)

Next ==
    \/ Frame \/ ClientGoes
    \/ ReadFails \/ ReadAfterClose
    \/ Writing
    \/ \E s \in Stream : FlushStep(s)

Spec == Init /\ [][Next]_vars

\* writes end, handlers flush and hooks settle; a read fails when the client has gone
Fairness ==
    /\ WF_vars(Writing)
    /\ WF_vars(gone /\ (ReadFails \/ ReadAfterClose))
    /\ \A s \in Stream : WF_vars(FlushStep(s))

FairSpec == Spec /\ Fairness

-----------------------------------------------------------------------------
(* Properties *)

TypeOK ==
    /\ writes \in [Who -> Writes]
    /\ peer \in [Stream -> {"idle", "sending", "sent", "reset"}]
    /\ handler \in [Stream -> {"none", "busy", "hook", "write", "done", "lost", "stuck", "gone"}]
    /\ resp \in [Stream -> {"none", "sending", "ended"}]
    /\ body \in [Stream -> 0 .. MaxSize] /\ got \in [Stream -> 0 .. MaxSize]
    /\ window \in [Stream -> 0 .. Window + MaxUpdates]

\* A client that is told the end of a response has all of its body, whichever write took
\* its frames along: if the body fits into the window.  Of one that does not, what is
\* left is taken away when the first write ends.
ResponseWhole == \A s \in Stream : ended[s] /\ size[s] <= Window => got[s] = size[s]

\* A request is answered, unless the client resets it or goes, the connection fails, the
\* hook does, or the body does not fit into the window.
RequestAnswered ==
    \A s \in Stream :
        handler[s] = "busy" ~> \/ ended[s] \/ peer[s] = "reset" \/ ~open \/ ~Works
                               \/ handler[s] = "stuck" \/ size[s] > Window

Held == self_ \/ reading \/ (\E w \in Who : writes[w] # "none") \/ (\E s \in Stream : handler[s] = "hook")

\* When the client has gone, the conversation goes too.
NoLeak == gone ~> ~Held \/ ~Works
=============================================================================
