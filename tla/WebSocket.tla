----------------------------- MODULE WebSocket -----------------------------
(***************************************************************************)
(* reproweb::WsConnection (libraries/repro-web/src/websocket.cpp): one end *)
(* of a websocket that reads frames piece by piece, puts messages together *)
(* for onMsg_, and writes the messages of send(), one at a time.           *)
(*                                                                         *)
(* The connection underneath is a TcpConnection or an SslConnection, of    *)
(* which two things matter here: cancel() forgets what an unfinished       *)
(* read(n) has already taken, and an SslConnection that has the bytes at   *)
(* once settles the read by nextTick(), which cancel() does not undo.      *)
(*                                                                         *)
(* The peer sends well-formed frames; their bytes are pieces <<frame,      *)
(* part>>.  When a read starts at a piece that it is not meant for, the    *)
(* stream is out of step (garbled) and the websocket reads on: the bytes   *)
(* are then taken for any header, any mask bit, any length, any payload.   *)
(***************************************************************************)
EXTENDS Naturals, Sequences, SequencesExt

CONSTANTS
    Classes,                \* the connections the websocket may run on: "tcp", "ssl"
    NFrames,                \* how many frames the peer sends
    MaxSize,                \* bound: pieces of the payload of a frame
    MaxSends,               \* bound, for each class: calls of send() by the program
    Scripts                 \* for each class: what the peer may have to send

ASSUME WebSocketAssumption ==
    Classes \subseteq {"tcp", "ssl"} /\ NFrames \in Nat /\ MaxSize \in Nat

VARIABLES
    \* the peer and the connection
    script,                 \* the frames the peer sends
    class, isClient_,       \* one of Classes; which end this is
    sent, gone,             \* pieces sent so far; the peer has closed
    taken,                  \* pieces taken out of the connection
    rd,                     \* the read that waits for its event
    ticks,                  \* nextTick()s that settle a read or a write
    writing,                \* an SSL write waits for its event
    \* WsConnection
    con_, self_, pending_,
    opcode_, fin_,
    frame,                  \* the frame that is being read
    msg_,                   \* its payload pieces, by frame
    msgs_to_send_,          \* how many messages wait to be written
    \* history
    sends,                  \* calls of send() by the program
    delivered,              \* what onMsg_ was called with
    closes,                 \* how often onClose_ was called
    silent,                 \* a read failed in the middle of a frame
    cut,                    \* a send() cancelled a header that was half read
    garbled                 \* the stream is out of step

peer == <<script, class, isClient_, sent, gone>>
io == <<taken, rd, ticks, writing>>
parsing == <<opcode_, fin_, frame>>
ws == <<con_, self_, pending_, parsing, msg_, msgs_to_send_>>
history == <<sends, delivered, closes, silent, cut>>
wsVars == <<peer, io, ws, history, garbled>>

Frame == [op : {"text", "cont", "ping", "close"}, fin : BOOLEAN, size : 0 .. MaxSize, long : BOOLEAN]

ASSUME ScriptAssumption ==
    \A c \in Classes : MaxSends[c] \in Nat /\ Scripts[c] \subseteq [1 .. NFrames -> Frame]

\* after its first k frames s is in the middle of a message
Open(s, k) ==
    LET data == {j \in 1 .. k : s[j].op \in {"text", "cont"}}
    IN  data # {} /\ ~s[CHOOSE j \in data : \A m \in data : m <= j].fin

\* the frames of a peer that keeps to the protocol
WellFormed(s) ==
    /\ \A k \in DOMAIN s :
          /\ s[k].op = "cont" => Open(s, k - 1)
          /\ s[k].op = "text" => ~Open(s, k - 1)
          /\ s[k].op \in {"ping", "close"} => s[k].fin
          /\ s[k].op = "close" => s[k].size = 0 /\ k = NFrames
          /\ s[k].long => s[k].size = MaxSize
    /\ Open(s, NFrames) => s[NFrames].op = "close"

Pieces(i) ==
    <<<<i, "header">>, <<i, "header2">>>>
    \o (IF script[i].long THEN <<<<i, "len">>>> ELSE <<>>)
    \o (IF isClient_ THEN <<>> ELSE <<<<i, "mask">>>>)
    \o [k \in 1 .. script[i].size |-> <<i, "payload">>]

Bytes == FlattenSeq([i \in 1 .. NFrames |-> Pieces(i)])

Least(a, b) == IF a < b THEN a ELSE b
NoRead == [part |-> "none", want |-> 0, at |-> 0]
Tick(what, part, at) == [what |-> what, part |-> part, at |-> at]

\* What the websocket makes of the bytes it has read: what the peer meant by them or,
\* out of step, anything.  NoFrame stands for the bytes of no frame.
NoFrame == 0
FrameAt(at) == IF garbled THEN NoFrame ELSE Bytes[at + 1][1]
Headers(i) == IF i = NoFrame THEN Frame ELSE {script[i]}
Masks == IF garbled THEN BOOLEAN ELSE {~isClient_}
Sizes == IF garbled THEN 0 .. MaxSize ELSE {script[frame].size}
Payload == IF garbled THEN <<NoFrame>> ELSE [k \in 1 .. script[frame].size |-> frame]

\* nothing is read yet: run() comes first
WsInit ==
    /\ class \in Classes /\ isClient_ \in BOOLEAN
    /\ script \in {s \in Scripts[class] : WellFormed(s)}
    /\ sent = 0 /\ gone = FALSE /\ taken = 0
    /\ rd = NoRead /\ ticks = <<Tick("run", "none", 0)>> /\ writing = FALSE
    /\ con_ = TRUE /\ self_ = TRUE /\ pending_ = FALSE
    /\ opcode_ = "none" /\ fin_ = FALSE /\ frame = 0
    /\ msg_ = <<>> /\ msgs_to_send_ = 0
    /\ sends = 0 /\ delivered = <<>> /\ closes = 0
    /\ silent = FALSE /\ cut = FALSE /\ garbled = FALSE

-----------------------------------------------------------------------------
(* The peer *)

PeerSends ==
    /\ ~gone /\ sent < Len(Bytes)
    /\ sent' = sent + 1
    /\ UNCHANGED <<script, class, isClient_, gone, io, ws, history, garbled>>

PeerGoes ==
    /\ ~gone
    /\ gone' = TRUE
    /\ UNCHANGED <<script, class, isClient_, sent, io, ws, history, garbled>>

-----------------------------------------------------------------------------
(* con_->read(n), con_->write(), con_->cancel() *)

\* Begin(part, n, from, t, r, w): read n pieces from where the connection stands, with
\* the ticks t pending, r the read that waits besides and w telling whether a write
\* does.  A TcpConnection waits for its event in any case; an SslConnection looks at
\* once, and has one event for all that wait.
Begin(part, n, from, t, r, w) ==
    LET there == Least(n, sent - from)
        now == class = "ssl" /\ there = n /\ n > 0
        never == class = "ssl" /\ ((there < n /\ gone) \/ (n = 0 /\ (sent > from \/ gone)))
        taking == IF class = "ssl" THEN there ELSE 0
    IN  /\ taken' = from + taking
        /\ rd' = IF now \/ never THEN r ELSE [part |-> part, want |-> n - taking, at |-> from]
        /\ ticks' = IF now THEN Append(t, Tick("read", part, from))
                    ELSE IF never THEN Append(t, Tick("unread", part, from)) ELSE t
        /\ writing' = (w /\ (now \/ never))
        /\ garbled' = (garbled \/ (from < Len(Bytes) /\ n > 0 /\ Bytes[from + 1][2] # part))

\* con_->write(): done, or not possible, at once; or an SSL write waits
Write(t) ==
    \/ \E what \in {"wrote", "unwritten"} : ticks' = Append(t, Tick(what, "none", 0)) /\ writing' = FALSE
    \/ class = "ssl" /\ ticks' = t /\ writing' = TRUE

-----------------------------------------------------------------------------
(* Sending *)

\* Slip: the read of the next frame is not cancelled.
SendMsg_NoCancel(q, from, t) ==
    IF ~con_
    THEN /\ taken' = from /\ ticks' = t /\ pending_' = FALSE
         /\ UNCHANGED <<rd, writing, msgs_to_send_, garbled>>
    ELSE IF q = 0
    THEN /\ Begin("header", 2, from, t, NoRead, FALSE)
         /\ pending_' = FALSE /\ msgs_to_send_' = 0
    ELSE /\ Write(t)
         /\ pending_' = TRUE /\ msgs_to_send_' = q - 1
         /\ taken' = from /\ UNCHANGED <<rd, garbled>>

\* send_msg() while nothing is pending: cancel, then write the first of the q
\* messages that wait, or read the next frame.  Without con_ nothing is queued or sent.
SendMsg(q, from, t) ==
    IF ~con_
    THEN /\ taken' = from /\ ticks' = t /\ pending_' = FALSE
         /\ UNCHANGED <<rd, writing, msgs_to_send_, garbled>>
    ELSE IF q = 0
    THEN /\ Begin("header", 2, from, t, NoRead, FALSE)
         /\ pending_' = FALSE /\ msgs_to_send_' = 0
    ELSE /\ Write(t)
         /\ pending_' = TRUE /\ msgs_to_send_' = q - 1
         /\ taken' = from /\ rd' = NoRead /\ UNCHANGED garbled

\* run(): onConnect_, which may send(), and then send_msg()
Run(t) ==
    /\ \E first \in 0 .. Least(1, MaxSends[class]) :
          sends' = first /\ SendMsg(first, taken, t)
    /\ UNCHANGED <<peer, con_, self_, parsing, msg_, delivered, closes, silent, cut>>

\* send(), and close() which sends a message too
Send ==
    /\ con_ /\ sends < MaxSends[class]
    /\ \A k \in DOMAIN ticks : ticks[k].what # "run"
    /\ sends' = sends + 1
    /\ cut' = (cut \/ (~pending_ /\ rd # NoRead /\ taken > rd.at))
    /\ IF pending_
       THEN msgs_to_send_' = msgs_to_send_ + 1 /\ UNCHANGED <<io, pending_, garbled>>
       ELSE SendMsg(msgs_to_send_ + 1, taken, ticks)
    /\ UNCHANGED <<peer, con_, self_, parsing, msg_, delivered, closes, silent>>

\* Slip: the next message is not looked for.
WriteDone_NoNext(t) ==
    /\ IF con_
       THEN Begin("header", 2, taken, t, NoRead, FALSE) /\ pending_' = FALSE
       ELSE pending_' = FALSE /\ ticks' = t /\ writing' = FALSE /\ UNCHANGED <<taken, rd, garbled>>
    /\ UNCHANGED <<peer, con_, self_, parsing, msg_, msgs_to_send_, history>>

\* the promise of a write is settled, either way: pending_ = false; send_msg()
WriteDone(t) ==
    /\ SendMsg(msgs_to_send_, taken, t)
    /\ UNCHANGED <<peer, con_, self_, parsing, msg_, history>>

-----------------------------------------------------------------------------
(* Receiving: a read is settled, the connection stands at from, the ticks t wait *)

\* the read that waits besides the one that is settled
OtherRead == IF ticks = <<>> THEN NoRead ELSE rd

\* the rest of the frame; con_->read() without con_ (out of step, on an SslConnection,
\* after dispose()) is the end of the program
Reads(part, n, from, t) ==
    /\ con_
    /\ Begin(part, n, from, t, OtherRead, writing)
    /\ UNCHANGED <<con_, self_, msg_, msgs_to_send_, history>>

\* read_len() is through: read_mask() or read_msg()
LenRead(size, from, t) ==
    \E mask \in Masks :
        IF mask THEN Reads("mask", 1, from, t) ELSE Reads("payload", size, from, t)

\* Slip: con_ is let go without cancel() and close().
Dispose_NoCancel(from, t) ==
    /\ closes' = closes + 1
    /\ con_' = FALSE /\ self_' = FALSE
    /\ taken' = from /\ writing' = FALSE /\ ticks' = t
    /\ UNCHANGED <<rd, msg_, msgs_to_send_, sends, delivered, silent, cut, garbled>>

\* onClose_; dispose()
Dispose(from, t) ==
    /\ closes' = closes + 1
    /\ con_' = FALSE /\ self_' = FALSE
    /\ taken' = from /\ rd' = NoRead /\ writing' = FALSE /\ ticks' = t
    /\ UNCHANGED <<msg_, msgs_to_send_, sends, delivered, silent, cut, garbled>>

\* the two bytes of read_frame(): a "cont" keeps the opcode of the frame before
HeaderRead(i, from, t) ==
    \E f \in Headers(i) :
        /\ pending_' = TRUE /\ frame' = i /\ fin_' = f.fin
        /\ opcode_' = IF f.op = "cont" THEN opcode_ ELSE f.op
        /\ IF opcode_' = "close" THEN Dispose(from, t)
           ELSE IF f.long THEN Reads("len", 1, from, t) ELSE LenRead(f.size, from, t)

\* Slip: msg_ is not cleared.
OnDone_Keep(m, from, t) ==
    /\ \E reply \in 0 .. Least(1, MaxSends[class] - sends) :
          sends' = sends + reply /\ SendMsg(msgs_to_send_ + reply, from, t)
    /\ msg_' = m /\ delivered' = Append(delivered, m)
    /\ UNCHANGED <<con_, self_, closes, silent, cut>>

\* onDone() with the message m: answer a PING, or hand m to onMsg_, which may send()
OnDone(m, from, t) ==
    /\ IF opcode_ = "ping"
       THEN /\ SendMsg(msgs_to_send_ + 1, from, t)
            /\ msg_' = m /\ UNCHANGED <<sends, delivered>>
       ELSE /\ \E reply \in 0 .. Least(1, MaxSends[class] - sends) :
                  sends' = sends + reply /\ SendMsg(msgs_to_send_ + reply, from, t)
            /\ msg_' = <<>> /\ delivered' = Append(delivered, m)
    /\ UNCHANGED <<con_, self_, closes, silent, cut>>

\* the payload of read_msg(): the message is complete, or read_frame() again
PayloadRead(from, t) ==
    LET m == msg_ \o Payload
    IN  IF fin_
        THEN OnDone(m, from, t)
        ELSE /\ IF con_ THEN Begin("header", 2, from, t, OtherRead, writing)
                ELSE taken' = from /\ ticks' = t /\ UNCHANGED <<rd, writing, garbled>>
             /\ pending_' = FALSE /\ msg_' = m
             /\ UNCHANGED <<con_, self_, msgs_to_send_, history>>

ReadDone(part, at, from, t) ==
    /\ \/ part = "header" /\ HeaderRead(FrameAt(at), from, t)
       \/ /\ part \in {"len", "mask"}
          /\ \E size \in Sizes :
                IF part = "len" THEN LenRead(size, from, t) ELSE Reads("payload", size, from, t)
          /\ UNCHANGED <<pending_, parsing>>
       \/ part = "payload" /\ PayloadRead(from, t) /\ UNCHANGED parsing
    /\ UNCHANGED peer

\* Slip: the end of the stream between two frames is only noted.
ReadFailed_NoClose(part, t) ==
    /\ pending_' = FALSE /\ rd' = NoRead /\ ticks' = t
    /\ UNCHANGED <<peer, parsing, taken, writing, con_, self_, msg_, msgs_to_send_, history, garbled>>

\* A read fails.  Only that of a header ends the connection; the others do what they
\* do to pending_ and self_, and no more.
ReadFailed(part, t) ==
    /\ pending_' = (part = "mask" /\ pending_)
    /\ IF part = "header" THEN Dispose(taken, t)
       ELSE /\ self_' = (part # "payload" /\ self_)
            /\ silent' = TRUE /\ rd' = OtherRead /\ ticks' = t
            /\ UNCHANGED <<taken, writing, con_, msg_, msgs_to_send_, sends, delivered, closes, cut, garbled>>
    /\ UNCHANGED <<peer, parsing>>

-----------------------------------------------------------------------------
(* The event loop *)

\* the event of the read: a read of nothing fails (recv gives 0), and so does one at
\* the end of the stream
Readable ==
    /\ ticks = <<>> /\ rd # NoRead
    /\ sent > taken \/ gone
    /\ LET got == Least(rd.want, sent - taken)
       IN  \/ got = 0 /\ ReadFailed(rd.part, ticks)
           \/ got > 0 /\ got = rd.want /\ ReadDone(rd.part, rd.at, taken + got, ticks)
           \/ /\ got > 0 /\ got < rd.want
              /\ taken' = taken + got /\ rd' = [rd EXCEPT !.want = @ - got]
              /\ UNCHANGED <<peer, ticks, writing, ws, history, garbled>>

\* rw_timeout_s; an SslConnection has none that works
ReadTimeout ==
    /\ class = "tcp" /\ ticks = <<>> /\ rd # NoRead
    /\ ReadFailed(rd.part, ticks)

NextTick ==
    /\ ticks # <<>>
    /\ LET k == Head(ticks)
           t == Tail(ticks)
       IN  \/ k.what = "run" /\ Run(t)
           \/ k.what = "read" /\ ReadDone(k.part, k.at, taken, t)
           \/ k.what = "unread" /\ ReadFailed(k.part, t)
           \/ k.what \in {"wrote", "unwritten"} /\ WriteDone(t)

\* the event of an SSL write, after which it is done or failed
Writable == ticks = <<>> /\ writing /\ WriteDone(ticks)

-----------------------------------------------------------------------------
Loop == Readable \/ ReadTimeout \/ NextTick \/ Writable

WsNext == PeerSends \/ PeerGoes \/ Send \/ Loop

WsSpec == WsInit /\ [][WsNext]_wsVars

\* The peer goes on with what it began or goes; the loop serves what is ready.
WsFairness == WF_wsVars(PeerSends) /\ WF_wsVars(Readable) /\ WF_wsVars(NextTick) /\ WF_wsVars(Writable)

WsFairSpec == WsSpec /\ WsFairness

-----------------------------------------------------------------------------
(* Properties *)

WsTypeOK ==
    /\ sent \in 0 .. Len(Bytes) /\ taken \in 0 .. sent /\ gone \in BOOLEAN
    /\ writing \in BOOLEAN /\ con_ \in BOOLEAN /\ self_ \in BOOLEAN /\ pending_ \in BOOLEAN
    /\ opcode_ \in {"none", "text", "ping", "close"} /\ fin_ \in BOOLEAN /\ frame \in 0 .. NFrames
    /\ msgs_to_send_ \in Nat /\ sends \in 0 .. MaxSends[class] /\ closes \in Nat
    /\ silent \in BOOLEAN /\ cut \in BOOLEAN /\ garbled \in BOOLEAN

Writing == writing \/ \E k \in DOMAIN ticks : ticks[k].what \in {"wrote", "unwritten"}

\* pending_ keeps reading and writing apart: on a TcpConnection no frame is read while
\* a message is written, so that the cancel() of send_msg() after the write never
\* forgets a frame that was begun meanwhile.
HalfDuplex == class = "tcp" /\ Writing => rd = NoRead

\* What is said with the frame f, the k-th, after what was said before it: the messages
\* that are whole, and what there is of the next one.
Further(sofar, k, f) ==
    LET m == sofar.begun \o [j \in 1 .. f.size |-> k]
    IN  IF f.op \notin {"text", "cont"} THEN sofar
        ELSE IF f.fin THEN [whole |-> Append(sofar.whole, m), begun |-> <<>>]
        ELSE [whole |-> sofar.whole, begun |-> m]

\* what the first frames of s say
Said(s) ==
    LET said[k \in 0 .. NFrames] ==
          IF k = 0 THEN [whole |-> <<>>, begun |-> <<>>] ELSE Further(said[k - 1], k, s[k])
    IN  said

Messages == Said(script)[NFrames].whole

\* onMsg_ is called with the messages of the peer, in order, each with its whole payload
\* and nothing else, however the frames are cut and whenever send() cancels the read of a
\* header of which nothing is taken yet.  Not so if send() cancels a header that is half
\* read (websocket.cpp:423), after which the websocket reads on out of step; if a PING
\* came (its payload stays in msg_); if a read in the middle of a frame failed and the
\* program goes on to send; or on an SslConnection: a header read that is settled by a
\* tick is not undone by cancel(), and a second one is begun.
MessagesExact ==
    class = "tcp" /\ ~cut /\ ~silent /\ (\A i \in DOMAIN script : script[i].op # "ping") =>
        IsPrefix(delivered, Messages)

\* On a TcpConnection nothing is heard of the websocket after its onClose_; on an
\* SslConnection the second of two header reads calls it again.
QuietAfterClose == [][class = "tcp" /\ closes > 0 => UNCHANGED <<delivered, closes>>]_wsVars

\* read(0) for an empty payload waits until more comes
EmptyRead == rd.part = "payload" /\ rd.want = 0

\* A message that waits in msgs_to_send_, because a frame was being read or another
\* message written, or a write failed, is written in the end.  Not so while read(0) waits,
\* after a read that failed in the middle of a frame, or out of step, where the websocket
\* may wait for the rest of a frame that nobody sends.
SendsGoOut == msgs_to_send_ > 0 ~> (msgs_to_send_ = 0 \/ ~con_ \/ EmptyRead \/ silent \/ garbled)

\* When the peer has gone the program is told, whatever the websocket was doing, except
\* in the middle of a frame.
CloseIsTold == gone ~> (closes > 0 \/ silent)
=============================================================================
