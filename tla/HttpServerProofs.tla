-------------------------- MODULE HttpServerProofs --------------------------
(***************************************************************************)
(* Proofs about HttpServer, for any number of requests, bodies and chunks, *)
(* every set of streams, every size of a response and every window.        *)
(*                                                                         *)
(* HTTP/2.  ResponseWhole looks at a stream that has ended.  What makes it *)
(* true is that a body that fits into the window is never left to a later  *)
(* write: after each send() of the session no such response is still being *)
(* sent (Whole), so that the reset() at the end of a write finds nothing to*)
(* take away, and a stream that has ended is never taken up again.         *)
(*                                                                         *)
(* HTTP/1.1.  BodyExact and AnswersInOrder hang together: the client does  *)
(* not begin a request before the last one is answered, so a response that *)
(* ends too early would let the next message run into this one.  The       *)
(* invariant says, for each thing the conversation may be doing, what is   *)
(* left of the message (Receiving), and what is out of the response and    *)
(* still in the queue of the chunked writer (Handling, Chunking).          *)
(***************************************************************************)
EXTENDS HttpServer, TLAPS, SequenceTheorems

(* HTTP/2 *)

Typed ==
    /\ answer \in [Stream -> Nat] /\ body \in [Stream -> Nat]
    /\ got \in [Stream -> Nat] /\ window \in [Stream -> Nat]
    /\ live \in [Stream -> BOOLEAN] /\ ended \in [Stream -> BOOLEAN]
    /\ resp \in [Stream -> {"none", "sending", "ended"}]
    /\ peer \in [Stream -> {"idle", "sending", "sent", "reset"}]

\* The life of a stream
Life(s) ==
    /\ peer[s] = "idle" => ~live[s] /\ ~ended[s] /\ resp[s] = "none"
    /\ ended[s] => ~live[s] /\ resp[s] # "sending"

\* A body that fits goes at once: the client has all of it, and its end, or nothing.
Whole(s) ==
    answer[s] <= Window =>
        /\ resp[s] # "sending"
        /\ ended[s] => got[s] = answer[s]
        /\ ~ended[s] => got[s] = 0 /\ window[s] >= Window

WholeInv == Typed /\ \A s \in Stream : Life(s) /\ Whole(s)

-----------------------------------------------------------------------------
\* What http2_session::send() does to the streams
Sent(r, b, v, l) ==
    LET end == {s \in Stream : H2!Ending(r, b, v, s)}
    IN  /\ got' = [s \in Stream |-> got[s] + H2!Going(r, b, v, s)]
        /\ body' = [s \in Stream |-> b[s] - H2!Going(r, b, v, s)]
        /\ window' = [s \in Stream |-> v[s] - H2!Going(r, b, v, s)]
        /\ ended' = [s \in Stream |-> ended[s] \/ s \in end]
        /\ resp' = [s \in Stream |-> IF s \in end THEN "ended" ELSE r[s]]
        /\ live' = [s \in Stream |-> l[s] /\ s \notin end]

\* What it is called with: a body that fits is whole when it is handed over, to a stream that
\* has had nothing so far.
Ready(r, b, v, l) ==
    /\ r \in [Stream -> {"none", "sending", "ended"}] /\ l \in [Stream -> BOOLEAN]
    /\ b \in [Stream -> Nat] /\ v \in [Stream -> Nat]
    /\ peer' \in [Stream -> {"idle", "sending", "sent", "reset"}]
    /\ answer' = answer
    /\ \A s \in Stream :
          /\ peer'[s] = "idle" => ~l[s] /\ ~ended[s] /\ r[s] = "none"
          /\ ended[s] => ~l[s] /\ r[s] # "sending"
          /\ answer[s] <= Window =>
                /\ r[s] = "sending" => b[s] = answer[s]
                /\ ~ended[s] => v[s] >= Window

LEMMA SentKeeps ==
    ASSUME WholeInv, NEW r, NEW b, NEW v, NEW l, Sent(r, b, v, l), Ready(r, b, v, l)
    PROVE  WholeInv'
<1>0. Window \in Nat \ {0}
  BY HttpServerAssumption
<1> DEFINE g(s) == H2!Going(r, b, v, s)
           e(s) == H2!Ending(r, b, v, s)
<1>1. ASSUME NEW s \in Stream
      PROVE  /\ g(s) \in Nat /\ g(s) <= b[s] /\ g(s) <= v[s]
             /\ e(s) \in BOOLEAN
             /\ e(s) => r[s] = "sending" /\ g(s) = b[s]
             /\ r[s] # "sending" => g(s) = 0
  BY <1>1 DEF H2!Going, H2!Ending, Ready
<1>2. ASSUME NEW s \in Stream
      PROVE  /\ got'[s] = got[s] + g(s) /\ body'[s] = b[s] - g(s) /\ window'[s] = v[s] - g(s)
             /\ ended'[s] = (ended[s] \/ e(s))
             /\ resp'[s] = IF e(s) THEN "ended" ELSE r[s]
             /\ live'[s] = (l[s] /\ ~e(s))
  BY <1>2 DEF Sent
<1> HIDE DEF g, e
<1>3. Typed'
  <2>1. \A s \in Stream : got[s] + g(s) \in Nat /\ b[s] - g(s) \in Nat /\ v[s] - g(s) \in Nat
    BY <1>1 DEF WholeInv, Typed, Ready
  <2>2. got' \in [Stream -> Nat] /\ body' \in [Stream -> Nat] /\ window' \in [Stream -> Nat]
    BY <2>1 DEF Sent, g
  <2>3. ended' \in [Stream -> BOOLEAN] /\ live' \in [Stream -> BOOLEAN]
    BY DEF Sent
  <2>4. resp' \in [Stream -> {"none", "sending", "ended"}]
    BY DEF Sent, Ready
  <2> QED
    BY <2>2, <2>3, <2>4 DEF WholeInv, Typed, Ready
<1>4. ASSUME NEW s \in Stream PROVE Life(s)'
  BY <1>1, <1>2, <1>4 DEF Life, Ready, WholeInv
<1>5. ASSUME NEW s \in Stream PROVE Whole(s)'
  <2> SUFFICES ASSUME answer[s] <= Window
               PROVE  /\ resp'[s] # "sending"
                      /\ ended'[s] => got'[s] = answer[s]
                      /\ ~ended'[s] => got'[s] = 0 /\ window'[s] >= Window
    BY DEF Whole, Ready
  <2>1. /\ answer[s] \in Nat /\ got[s] \in Nat /\ b[s] \in Nat /\ v[s] \in Nat
        /\ ended[s] => got[s] = answer[s]
        /\ ~ended[s] => got[s] = 0
    BY <1>5 DEF WholeInv, Typed, Whole, Ready
  <2>2. CASE r[s] = "sending"
    <3>1. ~ended[s] /\ b[s] = answer[s] /\ v[s] >= Window
      BY <1>5, <2>2 DEF Ready
    <3>2. e(s)
      BY <1>0, <2>1, <2>2, <3>1 DEF e, H2!Ending
    <3> QED
      BY <1>1, <1>2, <1>5, <2>1, <3>1, <3>2
  <2>3. CASE r[s] # "sending"
    <3>1. ~e(s) /\ g(s) = 0
      BY <1>1, <1>5, <2>3
    <3>2. got'[s] = got[s] /\ window'[s] = v[s] /\ resp'[s] = r[s] /\ ended'[s] = ended[s]
      <4>1. ended[s] \in BOOLEAN
        BY <1>5 DEF WholeInv, Typed
      <4> QED
        BY <1>2, <1>5, <2>1, <3>1, <4>1
    <3>3. ~ended[s] => v[s] >= Window
      BY <1>5 DEF Ready
    <3> QED
      BY <2>1, <2>3, <3>2, <3>3
  <2> QED
    BY <2>2, <2>3
<1> QED
  BY <1>3, <1>4, <1>5 DEF WholeInv

-----------------------------------------------------------------------------
LEMMA InitWhole == Init => WholeInv
<1> SUFFICES ASSUME Init PROVE WholeInv
  OBVIOUS
<1>1. /\ answer \in [Stream -> 0 .. MaxSize]
      /\ peer = [s \in Stream |-> "idle"] /\ live = [s \in Stream |-> FALSE]
      /\ resp = [s \in Stream |-> "none"] /\ body = [s \in Stream |-> 0]
      /\ window = [s \in Stream |-> Window] /\ got = [s \in Stream |-> 0]
      /\ ended = [s \in Stream |-> FALSE]
  BY DEF Init, H2!Init
<1>2. Window \in Nat /\ 0 .. MaxSize \subseteq Nat
  BY HttpServerAssumption
<1>3. Typed
  BY <1>1, <1>2 DEF Typed
<1> QED
  BY <1>1, <1>2, <1>3 DEF WholeInv, Life, Whole

\* Receiving: the stream s begins, ends its request, is reset or gets room, and all is sent
\* that can be.
LEMMA RecvKeeps ==
    ASSUME WholeInv, NEW r, NEW v, NEW l, H2!Recv(r, v, l), Ready(r, body, v, l)
    PROVE  WholeInv'
<1>1. Sent(r, body, v, l)
  BY DEF H2!Recv, H2!Send, Sent
<1> QED
  BY <1>1, SentKeeps

LEMMA FrameKeeps ==
    ASSUME WholeInv, H2!Frame, answer' = answer
    PROVE  WholeInv'
<1>0. Typed /\ (\A s \in Stream : Life(s) /\ Whole(s)) /\ Window \in Nat
  BY HttpServerAssumption DEF WholeInv
<1>1. ASSUME NEW s \in Stream, H2!BeginHeaders(s) PROVE WholeInv'
  <2> DEFINE l == [live EXCEPT ![s] = TRUE]
  <2>1. H2!Recv(resp, window, l)
    BY <1>1 DEF H2!BeginHeaders
  <2>2. peer[s] = "idle" /\ peer' = [peer EXCEPT ![s] = "sending"]
    BY <1>1 DEF H2!BeginHeaders
  <2>3. Ready(resp, body, window, l)
    BY <1>0, <2>2 DEF Ready, Typed, Life, Whole
  <2> QED
    BY <2>1, <2>3, RecvKeeps
<1>2. ASSUME NEW s \in Stream, H2!RequestRecv(s) PROVE WholeInv'
  <2>1. H2!Recv(resp, window, live) /\ peer' = [peer EXCEPT ![s] = "sent"]
    BY <1>2 DEF H2!RequestRecv
  <2>2. Ready(resp, body, window, live)
    BY <1>0, <2>1 DEF Ready, Typed, Life, Whole
  <2> QED
    BY <2>1, <2>2, RecvKeeps
<1>3. ASSUME NEW s \in Stream, H2!StreamClose(s) PROVE WholeInv'
  <2> DEFINE r == [resp EXCEPT ![s] = "none"]
             l == [live EXCEPT ![s] = FALSE]
  <2>1. H2!Recv(r, window, l) /\ peer' = [peer EXCEPT ![s] = "reset"]
    BY <1>3 DEF H2!StreamClose
  <2>2. Ready(r, body, window, l)
    BY <1>0, <2>1 DEF Ready, Typed, Life, Whole
  <2> QED
    BY <2>1, <2>2, RecvKeeps
<1>4. ASSUME NEW s \in Stream, H2!WindowUpdate(s) PROVE WholeInv'
  <2> DEFINE v == [window EXCEPT ![s] = @ + 1]
  <2>1. H2!Recv(resp, v, live) /\ peer' = peer
    BY <1>4 DEF H2!WindowUpdate
  <2>2. Ready(resp, body, v, live)
    BY <1>0, <2>1 DEF Ready, Typed, Life, Whole
  <2> QED
    BY <2>1, <2>2, RecvKeeps
<1> QED
  BY <1>1, <1>2, <1>3, <1>4 DEF H2!Frame

\* Answering: the only step that hands over a body
LEMMA HookDoneKeeps ==
    ASSUME WholeInv, NEW s \in Stream, H2!HookDone(s)
    PROVE  WholeInv'
<1>0. Typed /\ (\A t \in Stream : Life(t) /\ Whole(t)) /\ Window \in Nat
  BY HttpServerAssumption DEF WholeInv
<1>1. answer' = answer /\ peer' = peer
  BY DEF H2!HookDone
<1>2. CASE live[s]
  <2> DEFINE r == [resp EXCEPT ![s] = "sending"]
             b == [body EXCEPT ![s] = answer[s]]
  <2>1. Sent(r, b, window, live)
    BY <1>2 DEF H2!HookDone, H2!Send, Sent
  <2>2. Ready(r, b, window, live)
    BY <1>0, <1>1, <1>2 DEF Ready, Typed, Life, Whole
  <2> QED
    BY <2>1, <2>2, SentKeeps
<1>3. CASE ~live[s]
  BY <1>1, <1>3 DEF H2!HookDone, H2!sending, WholeInv, Typed, Life, Whole
<1> QED
  BY <1>2, <1>3

\* The end of a write takes a body away, the rest of the state is left alone.
LEMMA OthersKeep ==
    ASSUME WholeInv, UNCHANGED <<answer, peer, live, resp, window, got, ended>>,
           body' = body \/ \E s \in Stream : body' = [body EXCEPT ![s] = 0]
    PROVE  WholeInv'
<1>1. body' \in [Stream -> Nat]
  BY DEF WholeInv, Typed
<1> QED
  BY <1>1 DEF WholeInv, Typed, Life, Whole

LEMMA NextWhole == WholeInv /\ [Next]_vars => WholeInv'
<1> SUFFICES ASSUME WholeInv, [Next]_vars PROVE WholeInv'
  OBVIOUS
<1>1. CASE UNCHANGED <<answer, peer, live, resp, window, got, ended, body>>
  BY <1>1, OthersKeep
<1>2. CASE OnAccept(H1!Next) \/ Shutdown \/ TcpAccept \/ SslAccept \/ DoSslAccept \/ ClientGoes
  BY <1>1, <1>2 DEF OnAccept, Shutdown, TcpAccept, SslAccept, DoSslAccept, ClientGoes, h2
<1>3. CASE OnAccept2(H2!Next)
  <2>1. CASE H2!Frame
    <3>1. answer' = answer
      BY <2>1 DEF H2!Frame, H2!BeginHeaders, H2!RequestRecv, H2!StreamClose, H2!WindowUpdate, H2!Receiving
    <3> QED
      BY <2>1, <3>1, FrameKeeps
  <2>2. CASE H2!ClientGoes \/ H2!ReadFails \/ H2!ReadAfterClose
    BY <1>1, <2>2 DEF H2!ClientGoes, H2!ReadFails, H2!ReadAfterClose, H2!sending
  <2>3. ASSUME NEW w \in H2!Who, H2!WriteDone(w) PROVE WholeInv'
    <3>1. UNCHANGED <<answer, peer, live, resp, window, got, ended>>
      BY <2>3 DEF H2!WriteDone
    <3>2. body' = body \/ \E s \in Stream : body' = [body EXCEPT ![s] = 0]
      BY <2>3 DEF H2!WriteDone
    <3> QED
      BY <3>1, <3>2, OthersKeep
  <2>4. ASSUME NEW w \in H2!Who, H2!WriteFails(w) PROVE WholeInv'
    <3>1. UNCHANGED <<answer, peer, live, resp, window, got, ended>>
      BY <2>4 DEF H2!WriteFails
    <3>2. body' \in [Stream -> Nat]
      <4>1. body' = [s \in Stream |-> IF s = w THEN 0 ELSE body[s]]
        BY <2>4 DEF H2!WriteFails
      <4> QED
        BY <4>1 DEF WholeInv, Typed
    <3> QED
      BY <3>1, <3>2 DEF WholeInv, Typed, Life, Whole
  <2>5. ASSUME NEW s \in Stream, H2!FlushStep(s) PROVE WholeInv'
    <3>1. CASE H2!Flush(s) \/ H2!HookFails(s)
      BY <1>1, <3>1 DEF H2!Flush, H2!HookFails, H2!sending
    <3> QED
      BY <2>5, <3>1, HookDoneKeeps DEF H2!FlushStep
  <2> QED
    BY <1>3, <2>1, <2>2, <2>3, <2>4, <2>5 DEF OnAccept2, H2!Next, H2!Writing
<1>4. CASE UNCHANGED vars
  BY <1>1, <1>4 DEF vars, h2
<1> QED
  BY <1>2, <1>3, <1>4 DEF Next

\* No response that fits into the window is cut short, whichever streams are sent, reset or
\* stopped around it (http2.cpp, send() and the data provider; http2_conversation.cpp, flush()).
THEOREM ResponseWholeHolds == Spec => []ResponseWhole
<1>1. WholeInv => ResponseWhole
  BY DEF WholeInv, Whole, ResponseWhole, H2!ResponseWhole
<1> QED
  BY <1>1, InitWhole, NextWhole, PTL DEF Spec

-----------------------------------------------------------------------------
(* HTTP/1.1 *)

\* The pieces of requests and of responses
Piece == H1!Request \X {"head", "end", "body"}
Reply == (H1!Request \X {"100", "headers", "response", "last"}) \union (H1!Request \X {"chunk"} \X Nat)

\* The types of what the reader and the writers keep
HttpTyped ==
    /\ size \in [H1!Request -> Nat] /\ seen \in [H1!Request -> Seq(Piece)]
    /\ sending \in 0 .. NRequests /\ cur \in 0 .. NRequests
    /\ alive \in BOOLEAN /\ await \in H1!Await /\ reader_ \in {"header", "body"}
    /\ handler \in {"none", "busy", "flushed"} /\ nchunks \in Nat /\ writer_ \in {"plain", "chunked"}
    /\ headersSent_ \in BOOLEAN /\ writing_ \in BOOLEAN /\ done_ \in BOOLEAN
    /\ stream_ \in Seq(Piece) /\ wire \in Seq(Piece) /\ left \in Seq(Piece)
    /\ out \in Seq(Reply) /\ chunks_ \in Seq(Reply)

\* What has been written for a request: nothing but a "100", or no end of a response
Fresh(i) == \A k \in DOMAIN out : out[k][1] = i => out[k][2] = "100"
Unanswered(i) == \A k \in DOMAIN out : out[k][1] = i => out[k][2] \notin {"response", "last"}

\* What the server has not read, or has read and not taken yet
\* (An operator of its own: the provers do not rearrange what they cannot see into.)
Joined(s, t, u) == (s \o t) \o u
Rest == Joined(stream_, wire, left)

\* Between two requests, or reading one: what the reader has, what is on the wire and what
\* the client has not sent are the rest of the message that the reader in place expects.
Receiving ==
    alive /\ handler = "none" =>
        /\ \/ reader_ = "header" /\ cur = sending /\ Rest = <<>>
           \/ reader_ = "header" /\ cur + 1 = sending /\ Rest = H1!Message(sending)
           \/ reader_ = "body" /\ cur = sending /\ cur > 0 /\ Rest = H1!Body(sending) /\ Fresh(cur)
        /\ await \in {"accept", "read", "continue", "none"}
        /\ await = "continue" => reader_ = "body" /\ expect[cur]
        /\ writer_ = "plain" /\ chunks_ = <<>> /\ nchunks = 0
        /\ ~writing_ /\ ~done_ /\ ~headersSent_

\* The handler is at it: it has the whole body, and nothing else is on its way.
Handling ==
    handler # "none" =>
        /\ cur > 0 /\ cur = sending /\ left = <<>> /\ seen[cur] = H1!Body(cur)
        /\ Unanswered(cur)
        /\ alive =>
              /\ wire = <<>> /\ await \in {"none", "hook", "payload"}
              /\ handler = "busy" => await = "none" /\ ~done_ /\ headersSent_ = (writer_ = "chunked")
              /\ await = "hook" => ~done_
              /\ await = "payload" => writer_ = "plain"
              /\ writer_ = "plain" => chunks_ = <<>> /\ Fresh(cur) /\ ~writing_

\* The place of a piece in the queue of the chunked writer: the headers first, if they are not
\* out yet, chunks in the order of the calls, the last chunk at the end
Queued(j) ==
    /\ chunks_[j][1] = cur
    /\ chunks_[j][2] \in {"headers", "chunk", "last"}
    /\ chunks_[j][2] = "headers" => j = 1 /\ Fresh(cur)
    /\ chunks_[j][2] = "last" => done_ /\ j = Len(chunks_)
    /\ chunks_[j][2] = "chunk" =>
          /\ chunks_[j][3] <= nchunks
          /\ \A i \in 1 .. j - 1 : chunks_[i][2] = "chunk" => chunks_[i][3] < chunks_[j][3]
          /\ \A k \in DOMAIN out : out[k][1] = cur /\ out[k][2] = "chunk" => out[k][3] < chunks_[j][3]

Chunking ==
    alive /\ handler # "none" /\ writer_ = "chunked" =>
        /\ headersSent_
        /\ writing_ => chunks_ # <<>>
        /\ \A j \in DOMAIN chunks_ : Queued(j)
        /\ \/ \E k \in DOMAIN out : out[k] = <<cur, "headers">>
           \/ chunks_ # <<>> /\ chunks_[1] = <<cur, "headers">>
        /\ \A k \in DOMAIN out : out[k][1] = cur /\ out[k][2] = "chunk" => out[k][3] <= nchunks

\* No response to a request that the reader has not parsed
Parsed == \A k \in DOMAIN out : out[k][1] <= cur

HttpInv == HttpTyped /\ Receiving /\ Handling /\ Chunking /\ Parsed /\ H1!AnswersInOrder

-----------------------------------------------------------------------------
LEMMA InitHttp == Init => HttpInv
<1> SUFFICES ASSUME H1!Init PROVE HttpInv
  BY DEF Init
<1>1. NRequests \in Nat /\ MaxBody \in Nat
  BY HttpServerAssumption
<1>2. HttpTyped
  <2>1. size \in [H1!Request -> Nat]
    BY <1>1 DEF H1!Init
  <2>2. <<>> \in Seq(Piece) /\ <<>> \in Seq(Reply)
    BY EmptySeq
  <2>3. seen \in [H1!Request -> Seq(Piece)]
    BY <2>2 DEF H1!Init
  <2>4. /\ sending = 0 /\ cur = 0 /\ nchunks = 0 /\ 0 \in 0 .. NRequests
        /\ stream_ = <<>> /\ wire = <<>> /\ left = <<>> /\ out = <<>> /\ chunks_ = <<>>
    BY <1>1 DEF H1!Init
  <2>5. /\ alive \in BOOLEAN /\ await \in H1!Await /\ reader_ \in {"header", "body"}
        /\ handler \in {"none", "busy", "flushed"} /\ writer_ \in {"plain", "chunked"}
        /\ headersSent_ \in BOOLEAN /\ writing_ \in BOOLEAN /\ done_ \in BOOLEAN
    BY DEF H1!Init, H1!Await
  <2> QED
    BY <2>1, <2>2, <2>3, <2>4, <2>5 DEF HttpTyped
<1>3. Rest = <<>>
  <2>1. <<>> \in Seq(Piece) /\ <<>> \o <<>> = <<>>
    BY EmptySeq, ConcatEmptySeq
  <2> QED
    BY <2>1 DEF Rest, Joined, H1!Init
<1>4. Len(out) = 0 /\ DOMAIN out = {}
  BY DEF H1!Init
<1>5. H1!AnswersInOrder /\ Parsed
  BY <1>4 DEF H1!AnswersInOrder, Parsed
<1> QED
  BY <1>1, <1>2, <1>3, <1>5 DEF HttpInv, Receiving, Handling, Chunking, H1!Init

\* What is out does not change: neither do the responses, nor what is said of one request.
LEMMA OutKept ==
    ASSUME UNCHANGED <<out, expect>>
    PROVE  /\ H1!AnswersInOrder' = H1!AnswersInOrder
           /\ \A i : Fresh(i)' = Fresh(i) /\ Unanswered(i)' = Unanswered(i)
  BY DEF H1!AnswersInOrder, Fresh, Unanswered

\* A piece of a response names its request.
LEMMA Pieces ==
    ASSUME HttpTyped, NEW k \in DOMAIN out
    PROVE  /\ k \in Nat /\ k >= 1 /\ k <= Len(out) /\ Len(out) \in Nat
           /\ out[k] \in Reply /\ out[k][1] \in Nat
           /\ out[k][2] = "chunk" => out[k][3] \in Nat
<1>1. k \in 1 .. Len(out) /\ Len(out) \in Nat
  BY LenProperties DEF HttpTyped
<1>2. out[k] \in Reply
  BY <1>1, ElementOfSeq DEF HttpTyped
<1>3. ASSUME NEW x \in Reply PROVE x[1] \in Nat /\ (x[2] = "chunk" => x[3] \in Nat)
  BY <1>3 DEF Reply, H1!Request
<1> QED
  BY <1>1, <1>2, <1>3

\* A message and its body are sequences of pieces.
LEMMA Messages ==
    ASSUME HttpTyped, NEW i \in H1!Request
    PROVE  /\ size[i] \in Nat
           /\ H1!Body(i) \in Seq(Piece) /\ Len(H1!Body(i)) = size[i]
           /\ H1!Message(i) \in Seq(Piece) /\ Len(H1!Message(i)) = size[i] + 2
           /\ H1!Message(i)[1] = <<i, "head">> /\ H1!Message(i)[2] = <<i, "end">>
           /\ SubSeq(H1!Message(i), 3, size[i] + 2) = H1!Body(i)
<1>1. size[i] \in Nat
  BY DEF HttpTyped
<1>2. H1!Body(i) \in Seq(Piece) /\ Len(H1!Body(i)) = size[i]
  BY <1>1 DEF H1!Body, Piece
<1> DEFINE h == <<<<i, "head">>, <<i, "end">>>>
<1>3. h \in Seq(Piece) /\ Len(h) = 2 /\ h[1] = <<i, "head">> /\ h[2] = <<i, "end">>
  BY DEF Piece
<1>4. H1!Message(i) = h \o H1!Body(i)
  BY DEF H1!Message, H1!Head_, H1!End
<1> HIDE DEF h
<1>5. /\ H1!Message(i) \in Seq(Piece) /\ Len(H1!Message(i)) = size[i] + 2
      /\ \A k \in 1 .. size[i] + 2 : H1!Message(i)[k] = IF k <= 2 THEN h[k] ELSE H1!Body(i)[k - 2]
  <2> DEFINE b == H1!Body(i)
  <2> HIDE DEF b
  <2>1. b \in Seq(Piece) /\ Len(b) = size[i] /\ H1!Message(i) = h \o b
    BY <1>2, <1>4 DEF b
  <2>2. /\ h \o b \in Seq(Piece) /\ Len(h \o b) = Len(h) + Len(b)
        /\ \A k \in 1 .. Len(h) + Len(b) : (h \o b)[k] = IF k <= Len(h) THEN h[k] ELSE b[k - Len(h)]
    BY <1>3, <2>1, ConcatProperties
  <2>3. \A k \in 1 .. size[i] + 2 : (h \o b)[k] = IF k <= 2 THEN h[k] ELSE b[k - 2]
    BY <1>1, <1>3, <2>1, <2>2
  <2> QED
    BY <1>1, <1>3, <2>1, <2>2, <2>3 DEF b
<1>6. SubSeq(H1!Message(i), 3, size[i] + 2) = H1!Body(i)
  <2> DEFINE t == SubSeq(H1!Message(i), 3, size[i] + 2)
  <2>1. \A k \in 3 .. size[i] + 2 : H1!Message(i)[k] \in Piece
    BY <1>1, <1>5, ElementOfSeq
  <2>2. t \in Seq(Piece) /\ Len(t) = size[i] /\ \A k \in 1 .. size[i] : t[k] = H1!Message(i)[k + 2]
    BY <1>1, <2>1, SubSeqProperties
  <2>3. ASSUME NEW k \in 1 .. size[i] PROVE t[k] = H1!Body(i)[k]
    <3>1. k + 2 \in 1 .. size[i] + 2 /\ ~(k + 2 <= 2) /\ (k + 2) - 2 = k
      BY <1>1
    <3>2. t[k] = H1!Message(i)[k + 2]
      BY <2>2
    <3> HIDE DEF t
    <3> QED
      BY <1>5, <3>1, <3>2
  <2> QED
    BY <1>2, <2>2, <2>3, SeqEqual
<1>7. H1!Message(i)[1] = <<i, "head">> /\ H1!Message(i)[2] = <<i, "end">>
  <2>1. 1 \in 1 .. size[i] + 2 /\ 2 \in 1 .. size[i] + 2
    BY <1>1
  <2>2. H1!Message(i)[1] = h[1] /\ H1!Message(i)[2] = h[2]
    BY <1>5, <2>1
  <2> QED
    BY <1>3, <2>2
<1> QED
  BY <1>1, <1>2, <1>5, <1>6, <1>7

\* A sequence that is cut, its first part moved to the end of another one
LEMMA Moved ==
    ASSUME NEW S, NEW s \in Seq(S), NEW t \in Seq(S), NEW n \in 1 .. Len(t)
    PROVE  /\ SubSeq(t, 1, n) \in Seq(S) /\ SubSeq(t, n + 1, Len(t)) \in Seq(S)
           /\ s \o SubSeq(t, 1, n) \in Seq(S)
           /\ (s \o SubSeq(t, 1, n)) \o SubSeq(t, n + 1, Len(t)) = s \o t
<1>1. Len(t) \in Nat
  BY LenProperties
<1>2. \A k \in 1 .. Len(t) : t[k] \in S
  BY ElementOfSeq
<1>3. SubSeq(t, 1, n) \in Seq(S) /\ SubSeq(t, n + 1, Len(t)) \in Seq(S)
  BY <1>1, <1>2, SubSeqProperties
<1>4. SubSeq(t, 1, n) \o SubSeq(t, n + 1, Len(t)) = t
  <2>1. SubSeq(t, 1, n) \o SubSeq(t, n + 1, Len(t)) = SubSeq(t, 1, Len(t))
    BY <1>1, ConcatAdjacentSubSeq
  <2> QED
    BY <2>1, SubSeqFull
<1>5. s \o SubSeq(t, 1, n) \in Seq(S)
  BY <1>3, ConcatProperties
<1>6. (s \o SubSeq(t, 1, n)) \o SubSeq(t, n + 1, Len(t)) = s \o (SubSeq(t, 1, n) \o SubSeq(t, n + 1, Len(t)))
  <2>1. ASSUME NEW a \in Seq(S), NEW b \in Seq(S) PROVE (s \o a) \o b = s \o (a \o b)
    OBVIOUS
  <2> QED
    BY <1>3, <2>1
<1> QED
  BY <1>3, <1>4, <1>5, <1>6

\* ... or moved from the third to the second
LEMMA MovedBehind ==
    ASSUME NEW S, NEW s \in Seq(S), NEW t \in Seq(S), NEW u \in Seq(S), NEW n \in 1 .. Len(u)
    PROVE  Joined(s, t \o SubSeq(u, 1, n), SubSeq(u, n + 1, Len(u))) = Joined(s, t, u)
<1>0. PICK v, w : v = t \o SubSeq(u, 1, n) /\ w = SubSeq(u, n + 1, Len(u))
  OBVIOUS
<1>1. v \in Seq(S) /\ w \in Seq(S) /\ v \o w = t \o u
  BY <1>0, Moved
<1>2. (s \o v) \o w = s \o (v \o w)
  <2>1. ASSUME NEW x \in Seq(S), NEW y \in Seq(S) PROVE (s \o x) \o y = s \o (x \o y)
    OBVIOUS
  <2> QED
    BY <1>1, <2>1
<1>3. (s \o t) \o u = s \o (t \o u)
  OBVIOUS
<1>4. (s \o v) \o w = (s \o t) \o u
  BY <1>1, <1>2, <1>3, Zenon
<1> QED
  BY <1>0, <1>4 DEF Joined

\* A step that changes none of what the parts speak of
LEMMA HttpStutter ==
    ASSUME HttpInv,
           UNCHANGED <<size, expect, sending, left, wire, out, alive, await, reader_, stream_, cur, seen,
                       writer_, chunks_, writing_, done_, headersSent_, nchunks, handler>>
    PROVE  HttpInv'
  BY DEF HttpInv, HttpTyped, Receiving, Handling, Chunking, Queued, Parsed, Fresh, Unanswered, Rest,
         H1!AnswersInOrder, H1!Message, H1!Body, H1!Head_, H1!End

\* What the steps of the reader and the client leave alone
Answering == <<size, expect, out, writer_, chunks_, writing_, done_, headersSent_, nchunks>>

\* Nothing is said of a connection that is gone while no handler is at work.
LEMMA GoneKeeps ==
    ASSUME HttpInv, UNCHANGED Answering, HttpTyped', cur' >= cur,
           ~alive', handler' = "none"
    PROVE  HttpInv'
<1>1. H1!AnswersInOrder'
  BY OutKept DEF HttpInv, Answering
<1>2. Parsed'
  <2>1. \A k \in DOMAIN out : out[k][1] \in Int
    BY Pieces DEF HttpInv
  <2>2. cur \in Int /\ cur' \in Int
    BY DEF HttpInv, HttpTyped
  <2> QED
    BY <2>1, <2>2 DEF HttpInv, Parsed, Answering
<1> QED
  BY <1>1, <1>2 DEF HttpInv, Receiving, Handling, Chunking

LEMMA AcceptKeeps == ASSUME HttpInv, H1!Accept PROVE HttpInv'
<1>1. H1!AnswersInOrder' /\ \A i : Fresh(i)' = Fresh(i) /\ Unanswered(i)' = Unanswered(i)
  BY OutKept DEF HttpInv, H1!Accept, H1!client
<1>2. HttpTyped'
  BY DEF HttpInv, HttpTyped, H1!Accept, H1!client, H1!reading, H1!chunking, H1!Await
<1>3. Rest' = Rest /\ H1!Message(sending)' = H1!Message(sending) /\ H1!Body(sending)' = H1!Body(sending)
      /\ H1!Body(cur)' = H1!Body(cur)
  BY DEF Rest, H1!Accept, H1!client, H1!reading, H1!Message, H1!Body, H1!Head_, H1!End
<1>4. handler = "none" \/ ~alive
  BY DEF HttpInv, Handling, H1!Accept
<1>5. Receiving'
  BY <1>1, <1>3 DEF HttpInv, Receiving, H1!Accept, H1!client, H1!reading, H1!chunking
<1>6. Handling'
  BY <1>1, <1>3, <1>4 DEF HttpInv, Handling, H1!Accept, H1!client, H1!reading, H1!chunking
<1>7. Chunking' /\ Parsed'
  BY <1>4 DEF HttpInv, Chunking, Parsed, H1!Accept, H1!client, H1!reading, H1!chunking
<1> QED
  BY <1>1, <1>2, <1>5, <1>6, <1>7 DEF HttpInv

LEMMA ClientBeginsKeeps == ASSUME HttpInv, H1!ClientBegins PROVE HttpInv'
<1>0. /\ left = <<>> /\ sending < NRequests /\ sending' = sending + 1 /\ left' = H1!Message(sending + 1)
      /\ UNCHANGED <<size, expect, wire, out, alive, await, reader_, stream_, cur, seen,
                     writer_, chunks_, writing_, done_, headersSent_, nchunks, handler>>
  BY DEF H1!ClientBegins, H1!reading, H1!chunking
<1>1. H1!AnswersInOrder' /\ \A i : Fresh(i)' = Fresh(i) /\ Unanswered(i)' = Unanswered(i)
  BY <1>0, OutKept DEF HttpInv
<1>2. sending + 1 \in H1!Request /\ sending \in Nat /\ cur \in Nat /\ sending + 1 \in 0 .. NRequests
  BY <1>0, HttpServerAssumption DEF HttpInv, HttpTyped, H1!Request
<1>3. HttpTyped'
  <2>1. left' \in Seq(Piece)
    BY <1>0, <1>2, Messages DEF HttpInv
  <2> QED
    BY <1>0, <1>2, <2>1 DEF HttpInv, HttpTyped
<1>4. sending > 0 => \E k \in DOMAIN out : out[k][1] = sending /\ out[k][2] \in {"response", "last"}
  <2> SUFFICES ASSUME sending > 0
               PROVE  \E k \in DOMAIN out : out[k][1] = sending /\ out[k][2] \in {"response", "last"}
    OBVIOUS
  <2>1. PICK k \in DOMAIN out : out[k] \in {<<sending, "response">>, <<sending, "last">>}
    BY DEF H1!ClientBegins, H1!Answered
  <2> QED
    BY <2>1
<1>5. handler = "none"
  BY <1>2, <1>4 DEF HttpInv, Handling, Unanswered
<1>6. alive => reader_ = "header" /\ cur = sending /\ Rest = <<>>
  <2> SUFFICES ASSUME alive PROVE reader_ = "header" /\ cur = sending /\ Rest = <<>>
    OBVIOUS
  <2>1. ~(cur + 1 = sending)
    BY <1>2, <1>4 DEF HttpInv, Parsed
  <2>2. ~(cur = sending /\ cur > 0 /\ Fresh(cur))
    BY <1>4 DEF Fresh
  <2> QED
    BY <1>5, <2>1, <2>2 DEF HttpInv, Receiving
<1>7. alive => Rest' = H1!Message(sending)'
  <2> SUFFICES ASSUME alive PROVE Rest' = H1!Message(sending)'
    OBVIOUS
  <2>1. stream_ \in Seq(Piece) /\ wire \in Seq(Piece) /\ left = <<>>
    BY <1>0 DEF HttpInv, HttpTyped
  <2>2. (stream_ \o wire) \in Seq(Piece)
    BY <2>1, ConcatProperties
  <2>3. stream_ \o wire = <<>>
    BY <1>6, <2>1, <2>2, ConcatEmptySeq DEF Rest, Joined
  <2>4. <<>> \o left' = left'
    BY <1>3, ConcatEmptySeq DEF HttpTyped
  <2>5. H1!Message(sending)' = H1!Message(sending + 1)
    BY <1>0 DEF H1!Message, H1!Body, H1!Head_, H1!End
  <2> QED
    BY <1>0, <2>3, <2>4, <2>5 DEF Rest, Joined
<1>8. Receiving'
  <2>1. alive' => reader_' = "header" /\ cur' + 1 = sending' /\ Rest' = H1!Message(sending)'
    BY <1>0, <1>2, <1>6, <1>7
  <2>3. alive' => Receiving
    BY DEF HttpInv
  <2> QED
    BY <1>0, <1>5, <2>1, <2>3, <1>6 DEF Receiving
<1>9. Handling' /\ Chunking' /\ Parsed'
  BY <1>0, <1>5 DEF HttpInv, Handling, Chunking, Parsed
<1> QED
  BY <1>1, <1>3, <1>8, <1>9 DEF HttpInv

LEMMA ClientSendsKeeps == ASSUME HttpInv, H1!ClientSends PROVE HttpInv'
<1>0. UNCHANGED <<size, expect, sending, out, alive, await, reader_, stream_, cur, seen,
                  writer_, chunks_, writing_, done_, headersSent_, nchunks, handler>>
  BY DEF H1!ClientSends, H1!reading, H1!chunking
<1>1. PICK n \in 1 .. Len(left) : wire' = wire \o SubSeq(left, 1, n) /\ left' = SubSeq(left, n + 1, Len(left))
  BY DEF H1!ClientSends
<1>2. H1!AnswersInOrder' /\ \A i : Fresh(i)' = Fresh(i) /\ Unanswered(i)' = Unanswered(i)
  BY <1>0, OutKept DEF HttpInv
<1>3. stream_ \in Seq(Piece) /\ wire \in Seq(Piece) /\ left \in Seq(Piece)
  BY DEF HttpInv, HttpTyped
<1>4. wire' \in Seq(Piece) /\ left' \in Seq(Piece)
  BY <1>1, <1>3, Moved
<1>5. HttpTyped'
  BY <1>0, <1>4 DEF HttpInv, HttpTyped
<1>6. Rest' = Rest
  <2>1. Joined(stream_, wire', left') = Joined(stream_, wire, left)
    BY <1>1, <1>3, MovedBehind
  <2> QED
    BY <1>0, <2>1 DEF Rest
<1>7. handler = "none"
  BY <1>1 DEF HttpInv, Handling, HttpTyped
<1>8. Receiving'
  <2>1. H1!Message(sending)' = H1!Message(sending) /\ H1!Body(sending)' = H1!Body(sending)
    BY <1>0 DEF H1!Message, H1!Body, H1!Head_, H1!End
  <2> QED
    BY <1>0, <1>2, <1>6, <2>1 DEF HttpInv, Receiving
<1>9. Handling' /\ Chunking' /\ Parsed'
  BY <1>0, <1>7 DEF HttpInv, Handling, Chunking, Parsed
<1> QED
  BY <1>2, <1>5, <1>8, <1>9 DEF HttpInv

Ends(s) == {k \in DOMAIN s : s[k][2] = "end"}
FirstOf(ends) == CHOOSE k \in ends : \A e \in ends : k <= e

\* The header reader finds the empty line of the message that it reads, or not yet.
LEMMA HeaderEnd ==
    ASSUME HttpTyped, NEW i \in H1!Request, NEW s \in Seq(Piece), NEW u \in Seq(Piece),
           s \o u = H1!Message(i)
    PROVE  Ends(s) # {} =>
              /\ s[2][1] = i /\ FirstOf(Ends(s)) = 2
              /\ SubSeq(s, 3, Len(s)) \in Seq(Piece)
              /\ SubSeq(s, 3, Len(s)) \o u = H1!Body(i)
<1> DEFINE ends == {k \in DOMAIN s : s[k][2] = "end"}
           M == H1!Message(i)
<1>1. /\ Len(s) \in Nat /\ Len(u) \in Nat /\ DOMAIN s = 1 .. Len(s)
      /\ Len(s) + Len(u) = size[i] + 2 /\ size[i] \in Nat
      /\ \A k \in 1 .. Len(s) : s[k] = M[k]
  <2>1. Len(s) \in Nat /\ Len(u) \in Nat /\ DOMAIN s = 1 .. Len(s)
    BY LenProperties
  <2>2. size[i] \in Nat /\ Len(M) = size[i] + 2
    BY Messages
  <2>3. Len(s \o u) = Len(s) + Len(u) /\ \A k \in 1 .. Len(s) : (s \o u)[k] = s[k]
    BY <2>1, ConcatProperties
  <2> QED
    BY <2>1, <2>2, <2>3
<1>2. M[1] = <<i, "head">> /\ M[2] = <<i, "end">>
  BY Messages
<1> SUFFICES ASSUME ends # {}
             PROVE  /\ s[2][1] = i /\ FirstOf(ends) = 2
                    /\ SubSeq(s, 3, Len(s)) \in Seq(Piece)
                    /\ SubSeq(s, 3, Len(s)) \o u = H1!Body(i)
  BY DEF Ends
<1>3. 1 \notin ends
  <2>1. 1 \in DOMAIN s => s[1] = <<i, "head">>
    BY <1>1, <1>2
  <2> QED
    BY <2>1
<1>4. Len(s) >= 2
  <2>1. PICK k \in ends : TRUE
    OBVIOUS
  <2> QED
    BY <1>1, <1>3, <2>1
<1>5. 2 \in ends /\ s[2][1] = i
  BY <1>1, <1>2, <1>4
<1>6. \A e \in ends : e \in Nat /\ 2 <= e
  BY <1>1, <1>3
<1>7. FirstOf(ends) = 2
  <2> HIDE DEF ends
  <2>1. \A k \in ends : (\A e \in ends : k <= e) => k = 2
    BY <1>5, <1>6
  <2>2. \A e \in ends : 2 <= e
    BY <1>6
  <2> QED
    BY <1>5, <2>1, <2>2 DEF FirstOf
<1>8. SubSeq(s, 3, Len(s)) \in Seq(Piece) /\ SubSeq(s, 3, Len(s)) \o u = H1!Body(i)
  <2> DEFINE b == SubSeq(s, 3, Len(s))
             B == H1!Body(i)
  <2>1. \A k \in 3 .. Len(s) : s[k] \in Piece
    BY <1>1, ElementOfSeq
  <2>2. b \in Seq(Piece) /\ Len(b) = Len(s) - 2 /\ \A k \in 1 .. Len(s) - 2 : b[k] = s[k + 2]
    BY <1>1, <1>4, <2>1, SubSeqProperties
  <2>3. B \in Seq(Piece) /\ Len(B) = size[i] /\ \A k \in 1 .. size[i] : B[k] = M[k + 2]
    <3> DEFINE t == SubSeq(M, 3, size[i] + 2)
    <3>1. M \in Seq(Piece) /\ Len(M) = size[i] + 2 /\ t = B /\ B \in Seq(Piece) /\ Len(B) = size[i]
      BY Messages
    <3> HIDE DEF M, B
    <3>2. \A k \in 3 .. size[i] + 2 : M[k] \in Piece
      BY <1>1, <3>1, ElementOfSeq
    <3>3. \A k \in 1 .. size[i] : t[k] = M[k + 2]
      BY <1>1, <3>2, SubSeqProperties
    <3> QED
      BY <3>1, <3>3
  <2>4. b \o u \in Seq(Piece) /\ Len(b \o u) = size[i]
        /\ \A k \in 1 .. size[i] : (b \o u)[k] = IF k <= Len(s) - 2 THEN b[k] ELSE u[k - (Len(s) - 2)]
    <3> HIDE DEF b
    <3>1. b \in Seq(Piece) /\ Len(b) = Len(s) - 2
      BY <2>2
    <3>2. Len(s) \in Nat /\ Len(u) \in Nat /\ Len(s) + Len(u) = size[i] + 2 /\ size[i] \in Nat
      BY <1>1
    <3>3. Len(b) + Len(u) = size[i]
      <4>1. Len(b) = Len(s) - 2
        BY <3>1
      <4>2. \A x, y, z \in Nat : x + y = z + 2 => (x - 2) + y = z
        OBVIOUS
      <4>3. (Len(s) - 2) + Len(u) = size[i]
        BY <3>2, <4>2
      <4> QED
        BY <4>1, <4>3
    <3>4. b \o u \in Seq(Piece) /\ Len(b \o u) = Len(b) + Len(u)
      /\ \A k \in 1 .. Len(b) + Len(u) : (b \o u)[k] = IF k <= Len(b) THEN b[k] ELSE u[k - Len(b)]
      BY <3>1, ConcatProperties
    <3> QED
      BY <3>1, <3>3, <3>4
  <2>5. ASSUME NEW k \in 1 .. size[i] PROVE (b \o u)[k] = M[k + 2]
    <3>1. \A j \in 1 .. Len(s) + Len(u) : (s \o u)[j] = IF j <= Len(s) THEN s[j] ELSE u[j - Len(s)]
      BY ConcatProperties
    <3>2. M[k + 2] = IF k + 2 <= Len(s) THEN s[k + 2] ELSE u[k + 2 - Len(s)]
      BY <1>1, <3>1
    <3>3. (b \o u)[k] = IF k <= Len(s) - 2 THEN b[k] ELSE u[k - (Len(s) - 2)]
      BY <2>4
    <3>4. k <= Len(s) - 2 => b[k] = s[k + 2]
      BY <1>1, <2>2
    <3>5. (k <= Len(s) - 2) = (k + 2 <= Len(s)) /\ k - (Len(s) - 2) = k + 2 - Len(s)
      BY <1>1
    <3> HIDE DEF b, M
    <3> QED
      BY <3>2, <3>3, <3>4, <3>5
  <2> HIDE DEF b, B, M
  <2>6. \A k \in 1 .. size[i] : (b \o u)[k] = B[k]
    BY <2>3, <2>5
  <2>7. b \o u = B
    BY <2>3, <2>4, <2>6, SeqEqual
  <2> QED
    BY <2>2, <2>7 DEF b, B
<1> QED
  BY <1>1, <1>5, <1>7, <1>8

\* The body reader has all of the body, or a part of it that it keeps.
LEMMA BodyEnd ==
    ASSUME HttpTyped, NEW i \in H1!Request, NEW b \in Seq(Piece), NEW u \in Seq(Piece),
           b \o u = H1!Body(i)
    PROVE  /\ SubSeq(b, 1, IF Len(b) > size[i] THEN size[i] ELSE Len(b)) = b
           /\ Len(b) >= size[i] => b = H1!Body(i) /\ u = <<>>
<1>1. Len(b) \in Nat /\ Len(u) \in Nat /\ Len(b) + Len(u) = size[i] /\ size[i] \in Nat
  <2>1. Len(H1!Body(i)) = size[i] /\ size[i] \in Nat
    BY Messages
  <2>2. Len(b) \in Nat /\ Len(u) \in Nat
    BY LenProperties
  <2>3. Len(b \o u) = Len(b) + Len(u)
    BY ConcatProperties
  <2> QED
    BY <2>1, <2>2, <2>3
<1>2. ~(Len(b) > size[i]) /\ (Len(b) >= size[i] => Len(u) = 0)
  BY <1>1
<1>3. SubSeq(b, 1, Len(b)) = b
  BY SubSeqFull
<1>4. u = <<>> => b \o u = b
  BY ConcatEmptySeq
<1>5. Len(u) = 0 => u = <<>>
  BY EmptySeq
<1> QED
  BY <1>2, <1>3, <1>4, <1>5

\* What the reader does with the rest u of request i: it goes on reading the body, with a
\* "100 Continue" first if that was asked for, or has all of it and hands the request over.
Reads(i, u) ==
    /\ i \in H1!Request /\ i = sending /\ cur' = i /\ cur <= i
    /\ Fresh(i)
    /\ \/ /\ reader_' = "body" /\ stream_' \in Seq(Piece) /\ stream_' \o u = H1!Body(i)
          /\ UNCHANGED <<alive, handler, seen>>
          /\ await' = "read" \/ (await' = "continue" /\ expect[i])
       \/ /\ u = <<>> /\ stream_' \in Seq(Piece) /\ reader_' \in {"header", "body"}
          /\ H1!Dispatch(i, H1!Body(i))

LEMMA ReadsKeep ==
    ASSUME HttpInv, UNCHANGED Answering, UNCHANGED <<sending, left>>, alive, handler = "none",
           NEW i, NEW u, Reads(i, u), u = wire' \o left, wire' \in Seq(Piece)
    PROVE  HttpInv'
<1>0. UNCHANGED <<size, expect, sending, left, out, writer_, chunks_, writing_, done_, headersSent_, nchunks>>
  BY DEF Answering
<1>1. H1!AnswersInOrder' /\ Fresh(i)' = Fresh(i) /\ Unanswered(i)' = Unanswered(i)
  BY <1>0, OutKept DEF HttpInv
<1>2. i \in H1!Request /\ cur' = i /\ sending = i /\ cur <= i /\ i > 0 /\ i \in 0 .. NRequests /\ Fresh(i)
  BY HttpServerAssumption DEF Reads, H1!Request
<1>3. Parsed'
  <2>1. \A k \in DOMAIN out : out[k][1] \in Nat
    BY Pieces DEF HttpInv
  <2>2. cur \in Nat /\ i \in Nat
    BY <1>2 DEF HttpInv, HttpTyped
  <2> QED
    BY <1>0, <1>2, <2>1, <2>2 DEF HttpInv, Parsed
<1>4. H1!Body(i)' = H1!Body(i) /\ H1!Body(i) \in Seq(Piece)
  BY <1>0, <1>2, Messages DEF H1!Body, HttpInv
<1>5. Chunking'
  BY <1>0 DEF HttpInv, Receiving, Chunking
<1>6. CASE /\ reader_' = "body" /\ stream_' \in Seq(Piece) /\ stream_' \o u = H1!Body(i)
           /\ UNCHANGED <<alive, handler, seen>>
           /\ await' = "read" \/ (await' = "continue" /\ expect[i])
  <2>1. HttpTyped'
    BY <1>0, <1>2, <1>6 DEF HttpInv, HttpTyped, H1!Await
  <2>2. Rest' = H1!Body(sending)'
    <3>1. stream_' \in Seq(Piece) /\ wire' \in Seq(Piece) /\ left \in Seq(Piece)
      BY <1>6 DEF HttpInv, HttpTyped
    <3>2. (stream_' \o wire') \o left = stream_' \o (wire' \o left)
      <4>1. ASSUME NEW a \in Seq(Piece), NEW b \in Seq(Piece), NEW c \in Seq(Piece)
            PROVE  (a \o b) \o c = a \o (b \o c)
        OBVIOUS
      <4> QED
        BY <3>1, <4>1
    <3>3. H1!Body(sending)' = H1!Body(i)
      BY <1>0, <1>2 DEF H1!Body
    <3> QED
      BY <1>0, <1>6, <3>2, <3>3 DEF Rest, Joined
  <2>3. Receiving'
    BY <1>0, <1>1, <1>2, <1>6, <2>2 DEF HttpInv, Receiving
  <2>4. Handling'
    BY <1>6 DEF Handling
  <2> QED
    BY <1>1, <1>3, <1>5, <2>1, <2>3, <2>4 DEF HttpInv
<1>7. CASE /\ u = <<>> /\ stream_' \in Seq(Piece) /\ reader_' \in {"header", "body"}
           /\ H1!Dispatch(i, H1!Body(i))
  <2>1. seen' \in [H1!Request -> Seq(Piece)] /\ seen'[i] = H1!Body(i)
    BY <1>2, <1>4, <1>7 DEF HttpInv, HttpTyped, H1!Dispatch
  <2>2. HttpTyped'
    BY <1>0, <1>2, <1>7, <2>1 DEF HttpInv, HttpTyped, H1!Await, H1!Dispatch
  <2>3. CASE handler' = "none" /\ await' = "none" /\ alive' = FALSE
    BY <1>2, <2>2, <2>3, GoneKeeps DEF HttpInv, HttpTyped
  <2>4. CASE handler' = "busy" /\ await' = "none" /\ UNCHANGED alive
    <3>1. wire' = <<>> /\ left = <<>>
      <4>1. \A a, b \in Seq(Piece) : a \o b = <<>> => a = <<>> /\ b = <<>>
        BY ConcatEqualIffEmpty, EmptySeq
      <4> QED
        BY <1>7, <4>1 DEF HttpInv, HttpTyped
    <3>2. Unanswered(i)
      BY <1>2 DEF Fresh, Unanswered
    <3>3. Receiving'
      BY <2>4 DEF Receiving
    <3>4. Handling'
      <4>1. /\ cur' > 0 /\ cur' = sending' /\ left' = <<>> /\ wire' = <<>>
            /\ await' = "none" /\ handler' = "busy"
        BY <1>0, <1>2, <2>4, <3>1
      <4>2. seen'[cur'] = H1!Body(cur)'
        BY <1>2, <1>4, <2>1 DEF H1!Body
      <4>3. Unanswered(cur)' /\ Fresh(cur)'
        BY <1>0, <1>2, <3>2 DEF Unanswered, Fresh
      <4>4. writer_' = "plain" /\ chunks_' = <<>> /\ ~writing_' /\ ~done_' /\ headersSent_' = FALSE
        BY <1>0, <2>2 DEF HttpInv, Receiving, HttpTyped
      <4> QED
        BY <4>1, <4>2, <4>3, <4>4 DEF Handling
    <3> QED
      BY <1>1, <1>3, <1>5, <2>2, <3>3, <3>4 DEF HttpInv
  <2> QED
    BY <1>7, <2>3, <2>4 DEF H1!Dispatch
<1> QED
  BY <1>6, <1>7 DEF Reads

\* The body reader with all it has got so far
LEMMA ConsumeBodyReads ==
    ASSUME HttpTyped, NEW i \in H1!Request, i = sending, cur <= i, Fresh(i), alive, handler = "none",
           NEW b \in Seq(Piece), NEW u \in Seq(Piece), b \o u = H1!Body(i), H1!ConsumeBody(i, b)
    PROVE  Reads(i, u)
<1>1. stream_' = b /\ (Len(b) >= size[i] => b = H1!Body(i) /\ u = <<>>)
  BY BodyEnd DEF H1!ConsumeBody
<1>2. CASE Len(b) >= size[i]
  BY <1>1, <1>2 DEF H1!ConsumeBody, Reads
<1>3. CASE ~(Len(b) >= size[i])
  BY <1>1, <1>3 DEF H1!ConsumeBody, H1!More, Reads
<1> QED
  BY <1>2, <1>3

\* The request that a read goes on with: the one the client is at, and nothing of its response
\* is out but a "100".
LEMMA Reader ==
    ASSUME HttpInv, alive, handler = "none", Rest # <<>>
    PROVE  /\ sending \in H1!Request /\ cur <= sending /\ Fresh(sending)
           /\ \/ reader_ = "header" /\ Rest = H1!Message(sending)
              \/ reader_ = "body" /\ cur = sending /\ Rest = H1!Body(sending)
<1>1. cur \in Nat /\ sending \in Nat /\ sending <= NRequests /\ NRequests \in Nat
  BY HttpServerAssumption DEF HttpInv, HttpTyped
<1>2. CASE reader_ = "header" /\ cur + 1 = sending /\ Rest = H1!Message(sending)
  <2>1. Fresh(sending)
    BY <1>1, <1>2, Pieces DEF HttpInv, Parsed, Fresh
  <2> QED
    BY <1>1, <1>2, <2>1 DEF H1!Request
<1>3. CASE reader_ = "body" /\ cur = sending /\ cur > 0 /\ Rest = H1!Body(sending) /\ Fresh(cur)
  BY <1>1, <1>3 DEF H1!Request
<1> QED
  BY <1>2, <1>3 DEF HttpInv, Receiving

LEMMA ReadKeeps == ASSUME HttpInv, H1!Read PROVE HttpInv'
<1>1. PICK n \in 1 .. Len(wire) :
          /\ wire' = SubSeq(wire, n + 1, Len(wire))
          /\ IF reader_ = "header" THEN H1!ConsumeHeaders(stream_ \o SubSeq(wire, 1, n))
                                   ELSE H1!ConsumeBody(cur, stream_ \o SubSeq(wire, 1, n))
  BY DEF H1!Read
<1>2. alive /\ await = "read" /\ UNCHANGED Answering /\ UNCHANGED <<sending, left>>
  BY DEF H1!Read, H1!client, H1!chunking, Answering
<1>3. stream_ \in Seq(Piece) /\ wire \in Seq(Piece) /\ left \in Seq(Piece)
  BY DEF HttpInv, HttpTyped
<1>4. handler = "none"
  BY <1>2 DEF HttpInv, Handling
<1>5. PICK s : s = stream_ \o SubSeq(wire, 1, n)
  OBVIOUS
<1>6. PICK u : u = wire' \o left
  OBVIOUS
<1>7. s \in Seq(Piece) /\ u \in Seq(Piece) /\ wire' \in Seq(Piece)
  <2>1. s \in Seq(Piece) /\ wire' \in Seq(Piece)
    BY <1>1, <1>3, <1>5, Moved
  <2> QED
    BY <1>3, <1>6, <2>1, ConcatProperties
<1>8. s \o u = Rest /\ Rest # <<>>
  <2>1. s \o wire' = stream_ \o wire
    BY <1>1, <1>3, <1>5, Moved
  <2>2. s \o (wire' \o left) = (s \o wire') \o left
    <3>1. ASSUME NEW a \in Seq(Piece), NEW b \in Seq(Piece), NEW c \in Seq(Piece)
          PROVE  a \o (b \o c) = (a \o b) \o c
      OBVIOUS
    <3> QED
      BY <1>3, <1>7, <3>1
  <2>3. s \o u = Rest
    BY <1>6, <2>1, <2>2 DEF Rest, Joined
  <2>4. Len(Rest) # 0
    <3>1. stream_ \o wire \in Seq(Piece) /\ Len(stream_ \o wire) = Len(stream_) + Len(wire)
      BY <1>3, ConcatProperties
    <3>2. Len((stream_ \o wire) \o left) = Len(stream_ \o wire) + Len(left)
      BY <1>3, <3>1, ConcatProperties
    <3>3. Len(stream_) \in Nat /\ Len(wire) \in Nat /\ Len(left) \in Nat /\ Len(wire) >= 1
      BY <1>1, <1>3, LenProperties
    <3>4. \A x, y, z \in Nat : y >= 1 => x + y + z # 0
      OBVIOUS
    <3> QED
      BY <3>1, <3>2, <3>3, <3>4 DEF Rest, Joined
  <2> QED
    BY <2>3, <2>4
<1>9. /\ sending \in H1!Request /\ cur <= sending /\ Fresh(sending)
      /\ \/ reader_ = "header" /\ s \o u = H1!Message(sending)
         \/ reader_ = "body" /\ cur = sending /\ s \o u = H1!Body(sending)
  BY <1>2, <1>4, <1>8, Reader
<1>10. ASSUME Reads(sending, u) PROVE HttpInv'
  BY <1>2, <1>4, <1>6, <1>7, <1>10, ReadsKeep
<1>11. CASE reader_ = "body"
  <2>1. H1!ConsumeBody(sending, s) /\ s \o u = H1!Body(sending)
    BY <1>1, <1>5, <1>9, <1>11
  <2>2. Reads(sending, u)
    BY <1>2, <1>4, <1>7, <1>9, <2>1, ConsumeBodyReads DEF HttpInv
  <2> QED
    BY <1>10, <2>2
<1>12. CASE reader_ = "header"
  <2> DEFINE b == SubSeq(s, 3, Len(s))
  <2>1. H1!ConsumeHeaders(s) /\ s \o u = H1!Message(sending)
    BY <1>1, <1>5, <1>9, <1>12
  <2>2. CASE Ends(s) = {}
    <3>1. stream_' = s /\ await' = "read" /\ UNCHANGED <<alive, handler, keep_alive_, seen, reader_, cur>>
      BY <2>1, <2>2 DEF H1!ConsumeHeaders, H1!More, Ends
    <3>2. Rest' = Rest
      <4>1. s \o u = (s \o wire') \o left
        <5>1. ASSUME NEW x \in Seq(Piece), NEW y \in Seq(Piece), NEW z \in Seq(Piece)
              PROVE  x \o (y \o z) = (x \o y) \o z
          OBVIOUS
        <5> QED
          BY <1>3, <1>6, <1>7, <5>1
      <4> QED
        BY <1>2, <1>8, <3>1, <4>1 DEF Rest, Joined
    <3>3. HttpTyped'
      BY <1>2, <1>7, <3>1 DEF HttpInv, HttpTyped, Answering, H1!Await
    <3>4. H1!AnswersInOrder' /\ \A i : Fresh(i)' = Fresh(i) /\ Unanswered(i)' = Unanswered(i)
      BY <1>2, OutKept DEF HttpInv, Answering
    <3>5. Receiving'
      <4>1. H1!Message(sending)' = H1!Message(sending) /\ H1!Body(sending)' = H1!Body(sending)
        BY <1>2 DEF Answering, H1!Message, H1!Body, H1!Head_, H1!End
      <4> QED
        BY <1>2, <1>4, <1>12, <3>1, <3>2, <4>1 DEF HttpInv, Receiving, Answering
    <3>6. Handling' /\ Chunking' /\ Parsed'
      BY <1>2, <1>4, <3>1 DEF HttpInv, Handling, Chunking, Parsed, Answering
    <3> QED
      BY <3>3, <3>4, <3>5, <3>6 DEF HttpInv
  <2>3. CASE Ends(s) # {}
    <3>1. /\ s[2][1] = sending /\ FirstOf(Ends(s)) = 2
          /\ b \in Seq(Piece) /\ b \o u = H1!Body(sending)
      BY <1>7, <1>9, <2>1, <2>3, HeaderEnd DEF HttpInv
    <3>2. H1!OnHeadersComplete(sending, b)
      <4>1. LET k == FirstOf(Ends(s)) IN H1!OnHeadersComplete(s[k][1], SubSeq(s, k + 1, Len(s)))
        BY <2>1, <2>3 DEF H1!ConsumeHeaders, Ends, FirstOf
      <4>2. 2 + 1 = 3
        OBVIOUS
      <4>3. H1!OnHeadersComplete(s[2][1], SubSeq(s, 2 + 1, Len(s)))
        BY <3>1, <4>1
      <4> QED
        BY <3>1, <4>2, <4>3
    <3> HIDE DEF b
    <3>3. size[sending] \in Nat /\ Len(H1!Body(sending)) = size[sending] /\ H1!Body(sending) \in Seq(Piece)
      BY <1>9, Messages DEF HttpInv
    <3>4. CASE size[sending] = 0
      <4>1. H1!Body(sending) = <<>>
        BY <3>3, <3>4, EmptySeq
      <4>2. b = <<>> /\ u = <<>>
        BY <1>7, <3>1, <4>1, ConcatEqualIffEmpty, EmptySeq
      <4>3. /\ H1!Dispatch(sending, b) /\ reader_' = reader_ /\ stream_' = <<>> /\ cur' = sending
        BY <3>2, <3>4 DEF H1!OnHeadersComplete
      <4>4. <<>> \in Seq(Piece)
        BY EmptySeq
      <4>5. Reads(sending, u)
        BY <1>9, <1>12, <4>1, <4>2, <4>3, <4>4 DEF Reads
      <4> QED
        BY <1>10, <4>5
    <3>5. CASE size[sending] # 0 /\ b = <<>> /\ expect[sending]
      <4>1. /\ reader_' = "body" /\ stream_' = <<>> /\ cur' = sending /\ await' = "continue"
            /\ UNCHANGED <<alive, handler, keep_alive_, seen>>
        BY <3>2, <3>5 DEF H1!OnHeadersComplete
      <4>2. Reads(sending, u)
        BY <1>9, <3>1, <3>5, <4>1 DEF Reads
      <4> QED
        BY <1>10, <4>2
    <3>6. CASE size[sending] # 0 /\ ~(b = <<>> /\ expect[sending])
      <4>1. H1!ConsumeBody(sending, b)
        BY <3>2, <3>6 DEF H1!OnHeadersComplete
      <4>2. Reads(sending, u)
        BY <1>2, <1>4, <1>7, <1>9, <3>1, <4>1, ConsumeBodyReads DEF HttpInv
      <4> QED
        BY <1>10, <4>2
    <3> QED
      BY <3>4, <3>5, <3>6
  <2> QED
    BY <2>2, <2>3
<1> QED
  BY <1>9, <1>11, <1>12

\* The steps that end the conversation or give up a promise
LEMMA EndKeeps ==
    ASSUME HttpInv, UNCHANGED <<Answering, sending, left, seen, cur, handler, reader_, stream_>>,
           alive' = FALSE, wire' = <<>>, await' = "none"
    PROVE  HttpInv'
<1>1. H1!AnswersInOrder' /\ \A i : Fresh(i)' = Fresh(i) /\ Unanswered(i)' = Unanswered(i)
  BY OutKept DEF HttpInv, Answering
<1>2. HttpTyped'
  <2>1. wire' \in Seq(Piece)
    BY EmptySeq
  <2> QED
    BY <2>1 DEF HttpInv, HttpTyped, Answering, H1!Await
<1>3. H1!Body(cur)' = H1!Body(cur)
  BY DEF Answering, H1!Body
<1>4. Unanswered(cur)' = Unanswered(cur)
  BY DEF Answering, Unanswered
<1>5. Handling'
  BY <1>3, <1>4 DEF HttpInv, Handling, Answering
<1>6. Receiving' /\ Chunking' /\ Parsed'
  BY DEF HttpInv, Receiving, Chunking, Parsed, Answering
<1> QED
  BY <1>1, <1>2, <1>5, <1>6 DEF HttpInv

LEMMA FailureKeeps == ASSUME HttpInv, H1!ReadFails \/ H1!WriteFails PROVE HttpInv'
  BY EndKeeps DEF H1!ReadFails, H1!WriteFails, H1!OnRequestError, H1!Destroy, H1!client, H1!reading,
     H1!chunking, Answering

\* A promise that is given up while the conversation stays
LEMMA GivenUpKeeps == ASSUME HttpInv, H1!ContinueFails \/ H1!HookFails PROVE HttpInv'
<1>1. /\ UNCHANGED <<Answering, sending, left, seen, cur, handler, reader_, stream_, alive, wire>>
      /\ await' = "none" /\ alive
  BY DEF H1!ContinueFails, H1!HookFails, H1!client, H1!reading, H1!chunking, Answering
<1>2. H1!AnswersInOrder' /\ Fresh(cur)' = Fresh(cur) /\ Unanswered(cur)' = Unanswered(cur)
  <2>1. H1!AnswersInOrder'
    BY <1>1, OutKept DEF HttpInv, Answering
  <2> QED
    BY <1>1, <2>1 DEF Answering, Fresh, Unanswered
<1>3. HttpTyped'
  BY <1>1 DEF HttpInv, HttpTyped, Answering, H1!Await
<1>4. /\ Rest' = Rest /\ H1!Message(sending)' = H1!Message(sending)
      /\ H1!Body(sending)' = H1!Body(sending) /\ H1!Body(cur)' = H1!Body(cur)
  BY <1>1 DEF Answering, Rest, H1!Message, H1!Body, H1!Head_, H1!End
<1>5. Receiving'
  BY <1>1, <1>2, <1>4 DEF HttpInv, Receiving, Answering
<1>6. Handling'
  BY <1>1, <1>2, <1>4 DEF HttpInv, Handling, Answering
<1>7. Chunking' /\ Parsed'
  BY <1>1, <1>2 DEF HttpInv, Chunking, Queued, Parsed, Answering, Fresh
<1> QED
  BY <1>2, <1>3, <1>5, <1>6, <1>7 DEF HttpInv

-----------------------------------------------------------------------------
\* What AnswersInOrder says of one piece
InPlace(k) ==
    /\ out[k][2] \in {"response", "last"} => \A m \in k + 1 .. Len(out) : out[m][1] > out[k][1]
    /\ out[k][2] \in {"chunk", "last"} => \E m \in 1 .. k - 1 : out[m] = <<out[k][1], "headers">>
    /\ out[k][2] \in {"response", "headers"} =>
          \A m \in 1 .. k - 1 : out[m][1] = out[k][1] => out[m][2] = "100"
    /\ out[k][2] = "100" => expect[out[k][1]]
    /\ out[k][2] = "chunk" =>
          \A m \in 1 .. k - 1 : out[m][1] = out[k][1] /\ out[m][2] = "chunk" => out[m][3] < out[k][3]

\* A piece of the response to the request at hand that may come next
MayFollow(x) ==
    /\ x \in Reply /\ x[1] = cur
    /\ x[2] \in {"chunk", "last"} => \E k \in DOMAIN out : out[k] = <<cur, "headers">>
    /\ x[2] \in {"response", "headers"} => Fresh(cur)
    /\ x[2] = "100" => expect[cur]
    /\ x[2] = "chunk" =>
          \A k \in DOMAIN out : out[k][1] = cur /\ out[k][2] = "chunk" => out[k][3] < x[3]

LEMMA OutGrows ==
    ASSUME HttpInv, Unanswered(cur), NEW x, MayFollow(x), out' = Append(out, x), UNCHANGED <<expect, cur>>
    PROVE  /\ H1!AnswersInOrder' /\ Parsed' /\ out' \in Seq(Reply)
           /\ DOMAIN out' = DOMAIN out \union {Len(out) + 1}
           /\ out'[Len(out) + 1] = x /\ \A k \in DOMAIN out : out'[k] = out[k]
<1>1. /\ Len(out) \in Nat /\ DOMAIN out = 1 .. Len(out)
      /\ out' \in Seq(Reply) /\ Len(out') = Len(out) + 1 /\ DOMAIN out' = 1 .. Len(out) + 1
      /\ out'[Len(out) + 1] = x /\ \A k \in DOMAIN out : out'[k] = out[k]
  <2>1. out \in Seq(Reply) /\ x \in Reply
    BY DEF HttpInv, HttpTyped, MayFollow
  <2>2. Len(out) \in Nat /\ DOMAIN out = 1 .. Len(out)
    BY <2>1, LenProperties
  <2>3. /\ Append(out, x) \in Seq(Reply) /\ Len(Append(out, x)) = Len(out) + 1
        /\ \A k \in 1 .. Len(out) : Append(out, x)[k] = out[k]
        /\ Append(out, x)[Len(out) + 1] = x
    BY <2>1, AppendProperties
  <2>4. DOMAIN out' = 1 .. Len(out) + 1
    BY <2>3, LenProperties
  <2> QED
    BY <2>2, <2>3, <2>4
<1>0. PICK n : n = Len(out) + 1
  OBVIOUS
<1>2. n \in Nat /\ DOMAIN out' = DOMAIN out \union {n} /\ \A k \in DOMAIN out : k < n /\ k \in Nat
  BY <1>0, <1>1
<1>3. \A k \in DOMAIN out : out[k][1] \in Nat /\ out[k][1] <= cur
  BY Pieces DEF HttpInv, Parsed
<1>4. cur \in Nat /\ x[1] = cur
  BY DEF HttpInv, HttpTyped, MayFollow
<1>5. Parsed'
  BY <1>0, <1>1, <1>2, <1>3, <1>4 DEF Parsed
<1>6. H1!AnswersInOrder'
  <2>1. H1!AnswersInOrder
    BY DEF HttpInv
  <2>2. ASSUME NEW k \in DOMAIN out', NEW m \in 1 .. k PROVE out'[m][1] <= out'[k][1]
    <3>1. m \in DOMAIN out \/ m = n
      BY <1>0, <1>1, <2>2
    <3>2. CASE k = n
      BY <1>0, <1>1, <1>3, <1>4, <3>1, <3>2
    <3>3. CASE k # n
      <4>1. k \in DOMAIN out /\ m \in DOMAIN out
        BY <1>0, <1>1, <2>2, <3>3
      <4> QED
        BY <1>0, <1>1, <2>1, <2>2, <4>1 DEF H1!AnswersInOrder
    <3> QED
      BY <3>2, <3>3
  <2>3. ASSUME NEW k \in DOMAIN out', k # n PROVE InPlace(k)'
    <3>1. k \in DOMAIN out /\ out'[k] = out[k] /\ \A m \in 1 .. k : m \in DOMAIN out /\ out'[m] = out[m]
      BY <1>0, <1>1, <2>3
    <3>2. ASSUME out[k][2] \in {"response", "last"}, NEW m \in k + 1 .. Len(out') PROVE out'[m][1] > out[k][1]
      <4>1. CASE m = n
        <5>1. out[k][1] # cur
          BY <3>1, <3>2 DEF Unanswered
        <5> QED
          BY <1>0, <1>1, <1>3, <1>4, <3>1, <4>1, <5>1
      <4>2. CASE m # n
        <5>1. m \in k + 1 .. Len(out) /\ out'[m] = out[m]
          BY <1>0, <1>1, <3>1, <3>2, <4>2
        <5> QED
          BY <2>1, <3>1, <3>2, <5>1 DEF H1!AnswersInOrder
      <4> QED
        BY <4>1, <4>2
    <3>3. out[k][2] \in {"chunk", "last"} => \E m \in 1 .. k - 1 : out'[m] = <<out[k][1], "headers">>
      <4> SUFFICES ASSUME out[k][2] \in {"chunk", "last"}
                   PROVE  \E m \in 1 .. k - 1 : out'[m] = <<out[k][1], "headers">>
        OBVIOUS
      <4>1. PICK m \in 1 .. k - 1 : out[m] = <<out[k][1], "headers">>
        BY <2>1, <3>1 DEF H1!AnswersInOrder
      <4>2. m \in 1 .. k
        BY <1>0, <1>1, <3>1, <4>1
      <4> QED
        BY <3>1, <4>1, <4>2
    <3>4. \A m \in 1 .. k - 1 : out'[m] = out[m]
      BY <1>0, <1>1, <3>1
    <3>5. /\ out[k][2] \in {"response", "headers"} =>
                \A m \in 1 .. k - 1 : out[m][1] = out[k][1] => out[m][2] = "100"
          /\ out[k][2] = "100" => expect[out[k][1]]
          /\ out[k][2] = "chunk" =>
                \A m \in 1 .. k - 1 : out[m][1] = out[k][1] /\ out[m][2] = "chunk" => out[m][3] < out[k][3]
      BY <2>1, <3>1 DEF H1!AnswersInOrder
    <3> QED
      BY <3>1, <3>2, <3>3, <3>4, <3>5 DEF InPlace
  <2>4. /\ x[2] \in {"response", "last"} => \A m \in n + 1 .. Len(out') : out'[m][1] > x[1]
        /\ x[2] \in {"chunk", "last"} => \E m \in 1 .. n - 1 : out'[m] = <<x[1], "headers">>
        /\ x[2] \in {"response", "headers"} =>
              \A m \in 1 .. n - 1 : out'[m][1] = x[1] => out'[m][2] = "100"
        /\ x[2] = "100" => expect'[x[1]]
        /\ x[2] = "chunk" =>
              \A m \in 1 .. n - 1 : out'[m][1] = x[1] /\ out'[m][2] = "chunk" => out'[m][3] < x[3]
    <3>1. 1 .. n - 1 = DOMAIN out /\ n + 1 .. Len(out') = {}
      BY <1>0, <1>1
    <3> QED
      BY <1>0, <1>1, <1>4, <3>1 DEF MayFollow, Fresh
  <2>5. InPlace(n)'
    BY <1>0, <1>1, <2>4 DEF InPlace
  <2>6. \A k \in DOMAIN out' : InPlace(k)'
    BY <2>3, <2>5
  <2> QED
    BY <2>2, <2>6 DEF H1!AnswersInOrder, InPlace
<1> QED
  BY <1>0, <1>1, <1>2, <1>5, <1>6

LEMMA ContinueWrittenKeeps == ASSUME HttpInv, H1!ContinueWritten PROVE HttpInv'
<1>1. /\ alive /\ await = "continue" /\ out' = Append(out, <<cur, "100">>) /\ await' = "read"
      /\ UNCHANGED <<size, expect, sending, left, wire, alive, reader_, stream_, cur, seen, handler,
                     writer_, chunks_, writing_, done_, headersSent_, nchunks>>
  BY DEF H1!ContinueWritten, H1!client, H1!reading, H1!chunking
<1>2. handler = "none"
  BY <1>1 DEF HttpInv, Handling
<1>3. reader_ = "body" /\ expect[cur] /\ cur = sending /\ cur > 0 /\ Rest = H1!Body(sending) /\ Fresh(cur)
  BY <1>1, <1>2 DEF HttpInv, Receiving
<1>4. MayFollow(<<cur, "100">>)
  BY <1>3, HttpServerAssumption DEF MayFollow, Reply, H1!Request, HttpInv, HttpTyped
<1>5. Unanswered(cur)
  BY <1>3 DEF Fresh, Unanswered
<1>6. /\ H1!AnswersInOrder' /\ Parsed' /\ out' \in Seq(Reply)
      /\ DOMAIN out' = DOMAIN out \union {Len(out) + 1}
      /\ out'[Len(out) + 1] = <<cur, "100">> /\ \A k \in DOMAIN out : out'[k] = out[k]
  BY <1>1, <1>4, <1>5, OutGrows
<1>7. HttpTyped'
  BY <1>1, <1>6 DEF HttpInv, HttpTyped, H1!Await
<1>8. Rest' = Rest /\ H1!Body(sending)' = H1!Body(sending)
  BY <1>1 DEF Rest, H1!Body
<1>9. Fresh(cur)'
  BY <1>1, <1>3, <1>6 DEF Fresh
<1>10. Receiving'
  BY <1>1, <1>2, <1>3, <1>8, <1>9 DEF HttpInv, Receiving
<1>11. Handling' /\ Chunking'
  BY <1>1, <1>2 DEF Handling, Chunking
<1> QED
  BY <1>6, <1>7, <1>10, <1>11 DEF HttpInv

LEMMA FlushKeeps == ASSUME HttpInv, H1!Flush PROVE HttpInv'
<1>1. /\ alive /\ handler = "busy" /\ handler' = "flushed" /\ await' = "hook"
      /\ UNCHANGED <<size, expect, sending, left, wire, out, alive, reader_, stream_, cur, seen,
                     writer_, chunks_, writing_, done_, headersSent_, nchunks>>
  BY DEF H1!Flush, H1!client, H1!reading, H1!chunking
<1>2. H1!AnswersInOrder' /\ Fresh(cur)' = Fresh(cur) /\ Unanswered(cur)' = Unanswered(cur)
  <2>1. H1!AnswersInOrder'
    BY <1>1, OutKept DEF HttpInv
  <2> QED
    BY <1>1, <2>1 DEF Fresh, Unanswered
<1>3. HttpTyped'
  BY <1>1 DEF HttpInv, HttpTyped, H1!Await
<1>4. Handling'
  <2>1. H1!Body(cur)' = H1!Body(cur)
    BY <1>1 DEF H1!Body
  <2> QED
    BY <1>1, <1>2, <2>1 DEF HttpInv, Handling
<1>5. Receiving' /\ Chunking' /\ Parsed'
  BY <1>1, <1>2 DEF HttpInv, Receiving, Chunking, Queued, Parsed, Fresh
<1> QED
  BY <1>2, <1>3, <1>4, <1>5 DEF HttpInv

\* A handler is at work: what it stands on
LEMMA AtWork ==
    ASSUME HttpInv, handler # "none"
    PROVE  /\ cur \in H1!Request /\ Unanswered(cur) /\ cur \in Nat
           /\ \A k \in {"100", "headers", "response", "last"} : <<cur, k>> \in Reply
           /\ \A n \in Nat : <<cur, "chunk", n>> \in Reply
  BY HttpServerAssumption DEF HttpInv, HttpTyped, Handling, Reply, H1!Request

\* The chunked writer queues the next chunk or the last one.
LEMMA QueueGrows ==
    ASSUME HttpInv, alive, handler # "none", writer_ = "chunked", ~done_,
           NEW y \in Reply, y[1] = cur, chunks_' = Append(chunks_, y),
           \/ y[2] = "last" /\ done_' = TRUE /\ nchunks' = nchunks
           \/ y[2] = "chunk" /\ y[3] = nchunks + 1 /\ nchunks' = nchunks + 1 /\ done_' = done_,
           headersSent_' = TRUE, UNCHANGED <<out, cur>>
    PROVE  Chunking' /\ chunks_' \in Seq(Reply)
<1>1. /\ Len(chunks_) \in Nat /\ DOMAIN chunks_ = 1 .. Len(chunks_) /\ chunks_' \in Seq(Reply)
      /\ Len(chunks_') = Len(chunks_) + 1 /\ DOMAIN chunks_' = 1 .. Len(chunks_) + 1
      /\ chunks_'[Len(chunks_) + 1] = y /\ \A j \in 1 .. Len(chunks_) : chunks_'[j] = chunks_[j]
      /\ chunks_' # <<>>
  <2>1. chunks_ \in Seq(Reply)
    BY DEF HttpInv, HttpTyped
  <2>2. Len(chunks_) \in Nat /\ DOMAIN chunks_ = 1 .. Len(chunks_)
    BY <2>1, LenProperties
  <2>3. /\ Append(chunks_, y) \in Seq(Reply) /\ Len(Append(chunks_, y)) = Len(chunks_) + 1
        /\ Append(chunks_, y) # <<>>
        /\ \A j \in 1 .. Len(chunks_) : Append(chunks_, y)[j] = chunks_[j]
        /\ Append(chunks_, y)[Len(chunks_) + 1] = y
    BY <2>1, AppendProperties
  <2>4. DOMAIN chunks_' = 1 .. Len(chunks_) + 1
    BY <2>3, LenProperties
  <2> QED
    BY <2>2, <2>3, <2>4
<1>2. /\ \A j \in 1 .. Len(chunks_) : Queued(j)
      /\ \/ \E k \in DOMAIN out : out[k] = <<cur, "headers">>
         \/ chunks_ # <<>> /\ chunks_[1] = <<cur, "headers">>
      /\ \A k \in DOMAIN out : out[k][1] = cur /\ out[k][2] = "chunk" => out[k][3] <= nchunks
      /\ nchunks \in Nat /\ nchunks' \in Nat /\ nchunks <= nchunks'
  <2>1. nchunks \in Nat /\ nchunks' \in {nchunks, nchunks + 1}
    BY DEF HttpInv, HttpTyped
  <2>2. nchunks' \in Nat /\ nchunks <= nchunks'
    BY <2>1
  <2> QED
    BY <1>1, <2>1, <2>2 DEF HttpInv, Chunking
<1>3. \A j \in 1 .. Len(chunks_) : chunks_[j][2] = "chunk" => chunks_[j][3] \in Nat
  <2>1. \A j \in 1 .. Len(chunks_) : chunks_[j] \in Reply
    BY ElementOfSeq DEF HttpInv, HttpTyped
  <2>2. \A x \in Reply : x[2] = "chunk" => x[3] \in Nat
    BY DEF Reply
  <2> QED
    BY <2>1, <2>2
<1>4. \A k \in DOMAIN out : out[k][2] = "chunk" => out[k][3] \in Nat
  BY Pieces DEF HttpInv
<1>5. ASSUME NEW j \in 1 .. Len(chunks_) PROVE Queued(j)'
  <2>1. Queued(j) /\ chunks_'[j] = chunks_[j] /\ chunks_[j][2] # "last"
    BY <1>1, <1>2, <1>5 DEF Queued
  <2>2. \A i \in 1 .. j - 1 : chunks_'[i] = chunks_[i]
    BY <1>1, <1>5
  <2>3. chunks_[j][2] = "chunk" => chunks_[j][3] <= nchunks'
    BY <1>2, <1>3, <2>1 DEF Queued
  <2> QED
    BY <2>1, <2>2, <2>3 DEF Queued, Fresh
<1>6. PICK l : l = Len(chunks_) + 1
  OBVIOUS
<1>7. Queued(l)'
  <2>1. chunks_'[l] = y /\ l = Len(chunks_')
    BY <1>1, <1>6
  <2>2. CASE y[2] = "last" /\ done_' = TRUE
    BY <2>1, <2>2 DEF Queued
  <2>3. CASE y[2] = "chunk" /\ y[3] = nchunks + 1 /\ nchunks' = nchunks + 1
    <3>1. \A i \in 1 .. l - 1 : chunks_'[i][2] = "chunk" => chunks_'[i][3] < nchunks + 1
      <4> SUFFICES ASSUME NEW i \in 1 .. l - 1, chunks_'[i][2] = "chunk" PROVE chunks_'[i][3] < nchunks + 1
        OBVIOUS
      <4>1. i \in 1 .. Len(chunks_) /\ chunks_'[i] = chunks_[i]
        BY <1>1, <1>6
      <4>2. chunks_[i][3] <= nchunks
        BY <1>2, <4>1 DEF Queued
      <4> QED
        BY <1>2, <1>3, <4>1, <4>2
    <3>2. \A k \in DOMAIN out : out[k][1] = cur /\ out[k][2] = "chunk" => out[k][3] < nchunks + 1
      BY <1>2, <1>4
    <3> QED
      BY <1>2, <2>1, <2>3, <3>1, <3>2 DEF Queued
  <2> QED
    BY <2>2, <2>3
<1>8. \A j \in DOMAIN chunks_' : Queued(j)'
  BY <1>1, <1>5, <1>6, <1>7
<1>9. \/ \E k \in DOMAIN out : out[k] = <<cur, "headers">>
      \/ chunks_' # <<>> /\ chunks_'[1] = <<cur, "headers">>
  <2>1. chunks_ # <<>> => chunks_'[1] = chunks_[1]
    <3>1. chunks_ # <<>> => 1 \in 1 .. Len(chunks_)
      BY <1>1, EmptySeq DEF HttpInv, HttpTyped
    <3> QED
      BY <1>1, <3>1
  <2> QED
    BY <1>1, <1>2, <2>1
<1>10. \A k \in DOMAIN out : out[k][1] = cur /\ out[k][2] = "chunk" => out[k][3] <= nchunks'
  BY <1>2, <1>4
<1> QED
  BY <1>1, <1>8, <1>9, <1>10 DEF Chunking

\* What the steps of the writers leave alone
Requests == <<size, expect, sending, left, cur, seen>>

\* The parts that a step of a writer keeps while the handler is at work
LEMMA WriterKeeps ==
    ASSUME HttpInv, alive, handler # "none", handler' = handler,
           UNCHANGED <<Requests, alive, out, wire, reader_, stream_>>,
           writer_' \in {"plain", "chunked"}, writing_' \in BOOLEAN, done_' \in BOOLEAN, nchunks' \in Nat,
           headersSent_' = TRUE, chunks_' \in Seq(Reply),
           await' \in {"none", "payload"},
           handler = "busy" => await' = "none" /\ ~done_' /\ writer_' = "chunked",
           await' = "payload" => writer_' = "plain",
           writer_' = "plain" => chunks_' = <<>> /\ Fresh(cur) /\ ~writing_',
           Chunking'
    PROVE  HttpInv'
<1>0. UNCHANGED <<size, expect, sending, left, cur, seen>>
  BY DEF Requests
<1>1. H1!AnswersInOrder' /\ Fresh(cur)' = Fresh(cur) /\ Unanswered(cur)' = Unanswered(cur)
  <2>1. H1!AnswersInOrder'
    BY <1>0, OutKept DEF HttpInv
  <2> QED
    BY <1>0, <2>1 DEF Fresh, Unanswered
<1>2. HttpTyped'
  BY <1>0 DEF HttpInv, HttpTyped, H1!Await
<1>3. Handling'
  <2>1. H1!Body(cur)' = H1!Body(cur)
    BY <1>0 DEF H1!Body
  <2> QED
    BY <1>0, <1>1, <2>1 DEF HttpInv, Handling
<1>4. Receiving' /\ Parsed'
  BY <1>0 DEF HttpInv, Receiving, Parsed
<1> QED
  BY <1>1, <1>2, <1>3, <1>4 DEF HttpInv

LEMMA ChunkKeeps == ASSUME HttpInv, NEW empty \in BOOLEAN, H1!Chunk(empty) PROVE HttpInv'
<1> DEFINE c == <<cur, "chunk", nchunks + 1>>
           h == <<cur, "headers">>
           queued == chunks_ \o (IF headersSent_ THEN <<>> ELSE <<h>>)
<1>1. /\ alive /\ handler = "busy" /\ nchunks' = nchunks + 1 /\ headersSent_' = TRUE /\ writer_' = "chunked"
      /\ IF empty THEN chunks_' = queued /\ UNCHANGED writing_ ELSE H1!ChunkResponse(Append(queued, c))
      /\ UNCHANGED <<size, expect, sending, left, wire, out, alive, await, reader_, stream_, cur, seen,
                     done_, handler>>
  <2>1. chunks_ \in Seq(Reply) /\ h \in Reply /\ c \in Reply
    BY AtWork DEF HttpInv, HttpTyped, H1!Chunk
  <2> HIDE DEF c, h
  <2>2. queued \in Seq(Reply)
    BY <2>1, EmptySeq, ConcatProperties
  <2> HIDE DEF queued
  <2>3. Append(queued, c) = queued \o <<c>>
    BY <2>1, <2>2, AppendIsConcat
  <2> QED
    BY <2>3 DEF queued, h, c, H1!Chunk, H1!client, H1!reading
<1>2. await = "none" /\ ~done_ /\ headersSent_ = (writer_ = "chunked")
      /\ (writer_ = "plain" => chunks_ = <<>> /\ Fresh(cur) /\ ~writing_)
  BY <1>1 DEF HttpInv, Handling
<1>3. /\ chunks_ \in Seq(Reply) /\ h \in Reply /\ c \in Reply /\ nchunks \in Nat /\ nchunks + 1 \in Nat
      /\ headersSent_ \in BOOLEAN /\ writer_ \in {"plain", "chunked"}
      /\ writing_ \in BOOLEAN /\ done_ \in BOOLEAN
  BY <1>1, AtWork DEF HttpInv, HttpTyped
<1>4. queued = IF headersSent_ THEN chunks_ ELSE <<h>>
  <2> HIDE DEF h
  <2>1. chunks_ \o <<>> = chunks_ /\ <<h>> \in Seq(Reply)
    BY <1>3, ConcatEmptySeq
  <2>2. <<>> \o <<h>> = <<h>>
    BY <2>1, ConcatEmptySeq
  <2> QED
    BY <1>2, <1>3, <2>1, <2>2
<1>5. /\ writing_' \in BOOLEAN
      /\ empty => chunks_' = queued /\ writing_' = writing_
      /\ ~empty => chunks_' = Append(queued, c)
  BY <1>1, <1>3 DEF H1!ChunkResponse
<1>6. Chunking' /\ chunks_' \in Seq(Reply)
  <2>1. CASE writer_ = "chunked" /\ ~empty
    <3>1. chunks_' = Append(chunks_, c) /\ c[1] = cur /\ c[2] = "chunk" /\ c[3] = nchunks + 1
      BY <1>2, <1>4, <1>5, <2>1
    <3> HIDE DEF c
    <3> QED
      BY <1>1, <1>2, <1>3, <2>1, <3>1, QueueGrows
  <2>2. CASE writer_ = "chunked" /\ empty
    <3>1. chunks_' = chunks_ /\ writing_' = writing_ /\ done_' = done_
      BY <1>1, <1>2, <1>4, <1>5, <2>2
    <3>2. Chunking
      BY DEF HttpInv
    <3>3. ASSUME NEW j \in DOMAIN chunks_ PROVE Queued(j)'
      <4>1. Queued(j)
        BY <1>1, <2>2, <3>2, <3>3 DEF Chunking
      <4>2. chunks_[j][2] = "chunk" => chunks_[j][3] \in Nat
        <5>1. chunks_[j] \in Reply
          BY <1>3, <3>3, ElementOfSeq, LenProperties
        <5> QED
          BY <5>1 DEF Reply
      <4>3. chunks_[j][2] = "chunk" => chunks_[j][3] <= nchunks'
        BY <1>1, <1>3, <4>1, <4>2 DEF Queued
      <4> QED
        BY <1>1, <3>1, <4>1, <4>3 DEF Queued, Fresh
    <3>4. \A k \in DOMAIN out : out[k][1] = cur /\ out[k][2] = "chunk" => out[k][3] <= nchunks'
      <4>1. \A k \in DOMAIN out : out[k][2] = "chunk" => out[k][3] \in Nat
        BY Pieces DEF HttpInv
      <4>2. \A k \in DOMAIN out : out[k][1] = cur /\ out[k][2] = "chunk" => out[k][3] <= nchunks
        BY <1>1, <2>2, <3>2 DEF Chunking
      <4> QED
        BY <1>1, <1>3, <4>1, <4>2
    <3> QED
      BY <1>1, <1>3, <2>2, <3>1, <3>2, <3>3, <3>4 DEF Chunking
  <2>3. CASE writer_ = "plain"
    <3>1. /\ queued = <<h>> /\ Fresh(cur) /\ ~writing_
      BY <1>2, <1>3, <1>4, <2>3
    <3>2. chunks_' = <<h>> \/ chunks_' = Append(<<h>>, c)
      BY <1>5, <3>1
    <3>3. /\ chunks_' \in Seq(Reply) /\ chunks_' # <<>> /\ chunks_'[1] = h
          /\ DOMAIN chunks_' \in {{1}, {1, 2}} /\ (2 \in DOMAIN chunks_' => chunks_'[2] = c)
      <4> HIDE DEF h, c, queued
      <4>1. CASE chunks_' = <<h>>
        BY <1>3, <4>1
      <4>2. CASE chunks_' = Append(<<h>>, c)
        <5>1. <<h>> \in Seq(Reply) /\ Len(<<h>>) = 1 /\ <<h>>[1] = h
          BY <1>3
        <5>2. /\ chunks_' \in Seq(Reply) /\ chunks_' # <<>> /\ Len(chunks_') = 2
              /\ chunks_'[1] = h /\ chunks_'[2] = c
          BY <1>3, <4>2, <5>1, AppendProperties
        <5>3. DOMAIN chunks_' = 1 .. 2
          BY <5>2, LenProperties
        <5> QED
          BY <5>2, <5>3
      <4> QED
        BY <3>2, <4>1, <4>2
    <3>4. Queued(1)'
      BY <1>1, <3>1, <3>3 DEF Queued, Fresh
    <3>5. 2 \in DOMAIN chunks_' => Queued(2)'
      <4>1. \A k \in DOMAIN out : out[k][1] = cur => out[k][2] # "chunk"
        BY <3>1 DEF Fresh
      <4>2. \A i \in 1 .. 2 - 1 : i = 1
        OBVIOUS
      <4> QED
        BY <1>1, <1>3, <3>3, <4>1, <4>2 DEF Queued
    <3>6. \A k \in DOMAIN out : out[k][1] = cur => out[k][2] # "chunk"
      BY <3>1 DEF Fresh
    <3>7. \A j \in DOMAIN chunks_' : Queued(j)'
      BY <3>3, <3>4, <3>5
    <3> QED
      BY <1>1, <3>3, <3>6, <3>7 DEF Chunking
  <2> QED
    BY <1>3, <2>1, <2>2, <2>3
<1> QED
  BY <1>1, <1>2, <1>3, <1>5, <1>6, WriterKeeps DEF Requests

LEMMA WriterFlushKeeps == ASSUME HttpInv, H1!HookDone PROVE HttpInv'
<1>1. /\ alive /\ await = "hook" /\ headersSent_' = TRUE
      /\ UNCHANGED <<size, expect, sending, left, wire, out, alive, reader_, stream_, cur, seen,
                     writer_, handler, nchunks>>
      /\ IF writer_ = "chunked"
         THEN /\ done_' = TRUE /\ await' = "none" /\ chunks_' = Append(chunks_, <<cur, "last">>)
              /\ writing_' \in {TRUE, writing_}
         ELSE await' = "payload" /\ UNCHANGED <<done_, chunks_, writing_>>
  BY DEF H1!HookDone, H1!ChunkResponse, H1!client, H1!reading
<1>2. handler # "none"
  BY <1>1 DEF HttpInv, Receiving
<1>3. handler = "flushed" /\ ~done_ /\ (writer_ = "plain" => chunks_ = <<>> /\ Fresh(cur) /\ ~writing_)
  BY <1>1, <1>2 DEF HttpInv, Handling, HttpTyped
<1>4. /\ nchunks \in Nat /\ writer_ \in {"plain", "chunked"} /\ writing_ \in BOOLEAN /\ done_ \in BOOLEAN
      /\ chunks_ \in Seq(Reply)
  BY DEF HttpInv, HttpTyped
<1>5. CASE writer_ = "chunked"
  <2>1. <<cur, "last">> \in Reply
    BY <1>2, AtWork
  <2>2. Chunking' /\ chunks_' \in Seq(Reply)
    BY <1>1, <1>2, <1>3, <1>5, <2>1, QueueGrows
  <2> QED
    BY <1>1, <1>2, <1>3, <1>4, <1>5, <2>2, WriterKeeps DEF Requests
<1>6. CASE writer_ = "plain"
  <2>1. Chunking'
    BY <1>1, <1>6 DEF Chunking
  <2> QED
    BY <1>1, <1>2, <1>3, <1>4, <1>6, <2>1, WriterKeeps DEF Requests
<1> QED
  BY <1>4, <1>5, <1>6

\* The response is complete: the next request is read, or the connection ends.
LEMMA CompleteKeeps ==
    ASSUME HttpInv, alive, handler # "none", H1!OnResponseComplete,
           H1!AnswersInOrder', Parsed', out' \in Seq(Reply)
    PROVE  HttpInv'
<1>1. /\ handler' = "none" /\ writer_' = "plain" /\ chunks_' = <<>> /\ ~writing_' /\ writing_' = FALSE
      /\ done_' = FALSE /\ headersSent_' = FALSE /\ nchunks' = 0
      /\ UNCHANGED <<size, expect, sending, left, cur, seen>>
  BY DEF H1!OnResponseComplete, H1!FreshWriter, H1!client
<1>2. cur = sending /\ left = <<>> /\ wire = <<>>
  BY DEF HttpInv, Handling
<1>3. \/ reader_' = "header" /\ stream_' = <<>> /\ await' = "read" /\ UNCHANGED <<wire, alive>>
      \/ alive' = FALSE /\ await' = "none" /\ wire' = <<>> /\ UNCHANGED <<reader_, stream_>>
  BY DEF H1!OnResponseComplete, H1!FreshReader, H1!Destroy
<1>4. <<>> \in Seq(Piece) /\ <<>> \in Seq(Reply) /\ <<>> \o <<>> = <<>>
  BY EmptySeq, ConcatEmptySeq
<1>5. HttpTyped'
  <2>1. stream_' \in Seq(Piece) /\ wire' \in Seq(Piece) /\ reader_' \in {"header", "body"}
        /\ await' \in H1!Await /\ alive' \in BOOLEAN
    BY <1>3, <1>4 DEF HttpInv, HttpTyped, H1!Await
  <2> QED
    BY <1>1, <1>4, <2>1 DEF HttpInv, HttpTyped
<1>6. Receiving'
  <2>1. CASE reader_' = "header" /\ stream_' = <<>> /\ await' = "read" /\ UNCHANGED <<wire, alive>>
    <3>1. Rest' = <<>>
      BY <1>1, <1>2, <1>4, <2>1 DEF Rest, Joined
    <3> QED
      BY <1>1, <1>2, <2>1, <3>1 DEF Receiving
  <2>2. CASE alive' = FALSE
    BY <2>2 DEF Receiving
  <2> QED
    BY <1>3, <2>1, <2>2
<1>7. Handling' /\ Chunking'
  BY <1>1 DEF Handling, Chunking
<1> QED
  BY <1>5, <1>6, <1>7 DEF HttpInv

LEMMA PayloadWrittenKeeps == ASSUME HttpInv, H1!PayloadWritten PROVE HttpInv'
<1>1. /\ alive /\ await = "payload" /\ out' = Append(out, <<cur, "response">>) /\ H1!OnResponseComplete
      /\ UNCHANGED <<expect, cur>>
  BY DEF H1!PayloadWritten, H1!OnResponseComplete, H1!client
<1>2. handler # "none"
  BY <1>1 DEF HttpInv, Receiving
<1>3. Fresh(cur)
  BY <1>1, <1>2 DEF HttpInv, Handling
<1>4. Unanswered(cur) /\ MayFollow(<<cur, "response">>)
  BY <1>2, <1>3, AtWork DEF MayFollow
<1>5. H1!AnswersInOrder' /\ Parsed' /\ out' \in Seq(Reply)
  BY <1>1, <1>4, OutGrows
<1> QED
  BY <1>1, <1>2, <1>5, CompleteKeeps

LEMMA ChunkWrittenKeeps == ASSUME HttpInv, H1!ChunkWritten PROVE HttpInv'
<1>1. PICK x : x = Head(chunks_)
  OBVIOUS
<1>2. /\ alive /\ writing_ /\ out' = Append(out, x) /\ UNCHANGED <<expect, cur>>
      /\ IF Len(chunks_) = 1 /\ done_
         THEN H1!OnResponseComplete
         ELSE /\ chunks_' = Tail(chunks_) /\ writing_' = (Len(chunks_) > 1)
              /\ UNCHANGED <<size, sending, left, wire, alive, await, reader_, stream_, seen,
                             writer_, done_, headersSent_, nchunks, handler>>
  BY <1>1 DEF H1!ChunkWritten, H1!OnResponseComplete, H1!client, H1!reading
<1>3. handler # "none" /\ writer_ = "chunked"
  BY <1>2 DEF HttpInv, Receiving, Handling, HttpTyped
<1>4. /\ headersSent_ /\ chunks_ # <<>> /\ (\A j \in DOMAIN chunks_ : Queued(j))
      /\ \/ \E k \in DOMAIN out : out[k] = <<cur, "headers">>
         \/ chunks_[1] = <<cur, "headers">>
      /\ \A k \in DOMAIN out : out[k][1] = cur /\ out[k][2] = "chunk" => out[k][3] <= nchunks
  BY <1>2, <1>3 DEF HttpInv, Chunking
<1>5. /\ Len(chunks_) \in Nat /\ Len(chunks_) >= 1 /\ DOMAIN chunks_ = 1 .. Len(chunks_)
      /\ x = chunks_[1] /\ x \in Reply /\ 1 \in DOMAIN chunks_ /\ nchunks \in Nat
      /\ Tail(chunks_) \in Seq(Reply) /\ Len(Tail(chunks_)) = Len(chunks_) - 1
      /\ DOMAIN Tail(chunks_) = 1 .. Len(chunks_) - 1
      /\ \A j \in 1 .. Len(chunks_) - 1 : Tail(chunks_)[j] = chunks_[j + 1]
  <2>1. chunks_ \in Seq(Reply) /\ nchunks \in Nat
    BY DEF HttpInv, HttpTyped
  <2>2. Len(chunks_) \in Nat /\ Len(chunks_) >= 1 /\ DOMAIN chunks_ = 1 .. Len(chunks_)
    BY <1>4, <2>1, EmptySeq, LenProperties
  <2>3. x = chunks_[1] /\ x \in Reply
    BY <1>1, <1>4, <2>1, <2>2, ElementOfSeq
  <2>4. /\ Tail(chunks_) \in Seq(Reply) /\ Len(Tail(chunks_)) = Len(chunks_) - 1
        /\ \A j \in 1 .. Len(Tail(chunks_)) : Tail(chunks_)[j] = chunks_[j + 1]
    BY <1>4, <2>1, HeadTailProperties
  <2>5. DOMAIN Tail(chunks_) = 1 .. Len(chunks_) - 1
    BY <2>4, LenProperties
  <2> QED
    BY <2>1, <2>2, <2>3, <2>4, <2>5
<1>6. Queued(1) /\ x[1] = cur /\ x[2] \in {"headers", "chunk", "last"}
  BY <1>4, <1>5 DEF Queued
<1>7. Unanswered(cur) /\ MayFollow(x)
  <2>1. Unanswered(cur)
    BY <1>3, AtWork
  <2>2. x[2] \in {"chunk", "last"} => \E k \in DOMAIN out : out[k] = <<cur, "headers">>
    <3>1. x = <<cur, "headers">> => x[2] = "headers"
      OBVIOUS
    <3> QED
      BY <1>4, <1>5, <3>1
  <2>3. x[2] = "headers" => Fresh(cur)
    BY <1>5, <1>6 DEF Queued
  <2>4. x[2] = "chunk" =>
            \A k \in DOMAIN out : out[k][1] = cur /\ out[k][2] = "chunk" => out[k][3] < x[3]
    BY <1>5, <1>6 DEF Queued
  <2> QED
    BY <1>5, <1>6, <2>1, <2>2, <2>3, <2>4 DEF MayFollow
<1>8. /\ H1!AnswersInOrder' /\ Parsed' /\ out' \in Seq(Reply)
      /\ DOMAIN out' = DOMAIN out \union {Len(out) + 1}
      /\ out'[Len(out) + 1] = x /\ \A k \in DOMAIN out : out'[k] = out[k]
  BY <1>2, <1>7, OutGrows
<1>9. CASE Len(chunks_) = 1 /\ done_
  BY <1>2, <1>3, <1>8, <1>9, CompleteKeeps
<1>10. CASE ~(Len(chunks_) = 1 /\ done_)
  <2>1. /\ chunks_' = Tail(chunks_) /\ writing_' = (Len(chunks_) > 1)
        /\ UNCHANGED <<size, sending, left, wire, alive, await, reader_, stream_, seen,
                       writer_, done_, headersSent_, nchunks, handler>>
    BY <1>2, <1>10
  <2>2. HttpTyped'
    <3>1. writing_' \in BOOLEAN /\ chunks_' \in Seq(Reply)
      BY <1>5, <2>1
    <3> QED
      BY <1>2, <1>8, <2>1, <3>1 DEF HttpInv, HttpTyped
  <2>3. Unanswered(cur)'
    <3>1. x[2] # "last"
      BY <1>5, <1>6, <1>10 DEF Queued
    <3> QED
      BY <1>2, <1>6, <1>7, <1>8, <3>1 DEF Unanswered
  <2>4. Handling'
    <3>1. H1!Body(cur)' = H1!Body(cur)
      BY <1>2, <2>1 DEF H1!Body
    <3>2. Handling
      BY DEF HttpInv
    <3> QED
      BY <1>2, <1>3, <2>1, <2>3, <3>1, <3>2 DEF Handling
  <2>5. Chunking'
    <3>1. headersSent_' /\ (writing_' => chunks_' # <<>>)
      <4>1. Len(chunks_) > 1 => Len(Tail(chunks_)) # 0
        BY <1>5
      <4>2. Len(<<>>) = 0
        BY EmptySeq
      <4> QED
        BY <1>4, <2>1, <4>1, <4>2
    <3>2. ASSUME NEW j \in DOMAIN chunks_' PROVE Queued(j)'
      <4>1. /\ j \in 1 .. Len(chunks_) - 1 /\ j + 1 \in DOMAIN chunks_ /\ j + 1 # 1
            /\ chunks_'[j] = chunks_[j + 1]
        BY <1>5, <2>1, <3>2
      <4>2. Queued(j + 1)
        BY <1>4, <4>1
      <4>3. chunks_[j + 1][2] = "last" => done_ /\ j = Len(chunks_')
        BY <1>5, <2>1, <4>1, <4>2 DEF Queued
      <4>4. CASE chunks_[j + 1][2] = "chunk"
        <5>1. \A i \in 1 .. j - 1 : i + 1 \in 1 .. (j + 1) - 1 /\ chunks_'[i] = chunks_[i + 1]
          BY <1>5, <2>1, <4>1
        <5>2. \A i \in 1 .. j - 1 : chunks_'[i][2] = "chunk" => chunks_'[i][3] < chunks_'[j][3]
          BY <4>1, <4>2, <4>4, <5>1 DEF Queued
        <5>3. x[2] = "chunk" => x[3] < chunks_[j + 1][3]
          <6>1. 1 \in 1 .. (j + 1) - 1
            BY <4>1
          <6> QED
            BY <1>5, <4>2, <4>4, <6>1 DEF Queued
        <5>4. \A k \in DOMAIN out' : out'[k][1] = cur /\ out'[k][2] = "chunk" => out'[k][3] < chunks_'[j][3]
          BY <1>8, <4>1, <4>2, <4>4, <5>3 DEF Queued
        <5> QED
          BY <1>2, <2>1, <4>1, <4>2, <4>4, <5>2, <5>4 DEF Queued
      <4>5. CASE chunks_[j + 1][2] # "chunk"
        BY <1>2, <2>1, <4>1, <4>2, <4>3, <4>5 DEF Queued
      <4> QED
        BY <4>4, <4>5
    <3>3. \E k \in DOMAIN out' : out'[k] = <<cur, "headers">>
      BY <1>4, <1>5, <1>8
    <3>4. \A k \in DOMAIN out' : out'[k][1] = cur /\ out'[k][2] = "chunk" => out'[k][3] <= nchunks
      <4>1. x[2] = "chunk" => x[3] <= nchunks
        BY <1>5, <1>6 DEF Queued
      <4> QED
        BY <1>4, <1>8, <4>1
    <3> QED
      BY <1>2, <2>1, <3>1, <3>2, <3>3, <3>4 DEF Chunking
  <2>6. Receiving'
    BY <1>3, <2>1 DEF Receiving
  <2> QED
    BY <1>8, <2>2, <2>4, <2>5, <2>6 DEF HttpInv
<1> QED
  BY <1>9, <1>10

-----------------------------------------------------------------------------
LEMMA NextHttp == HttpInv /\ [Next]_vars => HttpInv'
<1> SUFFICES ASSUME HttpInv, [Next]_vars PROVE HttpInv'
  OBVIOUS
<1>1. CASE UNCHANGED http
  BY <1>1, HttpStutter DEF http
<1>2. CASE Shutdown \/ TcpAccept \/ SslAccept \/ DoSslAccept \/ ClientGoes \/ OnAccept2(H2!Next)
  BY <1>1, <1>2 DEF OnAccept2, Shutdown, TcpAccept, SslAccept, DoSslAccept, ClientGoes
<1>3. CASE OnAccept(H1!Next)
  <2>1. CASE H1!ClientBegins \/ H1!ClientSends
    BY <2>1, ClientBeginsKeeps, ClientSendsKeeps
  <2>2. CASE H1!ClientGoes
    BY <2>2, HttpStutter DEF H1!ClientGoes, H1!reading, H1!chunking
  <2>3. CASE H1!Accept \/ H1!Read \/ H1!ContinueWritten
    BY <2>3, AcceptKeeps, ReadKeeps, ContinueWrittenKeeps
  <2>4. CASE H1!ReadFails \/ H1!WriteFails \/ H1!ContinueFails \/ H1!HookFails
    BY <2>4, FailureKeeps, GivenUpKeeps
  <2>5. CASE H1!HookDone \/ H1!PayloadWritten \/ H1!ChunkWritten
    BY <2>5, WriterFlushKeeps, PayloadWrittenKeeps, ChunkWrittenKeeps
  <2>6. CASE H1!Handler
    BY <2>6, FlushKeeps, ChunkKeeps DEF H1!Handler
  <2> QED
    BY <1>3, <2>1, <2>2, <2>3, <2>4, <2>5, <2>6 DEF OnAccept, H1!Next, H1!Client, H1!Io
<1>4. CASE UNCHANGED vars
  BY <1>1, <1>4 DEF vars
<1> QED
  BY <1>2, <1>3, <1>4 DEF Next

\* What an HTTP/1.1 connection writes is a sequence of well-formed responses in the order of the
\* requests (conversation.cpp; chunkResponse of server_writer.cpp).
THEOREM AnswersInOrderHolds == Spec => []AnswersInOrder
<1>1. HttpInv => AnswersInOrder
  BY DEF HttpInv, AnswersInOrder
<1> QED
  BY <1>1, InitHttp, NextHttp, PTL DEF Spec

\* An HTTP/1.1 handler is called with the request that the client is at and with all of its body,
\* however TCP cut it (the readers of server_reader.cpp).
THEOREM BodyExactHolds == Spec => []BodyExact
<1>1. HttpInv => BodyExact
  BY DEF HttpInv, Handling, BodyExact, H1!BodyExact
<1> QED
  BY <1>1, InitHttp, NextHttp, PTL DEF Spec
=============================================================================
