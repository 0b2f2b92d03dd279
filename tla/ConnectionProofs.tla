-------------------------- MODULE ConnectionProofs --------------------------
(***************************************************************************)
(* Proofs about Connection for any number of calls, any sizes and any      *)
(* socket buffer.                                                          *)
(*                                                                         *)
(* PendingIsArmed is inductive beside the types.  WriteWhole is not: that a*)
(* write which is resolved is whole rests on how much of it is left while  *)
(* it is pending (Partial), on a tick being there for one write only, with *)
(* no event beside it (WriteTicks), and on writes being begun one after the*)
(* other, so that the bytes of the last one come last (InOrder).           *)
(***************************************************************************)
EXTENDS Connection, TLAPS, FiniteSetTheorems, SequenceTheorems

\* A tick or an event, never both, will settle the write that is pending.
WriteTicks ==
    /\ armed["write"] # "off" => wr.state = "pending" /\ ~Ticking("write")
    /\ \A i \in DOMAIN ticks :
          ticks[i].op = "write" => wr.state = "pending" /\ (ticks[i].ok => wr.left = 0)
    /\ \A i, j \in DOMAIN ticks : ticks[i].op = "write" /\ ticks[j].op = "write" => i = j

\* What is left of the write that is pending is what the kernel has not accepted.
Partial ==
    wr.state = "pending" =>
        /\ wr.id \in 1 .. calls
        /\ Accepted(wr.id) + wr.left = size[wr.id]
        /\ outcome[wr.id] # "resolved"

\* Nothing is accepted after the last write that was begun, or for one that is still to come.
InOrder ==
    /\ \A k \in DOMAIN stream : stream[k] <= calls
    /\ wr.state = "pending" => \A k \in DOMAIN stream : stream[k] <= wr.id

WriteInv == WriteTicks /\ Partial /\ InOrder /\ WriteWhole

\* read(n) never has more than n.
ReadFits == rd.want = 0 \/ rd.got <= rd.want

ConnInv == TypeOK /\ ReadFits /\ PendingIsArmed /\ WriteInv

-----------------------------------------------------------------------------
(* Types *)

LEMMA TakeFits ==
    ASSUME inbox \in Nat, NEW r, r.want \in Nat, r.got \in Nat, r.want = 0 \/ r.got <= r.want,
           NEW t \in Take(r)
    PROVE  /\ t.n \in 0 .. inbox
           /\ r.want = 0 \/ r.got + t.n <= r.want
BY DEF Take, Least

LEMMA InitConn == Init => ConnInv
<1> SUFFICES ASSUME Init PROVE ConnInv
  OBVIOUS
<1>0. MaxCalls \in Nat /\ SockBuf \in Nat
  BY ConnectionAssumption
<1>1. TypeOK
  <2>1. /\ rd \in [state : {"idle", "pending", "shutdown"}, want : Nat, got : Nat]
        /\ wr \in [state : {"idle", "pending"}, id : 0 .. MaxCalls, left : Nat]
    BY <1>0 DEF Init, NoRead, NoWrite
  <2>2. /\ armed \in [Op -> {"off", "on", "timer", "now"}]
        /\ size \in [CallId -> Nat] /\ outcome \in [CallId -> Outcome]
    BY DEF Init, Outcome
  <2>3. stream \in Seq(CallId) /\ ticks \in Seq([op : Op, ok : BOOLEAN])
    BY DEF Init
  <2>4. /\ class \in {"tcp", "ssl"} /\ winsock \in BOOLEAN /\ timed \in BOOLEAN
        /\ fd \in BOOLEAN /\ eof \in BOOLEAN /\ broken \in BOOLEAN
    BY DEF Init
  <2>5. inbox \in Nat /\ outbox \in 0 .. SockBuf /\ sent \in Nat /\ calls \in 0 .. MaxCalls
    BY <1>0 DEF Init
  <2> QED
    BY <2>1, <2>2, <2>3, <2>4, <2>5 DEF TypeOK
<1>2. ReadFits /\ PendingIsArmed
  BY DEF Init, ReadFits, PendingIsArmed, NoRead, NoWrite
<1>3. DOMAIN stream = {} /\ DOMAIN ticks = {} /\ Len(stream) = 0
  BY DEF Init
<1>4. \A i \in CallId : Accepted(i) = 0
  <2>1. \A i \in CallId : {k \in DOMAIN stream : stream[k] = i} = {}
    BY <1>3
  <2> QED
    BY <2>1, FS_EmptySet DEF Accepted
<1>5. WriteTicks /\ Partial /\ InOrder
  BY <1>3 DEF Init, WriteTicks, Partial, InOrder, NoWrite, Op
<1>6. WriteWhole
  BY <1>3, <1>4 DEF Init, WriteWhole
<1> QED
  BY <1>1, <1>2, <1>5, <1>6 DEF ConnInv, WriteInv

LEMMA EndsType ==
    ASSUME TypeOK, NEW what \in Outcome, Ends(what)
    PROVE  /\ wr' \in [state : {"idle", "pending"}, id : 0 .. MaxCalls, left : Nat]
           /\ outcome' \in [CallId -> Outcome] /\ size' \in [CallId -> Nat]
<1>1. NoWrite \in [state : {"idle", "pending"}, id : 0 .. MaxCalls, left : Nat]
  BY ConnectionAssumption DEF NoWrite
<1>2. outcome' \in [CallId -> Outcome]
  BY DEF TypeOK, Ends
<1> QED
  BY <1>1, <1>2 DEF TypeOK, Ends

LEMMA AcceptType ==
    ASSUME TypeOK, NEW i \in CallId, NEW n \in 0 .. Room, Accept(i, n)
    PROVE  /\ stream' \in Seq(CallId) /\ outbox' \in 0 .. SockBuf
           /\ inbox' \in Nat /\ eof' \in BOOLEAN /\ broken' \in BOOLEAN /\ sent' \in Nat
<1>1. [k \in 1 .. n |-> i] \in Seq(CallId)
  BY DEF Room, TypeOK
<1> QED
  BY <1>1, ConnectionAssumption DEF TypeOK, Accept, Room

LEMMA CancelsType ==
    ASSUME TypeOK, Cancels
    PROVE  /\ armed' \in [Op -> {"off", "on", "timer", "now"}]
           /\ rd' \in {rd, NoRead}
           /\ rd' \in [state : {"idle", "pending", "shutdown"}, want : Nat, got : Nat]
           /\ wr' \in [state : {"idle", "pending"}, id : 0 .. MaxCalls, left : Nat]
           /\ outcome' \in [CallId -> Outcome] /\ size' \in [CallId -> Nat]
           /\ stream' \in Seq(CallId)
<1>1. CASE wr.state = "pending" /\ ~Ticking("write")
  <2>1. Ends("abandoned") /\ stream' = stream
    BY <1>1 DEF Cancels
  <2> QED
    BY <2>1, EndsType DEF Cancels, TypeOK, NoRead, Outcome
<1>2. CASE ~(wr.state = "pending" /\ ~Ticking("write"))
  BY <1>2 DEF Cancels, TypeOK, NoRead, writes
<1> QED
  BY <1>1, <1>2

LEMMA ArmType ==
    ASSUME TypeOK, NEW op \in Op, Arm(op) \/ Again(op) \/ Disarm(op)
    PROVE  armed' \in [Op -> {"off", "on", "timer", "now"}]
BY DEF TypeOK, Arm, Again, Disarm

LEMMA TickType ==
    ASSUME TypeOK, NEW op \in Op, NEW ok \in BOOLEAN, NextTick(op, ok)
    PROVE  ticks' \in Seq([op : Op, ok : BOOLEAN])
BY DEF TypeOK, NextTick

\* The reads, which leave writes alone
LEMMA ReadType ==
    ASSUME TypeOK, ReadFits,
           \/ \E n \in 0 .. MaxSize : TcpRead(n) \/ SslRead(n)
           \/ TcpReadable \/ SslReadable \/ TcpReadTimeout
    PROVE  TypeOK' /\ ReadFits'
<1>0. /\ rd \in [state : {"idle", "pending", "shutdown"}, want : Nat, got : Nat] /\ inbox \in Nat
      /\ "read" \in Op /\ MaxSize \in Nat /\ MaxCalls \in Nat
  BY ConnectionAssumption DEF TypeOK, Op
<1> DEFINE RdType == rd' \in [state : {"idle", "pending", "shutdown"}, want : Nat, got : Nat]
           Others == UNCHANGED <<config, fd, outbox, eof, broken, sent, writes>>
<1>1. ASSUME RdType, Others, inbox' \in Nat, calls' \in 0 .. MaxCalls,
             armed' = armed \/ Arm("read") \/ Again("read") \/ Disarm("read"),
             ticks' = ticks \/ \E ok \in BOOLEAN : NextTick("read", ok)
      PROVE  TypeOK'
  <2>1. armed' \in [Op -> {"off", "on", "timer", "now"}]
    BY <1>0, <1>1, ArmType DEF TypeOK
  <2>2. ticks' \in Seq([op : Op, ok : BOOLEAN])
    BY <1>0, <1>1, TickType DEF TypeOK
  <2> QED
    BY <1>1, <2>1, <2>2 DEF TypeOK, config, writes
<1>2. Called => calls' \in 0 .. MaxCalls
  BY <1>0 DEF Called, TypeOK
<1>3. ASSUME NEW n \in 0 .. MaxSize, TcpRead(n) PROVE TypeOK' /\ ReadFits'
  <2>1. rd' = [state |-> "pending", want |-> n, got |-> 0] /\ n \in Nat
    BY <1>0, <1>3 DEF TcpRead
  <2>2. RdType /\ ReadFits'
    BY <2>1 DEF ReadFits
  <2> QED
    BY <1>0, <1>1, <1>2, <1>3, <2>2 DEF TcpRead, kernel, TypeOK
<1>4. ASSUME NEW n \in 0 .. MaxSize, SslRead(n) PROVE TypeOK' /\ ReadFits'
  <2> DEFINE r == [state |-> "pending", want |-> n, got |-> 0]
  <2>1. PICK t \in Take(r) :
          /\ inbox' = inbox - t.n
          /\ rd' = [state |-> "pending", want |-> n, got |-> t.n]
          /\ \/ Arm("read") /\ UNCHANGED ticks
             \/ NextTick("read", t.to = "resolve") /\ UNCHANGED armed
    BY <1>4 DEF SslRead, do_ssl_read
  <2>2. t.n \in 0 .. inbox /\ (n = 0 \/ t.n <= n)
    <3>1. r.want = n /\ r.got = 0 /\ n \in Nat
      BY <1>0
    <3> HIDE DEF r
    <3> QED
      BY <1>0, <3>1, TakeFits
  <2>3. RdType /\ ReadFits' /\ inbox' \in Nat
    BY <1>0, <2>1, <2>2 DEF ReadFits
  <2> QED
    BY <1>1, <1>2, <1>4, <2>1, <2>3 DEF SslRead
<1>5. ASSUME TcpReadable \/ SslReadable PROVE TypeOK' /\ ReadFits'
  <2>1. PICK t \in Take(rd) :
          /\ inbox' = inbox - t.n
          /\ \/ rd' = [rd EXCEPT !.got = @ + t.n] /\ (Arm("read") \/ Again("read"))
             \/ rd' = NoRead /\ Disarm("read")
    BY <1>5 DEF TcpReadable, SslReadable, do_ssl_read, Settled
  <2>2. t.n \in 0 .. inbox /\ (rd.want = 0 \/ rd.got + t.n <= rd.want)
    BY <1>0, TakeFits DEF ReadFits
  <2>3. RdType /\ ReadFits' /\ inbox' \in Nat
    BY <1>0, <2>1, <2>2 DEF ReadFits, NoRead
  <2> QED
    BY <1>1, <1>5, <2>1, <2>3 DEF TcpReadable, SslReadable, TypeOK
<1>6. ASSUME TcpReadTimeout PROVE TypeOK' /\ ReadFits'
  <2>1. RdType /\ ReadFits'
    BY <1>6 DEF TcpReadTimeout, Settled, NoRead, ReadFits
  <2> QED
    BY <1>0, <1>1, <1>6, <2>1 DEF TcpReadTimeout, kernel, TypeOK
<1> QED
  BY <1>3, <1>4, <1>5, <1>6

\* What a write needs of the state: its event is there for it alone.
LEMMA OwnEvent ==
    ASSUME ConnInv, armed["write"] # "off"
    PROVE  wr.state = "pending" /\ wr.id \in CallId /\ wr.id \in 1 .. calls /\ wr.left \in Nat
BY ConnectionAssumption DEF ConnInv, WriteInv, WriteTicks, Partial, TypeOK, CallId

LEMMA LeastRoom ==
    ASSUME TypeOK, NEW n \in Nat
    PROVE  Least(n, Room) \in 0 .. Room /\ Least(n, Room) <= n /\ Room \in Nat
BY ConnectionAssumption DEF TypeOK, Least, Room

\* write(), which does not change what is read
LEMMA WriteType ==
    ASSUME ConnInv, NEW n \in 1 .. MaxSize, NEW waits \in BOOLEAN, Write(n, waits)
    PROVE  TypeOK' /\ ReadFits'
<1>0. TypeOK /\ ReadFits /\ "write" \in Op /\ n \in Nat /\ MaxCalls \in Nat
  BY ConnectionAssumption DEF ConnInv, Op
<1> DEFINE k == IF broken THEN 0 ELSE Least(n, Room)
<1>1. k \in 0 .. Room /\ k <= n
  BY <1>0, LeastRoom
<1>2. /\ Called /\ Accept(calls', k) /\ Begins(n, n - k, "pending")
      /\ (Arm("write") /\ UNCHANGED ticks) \/ (NextTick("write", k = n) /\ UNCHANGED armed)
      /\ UNCHANGED <<config, fd, rd>>
  BY DEF Write
<1> HIDE DEF k
<1>3. calls' \in CallId /\ calls' \in 0 .. MaxCalls
  BY <1>0, <1>2 DEF Called, TypeOK, CallId
<1>4. /\ stream' \in Seq(CallId) /\ outbox' \in 0 .. SockBuf
      /\ inbox' \in Nat /\ eof' \in BOOLEAN /\ broken' \in BOOLEAN /\ sent' \in Nat
  BY <1>0, <1>1, <1>2, <1>3, AcceptType
<1>5. wr' \in [state : {"idle", "pending"}, id : 0 .. MaxCalls, left : Nat]
  BY <1>0, <1>1, <1>2, <1>3 DEF Begins
<1>6. size' \in [CallId -> Nat] /\ outcome' \in [CallId -> Outcome]
  BY <1>0, <1>2 DEF Begins, TypeOK, Outcome
<1>7. armed' \in [Op -> {"off", "on", "timer", "now"}]
  BY <1>0, <1>2, ArmType DEF TypeOK
<1>8. ticks' \in Seq([op : Op, ok : BOOLEAN])
  BY <1>0, <1>2, TickType DEF TypeOK
<1> QED
  BY <1>0, <1>2, <1>3, <1>4, <1>5, <1>6, <1>7, <1>8 DEF TypeOK, ReadFits, config

LEMMA WritableType ==
    ASSUME ConnInv, Writable \/ TcpWriteTimeout
    PROVE  TypeOK' /\ ReadFits'
<1>0. TypeOK /\ ReadFits /\ "write" \in Op /\ Outcome = Outcome \union {"resolved", "rejected"}
  BY DEF ConnInv, Op, Outcome
<1>1. wr.state = "pending" /\ wr.id \in CallId /\ wr.left \in Nat
  BY OwnEvent DEF Writable, TcpWriteTimeout
<1>2. UNCHANGED <<config, fd, calls, rd, ticks>>
  BY DEF Writable, TcpWriteTimeout
<1>3. armed' \in [Op -> {"off", "on", "timer", "now"}]
  BY <1>0, ArmType DEF Writable, TcpWriteTimeout, do_ssl_write
<1>4. CASE UNCHANGED <<kernel, stream>> /\ \E what \in Outcome : Ends(what)
  BY <1>0, <1>2, <1>3, <1>4, EndsType DEF TypeOK, ReadFits, config, kernel
<1>5. CASE \E k \in 0 .. Room :
             /\ k <= wr.left /\ Accept(wr.id, k)
             /\ \/ \E what \in Outcome : Ends(what)
                \/ wr' = [wr EXCEPT !.left = @ - k] /\ UNCHANGED <<size, outcome>>
  <2>1. PICK k \in 0 .. Room :
             /\ k <= wr.left /\ Accept(wr.id, k)
             /\ \/ \E what \in Outcome : Ends(what)
                \/ wr' = [wr EXCEPT !.left = @ - k] /\ UNCHANGED <<size, outcome>>
    BY <1>5
  <2>2. /\ stream' \in Seq(CallId) /\ outbox' \in 0 .. SockBuf
        /\ inbox' \in Nat /\ eof' \in BOOLEAN /\ broken' \in BOOLEAN /\ sent' \in Nat
    BY <1>0, <1>1, <2>1, AcceptType
  <2>3. /\ wr' \in [state : {"idle", "pending"}, id : 0 .. MaxCalls, left : Nat]
        /\ outcome' \in [CallId -> Outcome] /\ size' \in [CallId -> Nat]
    <3>1. CASE \E what \in Outcome : Ends(what)
      BY <1>0, <3>1, EndsType
    <3>2. CASE wr' = [wr EXCEPT !.left = @ - k] /\ UNCHANGED <<size, outcome>>
      <4>1. Room \in Nat
        BY <1>0, <1>1, LeastRoom
      <4>2. wr.left - k \in Nat
        BY <1>1, <2>1, <4>1
      <4> QED
        BY <1>0, <3>2, <4>2 DEF TypeOK
    <3> QED
      BY <2>1, <3>1, <3>2
  <2> QED
    BY <1>0, <1>2, <1>3, <2>2, <2>3 DEF TypeOK, ReadFits, config
<1>6. CASE TcpWriteTimeout
  BY <1>0, <1>4, <1>6 DEF TcpWriteTimeout
<1>7. CASE Writable
  <2>1. CASE broken
    BY <1>0, <1>4, <1>7, <2>1 DEF Writable
  <2>2. CASE ~broken
    <3>1. Least(wr.left, Room) \in 0 .. Room /\ Least(wr.left, Room) <= wr.left
      BY <1>0, <1>1, LeastRoom
    <3>2. /\ Accept(wr.id, Least(wr.left, Room))
          /\ \/ Ends("resolved")
             \/ wr' = [wr EXCEPT !.left = @ - Least(wr.left, Room)] /\ UNCHANGED <<size, outcome>>
      BY <1>7, <2>2 DEF Writable
    <3>3. "resolved" \in Outcome
      BY DEF Outcome
    <3> QED
      BY <1>5, <3>1, <3>2, <3>3
  <2> QED
    BY <2>1, <2>2
<1> QED
  BY <1>6, <1>7

LEMMA EndingType ==
    ASSUME ConnInv, Ticks \/ Cancel \/ Close \/ TcpShutdown \/ TcpShutdownEnds \/ SslShutdown
    PROVE  TypeOK' /\ ReadFits'
<1>0. /\ TypeOK /\ ReadFits /\ Outcome = Outcome \union {"resolved", "rejected"}
      /\ "read" \in Op /\ MaxCalls \in Nat
      /\ NoRead \in [state : {"idle", "pending", "shutdown"}, want : Nat, got : Nat] /\ NoRead.want = 0
  BY ConnectionAssumption DEF ConnInv, Outcome, NoRead, Op
<1>1. Called => calls' \in 0 .. MaxCalls
  BY <1>0 DEF Called, TypeOK
<1>2. ASSUME Cancels, fd' \in BOOLEAN, calls' \in 0 .. MaxCalls, UNCHANGED <<config, kernel, ticks>>
      PROVE  TypeOK' /\ ReadFits'
  BY <1>0, <1>2, CancelsType DEF TypeOK, ReadFits, config, kernel
<1>3. CASE Cancel \/ Close \/ TcpShutdownEnds
  BY <1>0, <1>1, <1>2, <1>3 DEF Cancel, Close, TcpShutdownEnds, TypeOK
<1>4. CASE SslShutdown
  <2>1. CASE UNCHANGED <<fd, rd, writes, armed>>
    BY <1>0, <1>1, <1>4, <2>1 DEF SslShutdown, TypeOK, ReadFits, config, kernel, writes
  <2> QED
    BY <1>1, <1>2, <1>4, <2>1 DEF SslShutdown
<1>5. CASE TcpShutdown
  <2>1. /\ rd' \in [state : {"idle", "pending", "shutdown"}, want : Nat, got : Nat]
        /\ rd'.want = 0
    BY <1>0, <1>5 DEF TcpShutdown
  <2>2. armed' \in [Op -> {"off", "on", "timer", "now"}]
    BY <1>0, <1>5, ArmType DEF TcpShutdown
  <2> QED
    BY <1>0, <1>1, <1>5, <2>1, <2>2 DEF TcpShutdown, TypeOK, ReadFits, config, writes
<1>6. CASE Ticks
  <2>1. ticks # <<>> /\ ticks' = Tail(ticks) /\ UNCHANGED <<config, fd, kernel, calls, armed>>
    BY <1>6 DEF Ticks
  <2>2. ticks' \in Seq([op : Op, ok : BOOLEAN])
    BY <1>0, <2>1 DEF TypeOK
  <2>3. \/ rd' = NoRead /\ UNCHANGED writes
        \/ (\E what \in Outcome : Ends(what)) /\ UNCHANGED <<rd, stream>>
    BY <1>0, <1>6 DEF Ticks, Settled
  <2>4. CASE rd' = NoRead /\ UNCHANGED writes
    BY <1>0, <2>1, <2>2, <2>4 DEF TypeOK, ReadFits, config, kernel, writes
  <2>5. CASE (\E what \in Outcome : Ends(what)) /\ UNCHANGED <<rd, stream>>
    BY <1>0, <2>1, <2>2, <2>5, EndsType DEF TypeOK, ReadFits, config, kernel
  <2> QED
    BY <2>3, <2>4, <2>5
<1> QED
  BY <1>3, <1>4, <1>5, <1>6

-----------------------------------------------------------------------------
(* PendingIsArmed *)

\* An event that is made for one operation of a TcpConnection leaves the other's alone.
LEMMA TcpArms ==
    ASSUME TypeOK, class = "tcp", NEW op \in Op, Arm(op) \/ Again(op)
    PROVE  armed'[op] # "off" /\ \A o \in Op \ {op} : armed'[o] = armed[o]
BY DEF TypeOK, Arm, Again

LEMMA TcpDisarms ==
    ASSUME TypeOK, NEW op \in Op, Disarm(op)
    PROVE  \A o \in Op \ {op} : armed'[o] = armed[o]
BY DEF TypeOK, Disarm

\* Appended, a tick is there, and those before it still are.
LEMMA TickStays ==
    ASSUME TypeOK, NEW op \in Op, NEW ok \in BOOLEAN, NextTick(op, ok)
    PROVE  /\ Ticking(op)'
           /\ \A o \in Op : Ticking(o) => Ticking(o)'
<1>1. /\ ticks' = Append(ticks, [op |-> op, ok |-> ok]) /\ ticks \in Seq([op : Op, ok : BOOLEAN])
      /\ Len(ticks) \in Nat
  BY DEF NextTick, TypeOK
<1>2. /\ DOMAIN ticks' = 1 .. Len(ticks) + 1
      /\ ticks'[Len(ticks) + 1].op = op
      /\ \A i \in DOMAIN ticks : i \in DOMAIN ticks' /\ ticks'[i] = ticks[i]
  BY <1>1
<1> QED
  BY <1>1, <1>2 DEF Ticking

\* The tick that runs goes, the others move up.
LEMMA TickGoes ==
    ASSUME TypeOK, ticks # <<>>, ticks' = Tail(ticks)
    PROVE  /\ DOMAIN ticks' = 1 .. Len(ticks) - 1
           /\ \A i \in DOMAIN ticks' : i + 1 \in DOMAIN ticks /\ ticks'[i] = ticks[i + 1]
           /\ 1 \in DOMAIN ticks /\ Head(ticks) = ticks[1]
           /\ \A o \in Op : Ticking(o) /\ Head(ticks).op # o => Ticking(o)'
<1>1. ticks \in Seq([op : Op, ok : BOOLEAN]) /\ Len(ticks) \in Nat \ {0}
  BY DEF TypeOK
<1>2. /\ DOMAIN ticks' = 1 .. Len(ticks) - 1
      /\ \A i \in DOMAIN ticks' : i + 1 \in DOMAIN ticks /\ ticks'[i] = ticks[i + 1]
      /\ 1 \in DOMAIN ticks /\ Head(ticks) = ticks[1]
  BY <1>1
<1>3. ASSUME NEW o \in Op, NEW i \in DOMAIN ticks, ticks[i].op = o, Head(ticks).op # o
      PROVE  Ticking(o)'
  <2>1. i - 1 \in DOMAIN ticks' /\ ticks'[i - 1] = ticks[i]
    BY <1>1, <1>2, <1>3
  <2> QED
    BY <1>3, <2>1 DEF Ticking
<1> QED
  BY <1>2, <1>3 DEF Ticking

LEMMA NextArmed ==
    ASSUME ConnInv, [Next]_vars
    PROVE  PendingIsArmed'
<1> SUFFICES ASSUME class' = "tcp"
             PROVE  (rd.state # "idle" => Waits("read"))' /\ (wr.state = "pending" => Waits("write"))'
  BY DEF PendingIsArmed
<1> DEFINE ReadWaits == rd.state # "idle" => Waits("read")
           WriteWaits == wr.state = "pending" => Waits("write")
<1>0. TypeOK /\ Op = {"read", "write"}
  BY DEF ConnInv, Op
<1>1. class = "tcp"
  BY DEF Next, Program, TcpRead, SslRead, TcpWrite, SslWrite, Write, Cancel, Close, TcpShutdown, SslShutdown,
         Readable, TcpReadable, SslReadable, TcpShutdownEnds, Writable, TcpReadTimeout, TcpWriteTimeout,
         Ticks, Peer, vars, config
<1>2. ReadWaits /\ WriteWaits
  BY <1>1 DEF ConnInv, PendingIsArmed
<1>3. UNCHANGED <<rd, ticks>> /\ armed'["read"] = armed["read"] => ReadWaits'
  BY <1>2 DEF Waits, Ticking
<1>4. UNCHANGED <<wr, ticks>> /\ armed'["write"] = armed["write"] => WriteWaits'
  BY <1>2 DEF Waits, Ticking
<1>5. armed'["read"] # "off" => ReadWaits'
  BY DEF Waits
<1>6. armed'["write"] # "off" => WriteWaits'
  BY DEF Waits
<1>7. (rd' = NoRead => ReadWaits') /\ (wr' = NoWrite => WriteWaits')
  BY DEF NoRead, NoWrite
<1>8. ASSUME Cancels, ticks' = ticks PROVE ReadWaits' /\ WriteWaits'
  <2>1. ReadWaits'
    BY <1>7, <1>8 DEF Cancels, Waits, Ticking
  <2>2. WriteWaits'
    BY <1>7, <1>8 DEF Cancels, Ends, Waits, Ticking, writes
  <2> QED
    BY <2>1, <2>2
<1>9. CASE Cancel \/ Close \/ TcpShutdownEnds
  BY <1>8, <1>9 DEF Cancel, Close, TcpShutdownEnds
<1>10. CASE TcpShutdown \/ \E n \in 0 .. MaxSize : TcpRead(n)
  <2>1. Arm("read") /\ UNCHANGED <<wr, ticks>>
    BY <1>10 DEF TcpShutdown, TcpRead, writes
  <2> QED
    BY <1>0, <1>1, <1>4, <1>5, <2>1, TcpArms
<1>11. CASE TcpReadable
  <2>1. /\ UNCHANGED <<wr, ticks>>
        /\ Again("read") \/ (rd' = NoRead /\ Disarm("read"))
    BY <1>11 DEF TcpReadable, Settled, writes
  <2> QED
    BY <1>0, <1>1, <1>4, <1>5, <1>7, <2>1, TcpArms, TcpDisarms
<1>12. CASE TcpReadTimeout
  BY <1>0, <1>4, <1>7, <1>12, TcpDisarms DEF TcpReadTimeout, Settled, writes
<1>13. ASSUME NEW n \in 1 .. MaxSize, TcpWrite(n) PROVE ReadWaits' /\ WriteWaits'
  <2>1. /\ rd' = rd
        /\ \/ Arm("write") /\ UNCHANGED ticks
           \/ (\E ok \in BOOLEAN : NextTick("write", ok)) /\ UNCHANGED armed
    BY <1>13 DEF TcpWrite, Write
  <2>2. CASE Arm("write") /\ UNCHANGED ticks
    BY <1>0, <1>1, <1>3, <1>6, <2>1, <2>2, TcpArms
  <2>3. CASE (\E ok \in BOOLEAN : NextTick("write", ok)) /\ UNCHANGED armed
    BY <1>0, <1>2, <2>1, <2>3, TickStays DEF Waits
  <2> QED
    BY <2>1, <2>2, <2>3
<1>14. CASE Writable
  <2>1. /\ UNCHANGED <<rd, ticks>>
        /\ (wr' = NoWrite /\ Disarm("write")) \/ Again("write")
    BY <1>1, <1>14 DEF Writable, Ends
  <2> QED
    BY <1>0, <1>1, <1>3, <1>6, <1>7, <2>1, TcpArms, TcpDisarms
<1>15. CASE TcpWriteTimeout
  BY <1>0, <1>3, <1>7, <1>15, TcpDisarms DEF TcpWriteTimeout, Ends
<1>16. CASE Ticks
  <2>1. /\ ticks # <<>> /\ ticks' = Tail(ticks) /\ armed' = armed
        /\ \/ Head(ticks).op = "read" /\ rd' = NoRead /\ wr' = wr
           \/ Head(ticks).op = "write" /\ wr' = NoWrite /\ rd' = rd
    BY <1>16 DEF Ticks, Settled, Ends, writes
  <2> QED
    BY <1>0, <1>2, <1>7, <2>1, TickGoes DEF Waits
<1>17. CASE Peer \/ UNCHANGED vars
  BY <1>3, <1>4, <1>17 DEF Peer, vars, writes
<1> QED
  BY <1>1, <1>9, <1>10, <1>11, <1>12, <1>13, <1>14, <1>15, <1>16, <1>17
     DEF Next, Program, Readable, SslRead, SslWrite, SslShutdown, SslReadable

-----------------------------------------------------------------------------
(* WriteWhole *)

LEMMA AcceptedNat ==
    ASSUME TypeOK, NEW i \in CallId
    PROVE  IsFiniteSet({k \in DOMAIN stream : stream[k] = i}) /\ Accepted(i) \in Nat
<1>1. DOMAIN stream = 1 .. Len(stream) /\ Len(stream) \in Nat
  BY DEF TypeOK
<1>2. IsFiniteSet(1 .. Len(stream))
  BY <1>1, FS_Interval
<1>3. IsFiniteSet({k \in DOMAIN stream : stream[k] = i})
  BY <1>1, <1>2, FS_Subset
<1> QED
  BY <1>3, FS_CardinalityType DEF Accepted

\* n more bytes of the write j
LEMMA AcceptedMore ==
    ASSUME TypeOK, NEW j \in CallId, NEW n \in Nat, stream' = stream \o [k \in 1 .. n |-> j],
           NEW i \in CallId
    PROVE  Accepted(i)' = Accepted(i) + (IF i = j THEN n ELSE 0)
<1> DEFINE old == {k \in DOMAIN stream : stream[k] = i}
           new == (Len(stream) + 1) .. (Len(stream) + n)
<1>1. stream \in Seq(CallId) /\ Len(stream) \in Nat /\ [k \in 1 .. n |-> j] \in Seq(CallId)
  BY DEF TypeOK
<1>2. /\ DOMAIN stream' = 1 .. (Len(stream) + n) /\ DOMAIN stream = 1 .. Len(stream)
      /\ \A k \in 1 .. Len(stream) : stream'[k] = stream[k]
      /\ \A k \in new : stream'[k] = j
  BY <1>1
<1> HIDE DEF new
<1>3a. /\ \A k : k \in DOMAIN stream' <=> k \in DOMAIN stream \/ k \in new
       /\ \A k \in new : k \notin DOMAIN stream /\ stream'[k] = j
       /\ \A k \in DOMAIN stream : stream'[k] = stream[k]
  BY <1>1, <1>2 DEF new
<1>3. IsFiniteSet(old) /\ Accepted(i) = Cardinality(old) /\ Accepted(i) \in Nat
  BY AcceptedNat DEF Accepted
<1>4. IsFiniteSet(new) /\ Cardinality(new) = n
  <2>1. Len(stream) + 1 \in Int /\ Len(stream) + n \in Int
    BY <1>1
  <2> QED
    BY <1>1, <2>1, FS_Interval DEF new
<1>5. old \intersect new = {}
  BY <1>3a
<1>6. CASE i = j
  <2>1. {k \in DOMAIN stream' : stream'[k] = i} = old \union new
    BY <1>3a, <1>6
  <2>2. Cardinality(old \union new) = Accepted(i) + n
    <3> HIDE DEF old
    <3>1. Cardinality(old \union new) = Cardinality(old) + Cardinality(new) - Cardinality(old \intersect new)
      BY <1>3, <1>4, FS_Union
    <3>2. Cardinality(old \intersect new) = 0
      BY <1>5, FS_EmptySet
    <3> QED
      BY <1>3, <1>4, <3>1, <3>2
  <2>3. Accepted(i)' = Cardinality(old \union new)
    BY <2>1 DEF Accepted
  <2> QED
    BY <1>6, <2>2, <2>3
<1>7. CASE i # j
  <2>1. {k \in DOMAIN stream' : stream'[k] = i} = old
    BY <1>3a, <1>7
  <2>2. Accepted(i)' = Cardinality(old)
    BY <2>1 DEF Accepted
  <2> QED
    BY <1>3, <1>7, <2>2
<1> QED
  BY <1>6, <1>7

\* Bytes that are not of an earlier write than those before keep the order.
LEMMA OrderMore ==
    ASSUME TypeOK, NEW j \in CallId, NEW n \in Nat, stream' = stream \o [k \in 1 .. n |-> j],
           \A k \in DOMAIN stream : stream[k] <= j,
           \A k \in 2 .. Len(stream) : stream[k - 1] <= stream[k]
    PROVE  /\ \A k \in DOMAIN stream' : stream'[k] <= j
           /\ \A k \in 2 .. Len(stream') : stream'[k - 1] <= stream'[k]
<1>1. stream \in Seq(CallId) /\ Len(stream) \in Nat /\ [k \in 1 .. n |-> j] \in Seq(CallId)
  BY DEF TypeOK
<1>2. /\ DOMAIN stream' = 1 .. (Len(stream) + n) /\ DOMAIN stream = 1 .. Len(stream)
      /\ Len(stream') = Len(stream) + n
      /\ \A k \in 1 .. Len(stream) : stream'[k] = stream[k]
      /\ \A k \in (Len(stream) + 1) .. (Len(stream) + n) : stream'[k] = j
  BY <1>1
<1>3. j \in Nat
  BY DEF CallId
<1>4. \A k \in DOMAIN stream' : stream'[k] <= j
  BY <1>1, <1>2, <1>3
<1>5. ASSUME NEW k \in 2 .. Len(stream') PROVE stream'[k - 1] <= stream'[k]
  <2>1. CASE k <= Len(stream)
    BY <1>1, <1>2, <1>5, <2>1
  <2>2. CASE k > Len(stream)
    <3>1. stream'[k] = j /\ k - 1 \in DOMAIN stream'
      BY <1>1, <1>2, <1>5, <2>2
    <3> QED
      BY <1>4, <3>1
  <2> QED
    BY <1>1, <1>2, <2>1, <2>2
<1> QED
  BY <1>4, <1>5

\* Whatever leaves writes alone, and begins a read at most
LEMMA WriteUntouched ==
    ASSUME ConnInv, UNCHANGED writes, calls' \in {calls, calls + 1},
           armed'["write"] \in {armed["write"], "off"},
           ticks' = ticks \/ \E ok \in BOOLEAN : NextTick("read", ok)
    PROVE  WriteInv'
<1>0. TypeOK /\ WriteInv /\ calls \in Nat
  BY ConnectionAssumption DEF ConnInv, TypeOK
<1>1. \A i \in DOMAIN ticks' : ticks'[i].op = "write" => i \in DOMAIN ticks /\ ticks'[i] = ticks[i]
  <2>1. CASE ticks' = ticks
    BY <2>1
  <2>2. ASSUME NEW ok \in BOOLEAN, NextTick("read", ok)
        PROVE  \A i \in DOMAIN ticks' : ticks'[i].op = "write" => i \in DOMAIN ticks /\ ticks'[i] = ticks[i]
    <3>1. /\ ticks \in Seq([op : Op, ok : BOOLEAN]) /\ Len(ticks) \in Nat
          /\ ticks' = Append(ticks, [op |-> "read", ok |-> ok])
      BY <1>0, <2>2 DEF TypeOK, NextTick
    <3>2. /\ DOMAIN ticks' = 1 .. Len(ticks) + 1 /\ ticks'[Len(ticks) + 1].op = "read"
          /\ \A i \in 1 .. Len(ticks) : i \in DOMAIN ticks /\ ticks'[i] = ticks[i]
      BY <3>1
    <3> QED
      BY <3>1, <3>2
  <2> QED
    BY <2>1, <2>2
<1>2. WriteTicks'
  <2>1. Ticking("write")' => Ticking("write")
    BY <1>1 DEF Ticking
  <2>2. armed'["write"] # "off" => wr'.state = "pending" /\ ~Ticking("write")'
    BY <1>0, <2>1 DEF WriteInv, WriteTicks, writes
  <2> QED
    BY <1>0, <1>1, <2>2 DEF WriteInv, WriteTicks, writes
<1>3. Partial' /\ WriteWhole'
  BY <1>0 DEF WriteInv, Partial, WriteWhole, Accepted, writes
<1>4. InOrder'
  <2>1. \A k \in DOMAIN stream : stream[k] \in CallId
    BY <1>0 DEF TypeOK
  <2>2. ASSUME NEW k \in DOMAIN stream PROVE stream[k] <= calls'
    <3>1. stream[k] \in Nat /\ stream[k] <= calls
      BY <1>0, <2>1, <2>2 DEF CallId, WriteInv, InOrder
    <3> QED
      BY <1>0, <3>1
  <2>3. stream' = stream /\ wr' = wr
    BY DEF writes
  <2> QED
    BY <1>0, <2>2, <2>3 DEF WriteInv, InOrder
<1> QED
  BY <1>2, <1>3, <1>4 DEF WriteInv

\* The end of a write, with the n bytes that the kernel takes last
LEMMA WriteEnds ==
    ASSUME ConnInv, wr.state = "pending", NEW what \in Outcome, Ends(what),
           NEW n \in Nat, n <= wr.left, stream' = stream \o [k \in 1 .. n |-> wr.id],
           what = "resolved" => n = wr.left,
           calls' \in {calls, calls + 1}, armed'["write"] = "off", ~Ticking("write")'
    PROVE  WriteInv'
<1>0. /\ TypeOK /\ WriteInv /\ calls \in Nat /\ wr.left \in Nat
      /\ wr.id \in CallId /\ wr.id \in 1 .. calls
      /\ \A i \in CallId : Accepted(i) \in Nat /\ size[i] \in Nat
  <2>1. TypeOK /\ WriteInv /\ calls \in 0 .. MaxCalls /\ MaxCalls \in Nat
    BY ConnectionAssumption DEF ConnInv, TypeOK
  <2>2. wr.id \in 1 .. calls
    BY <2>1 DEF WriteInv, Partial
  <2>3. wr.id \in CallId /\ calls \in Nat
    BY <2>1, <2>2 DEF CallId
  <2>4. \A i \in CallId : Accepted(i) \in Nat
    BY <2>1, AcceptedNat
  <2> QED
    BY <2>1, <2>2, <2>3, <2>4 DEF TypeOK
<1>1. wr'.state # "pending" /\ size' = size /\ outcome' = [outcome EXCEPT ![wr.id] = what]
  BY DEF Ends, NoWrite
<1>2. WriteTicks' /\ Partial'
  BY <1>1 DEF WriteTicks, Partial, Ticking
<1>3. \A i \in CallId : Accepted(i)' = Accepted(i) + (IF i = wr.id THEN n ELSE 0)
  BY <1>0, AcceptedMore
<1>4. /\ \A k \in DOMAIN stream' : stream'[k] <= wr.id
      /\ \A k \in 2 .. Len(stream') : stream'[k - 1] <= stream'[k]
  BY <1>0, OrderMore DEF WriteInv, InOrder, WriteWhole
<1>5. stream' \in Seq(CallId)
  <2>1. [k \in 1 .. n |-> wr.id] \in Seq(CallId)
    BY <1>0
  <2> QED
    BY <1>0, <2>1 DEF TypeOK
<1>6. InOrder'
  <2> SUFFICES ASSUME NEW k \in DOMAIN stream' PROVE stream'[k] <= calls'
    BY <1>1 DEF InOrder
  <2>1. k \in 1 .. Len(stream') /\ stream'[k] \in CallId
    <3>1. DOMAIN stream' = 1 .. Len(stream')
      BY <1>5, LenProperties
    <3> QED
      BY <1>5, <3>1, ElementOfSeq
  <2>2. stream'[k] \in Nat /\ stream'[k] <= wr.id
    BY <1>4, <2>1 DEF CallId
  <2> QED
    BY <1>0, <2>2
<1>7. ASSUME NEW i \in CallId
      PROVE  Accepted(i)' <= size'[i] /\ (outcome'[i] = "resolved" => Accepted(i)' = size'[i])
  <2>1. CASE i = wr.id
    <3>1. Accepted(i) + wr.left = size[i] /\ Accepted(i)' = Accepted(i) + n
      BY <1>0, <1>3, <2>1 DEF WriteInv, Partial
    <3>2. outcome'[i] = what
      BY <1>0, <1>1, <2>1 DEF TypeOK
    <3> QED
      BY <1>0, <1>1, <1>7, <3>1, <3>2
  <2>2. CASE i # wr.id
    <3>1. Accepted(i)' = Accepted(i)
      BY <1>0, <1>3, <1>7, <2>2
    <3>2. outcome'[i] = outcome[i]
      BY <1>0, <1>1, <2>2 DEF TypeOK
    <3> QED
      BY <1>0, <1>1, <1>7, <3>1, <3>2 DEF WriteInv, WriteWhole
  <2> QED
    BY <2>1, <2>2
<1> QED
  BY <1>2, <1>4, <1>6, <1>7 DEF WriteInv, WriteWhole

LEMMA CancelsWrite ==
    ASSUME ConnInv, Cancels, ticks' = ticks, calls' \in {calls, calls + 1}
    PROVE  WriteInv'
<1>0. TypeOK /\ armed'["write"] = "off"
  BY DEF ConnInv, Cancels, Op
<1>1. CASE wr.state = "pending" /\ ~Ticking("write")
  <2>1. Ends("abandoned") /\ stream' = stream
    BY <1>1 DEF Cancels
  <2>2. stream' = stream \o [k \in 1 .. 0 |-> wr.id]
    BY <1>0, <2>1 DEF TypeOK
  <2>3. "abandoned" \in Outcome /\ 0 \in Nat /\ 0 <= wr.left /\ ~Ticking("write")'
    BY <1>0, <1>1 DEF Outcome, TypeOK, Ticking
  <2> QED
    BY <1>0, <1>1, <2>1, <2>2, <2>3, WriteEnds
<1>2. CASE ~(wr.state = "pending" /\ ~Ticking("write"))
  BY <1>0, <1>2, WriteUntouched DEF Cancels
<1> QED
  BY <1>1, <1>2

LEMMA TicksWrite ==
    ASSUME ConnInv, Ticks
    PROVE  WriteInv'
<1>0. /\ TypeOK /\ WriteTicks /\ ticks # <<>> /\ ticks' = Tail(ticks) /\ UNCHANGED <<calls, armed>>
      /\ Len(ticks) \in Nat
  BY DEF ConnInv, WriteInv, Ticks, TypeOK
<1>1. /\ DOMAIN ticks' = 1 .. Len(ticks) - 1
      /\ \A i \in DOMAIN ticks' : i + 1 \in DOMAIN ticks /\ ticks'[i] = ticks[i + 1]
      /\ 1 \in DOMAIN ticks /\ Head(ticks) = ticks[1]
  BY <1>0, TickGoes
<1>2. CASE Head(ticks).op = "read"
  <2>1. UNCHANGED writes
    BY <1>2 DEF Ticks
  <2>2. Ticking("write")' => Ticking("write")
    BY <1>1 DEF Ticking
  <2>3. armed'["write"] # "off" => wr'.state = "pending" /\ ~Ticking("write")'
    BY <1>0, <2>1, <2>2 DEF WriteTicks, writes
  <2>4. ASSUME NEW i \in DOMAIN ticks', ticks'[i].op = "write"
        PROVE  wr'.state = "pending" /\ (ticks'[i].ok => wr'.left = 0)
    BY <1>0, <1>1, <2>1, <2>4 DEF WriteTicks, writes
  <2>5. ASSUME NEW i \in DOMAIN ticks', NEW j \in DOMAIN ticks', ticks'[i].op = "write", ticks'[j].op = "write"
        PROVE  i = j
    <3>1. i + 1 = j + 1 /\ i \in Nat /\ j \in Nat
      BY <1>0, <1>1, <2>5 DEF WriteTicks
    <3> QED
      BY <3>1
  <2> QED
    BY <1>0, <2>1, <2>3, <2>4, <2>5
       DEF ConnInv, WriteInv, WriteTicks, Partial, InOrder, WriteWhole, Accepted, writes
<1>3. CASE Head(ticks).op = "write"
  <2>1. PICK what \in Outcome : Ends(what) /\ stream' = stream /\ (what = "resolved" => Head(ticks).ok)
    BY <1>3 DEF Ticks, Outcome
  <2>2. wr.state = "pending" /\ wr.left \in Nat /\ (what = "resolved" => 0 = wr.left)
    BY <1>0, <1>1, <1>3, <2>1 DEF WriteTicks, TypeOK
  <2>3. ~Ticking("write")'
    <3> SUFFICES ASSUME NEW i \in DOMAIN ticks', ticks'[i].op = "write" PROVE FALSE
      BY DEF Ticking
    <3>1. i + 1 = 1 /\ i \in 1 .. Len(ticks) - 1
      BY <1>0, <1>1, <1>3 DEF WriteTicks
    <3> QED
      BY <1>0, <3>1
  <2>4. armed'["write"] = "off"
    BY <1>0, <1>1, <1>3 DEF WriteTicks, Ticking
  <2>5. stream' = stream \o [k \in 1 .. 0 |-> wr.id]
    BY <1>0, <2>1 DEF TypeOK
  <2>6. 0 \in Nat /\ 0 <= wr.left /\ calls' \in {calls, calls + 1}
    BY <1>0, <2>2
  <2> QED
    BY <2>1, <2>2, <2>3, <2>4, <2>5, <2>6, WriteEnds
<1> QED
  BY <1>2, <1>3 DEF Ticks

LEMMA WritableWrite ==
    ASSUME ConnInv, Writable \/ TcpWriteTimeout
    PROVE  WriteInv'
<1>0. /\ TypeOK /\ WriteInv /\ UNCHANGED <<calls, ticks>>
      /\ armed["write"] # "off" /\ ~Ticking("write")' /\ ~Ticking("write")
      /\ wr.state = "pending" /\ wr.id \in CallId /\ wr.left \in Nat
  BY OwnEvent DEF ConnInv, WriteInv, WriteTicks, Writable, TcpWriteTimeout, Ticking
<1>1. Disarm("write") => armed'["write"] = "off"
  BY <1>0 DEF TypeOK, Disarm, Op
<1>2. ASSUME Ends("rejected"), Disarm("write"), stream' = stream PROVE WriteInv'
  <2>1. stream' = stream \o [k \in 1 .. 0 |-> wr.id]
    BY <1>0, <1>2 DEF TypeOK
  <2>2. "rejected" \in Outcome /\ 0 \in Nat /\ 0 <= wr.left /\ calls' \in {calls, calls + 1}
    BY <1>0 DEF Outcome
  <2> QED
    BY <1>0, <1>1, <1>2, <2>1, <2>2, WriteEnds
<1>3. CASE TcpWriteTimeout
  BY <1>2, <1>3 DEF TcpWriteTimeout
<1>4. CASE Writable /\ broken
  BY <1>2, <1>4 DEF Writable
<1>5. CASE Writable /\ ~broken
  <2> DEFINE n == Least(wr.left, Room)
  <2>1. n \in Nat /\ n <= wr.left
    BY <1>0, LeastRoom
  <2>2. /\ stream' = stream \o [k \in 1 .. n |-> wr.id]
        /\ \/ n = wr.left /\ Ends("resolved") /\ Disarm("write")
           \/ n < wr.left /\ wr' = [wr EXCEPT !.left = @ - n] /\ UNCHANGED <<size, outcome>>
    BY <1>5 DEF Writable, Accept
  <2> HIDE DEF n
  <2>3. CASE n = wr.left /\ Ends("resolved") /\ Disarm("write")
    <3>1. "resolved" \in Outcome /\ calls' \in {calls, calls + 1}
      BY <1>0 DEF Outcome
    <3> QED
      BY <1>0, <1>1, <2>1, <2>2, <2>3, <3>1, WriteEnds
  <2>4. CASE wr' = [wr EXCEPT !.left = @ - n] /\ UNCHANGED <<size, outcome>>
    <3>1. wr'.state = "pending" /\ wr'.id = wr.id /\ wr'.left = wr.left - n
      BY <1>0, <2>4 DEF TypeOK
    <3>2. /\ \A i \in CallId : Accepted(i)' = Accepted(i) + (IF i = wr.id THEN n ELSE 0)
          /\ \A i \in CallId : Accepted(i) \in Nat /\ size[i] \in Nat
      BY <1>0, <2>1, <2>2, AcceptedMore, AcceptedNat DEF TypeOK
    <3>3. /\ \A k \in DOMAIN stream' : stream'[k] <= wr.id
          /\ \A k \in 2 .. Len(stream') : stream'[k - 1] <= stream'[k]
      BY <1>0, <2>1, <2>2, OrderMore DEF WriteInv, InOrder, WriteWhole
    <3>4. wr.id \in 1 .. calls /\ calls \in Nat /\ outcome[wr.id] # "resolved" /\ Accepted(wr.id) + wr.left = size[wr.id]
      BY <1>0, ConnectionAssumption DEF WriteInv, Partial, TypeOK
    <3>5. \A k \in DOMAIN stream' : stream'[k] \in CallId
      <4>1. [k \in 1 .. n |-> wr.id] \in Seq(CallId)
        BY <1>0, <2>1
      <4>2. stream' \in Seq(CallId)
        BY <1>0, <2>2, <4>1 DEF TypeOK
      <4> QED
        BY <4>2, LenProperties, ElementOfSeq
    <3>6. WriteTicks'
      BY <1>0, <3>1 DEF WriteInv, WriteTicks, Ticking
    <3>7. Partial'
      BY <1>0, <2>1, <2>4, <3>1, <3>2, <3>4 DEF Partial
    <3>8. InOrder'
      <4>1. \A k \in DOMAIN stream' : stream'[k] \in Nat
        BY <3>5 DEF CallId
      <4> QED
        BY <1>0, <3>1, <3>3, <3>4, <4>1 DEF InOrder
    <3>9. ASSUME NEW i \in CallId
          PROVE  Accepted(i)' <= size'[i] /\ (outcome'[i] = "resolved" => Accepted(i)' = size'[i])
      <4>1. Accepted(i) <= size[i] /\ (outcome[i] = "resolved" => Accepted(i) = size[i])
        BY <1>0, <3>9 DEF WriteInv, WriteWhole
      <4> QED
        BY <1>0, <2>1, <2>4, <3>2, <3>4, <3>9, <4>1
    <3> QED
      BY <3>3, <3>6, <3>7, <3>8, <3>9 DEF WriteInv, WriteWhole
  <2> QED
    BY <2>2, <2>3, <2>4
<1> QED
  BY <1>3, <1>4, <1>5

\* write(): of a new write nothing was accepted before, and nothing is pending beside it.
LEMMA BeginsWrite ==
    ASSUME ConnInv, NEW n \in 1 .. MaxSize, NEW waits \in BOOLEAN, Write(n, waits)
    PROVE  WriteInv'
<1> DEFINE k == IF broken THEN 0 ELSE Least(n, Room)
<1>a. PICK id \in Nat : id = calls + 1
  BY DEF ConnInv, TypeOK
<1>0. /\ TypeOK /\ WriteInv /\ n \in Nat /\ n > 0 /\ calls \in Nat
      /\ calls' = id /\ id \in CallId /\ wr.state # "pending"
  BY <1>a, ConnectionAssumption DEF ConnInv, Write, Called, TypeOK, CallId
<1>1. k \in Nat /\ k <= n
  BY <1>0, LeastRoom
<1>2. /\ stream' = stream \o [m \in 1 .. k |-> id]
      /\ size' = [size EXCEPT ![id] = n] /\ outcome' = [outcome EXCEPT ![id] = "pending"]
      /\ wr' = [state |-> "pending", id |-> id, left |-> n - k]
      /\ \/ Arm("write") /\ UNCHANGED ticks
         \/ NextTick("write", k = n) /\ UNCHANGED armed
  BY <1>0 DEF Write, Accept, Begins
<1> HIDE DEF k
<1>3. \A m \in DOMAIN stream : stream[m] \in CallId /\ stream[m] \in Nat /\ stream[m] < id
  <2>1. \A m \in DOMAIN stream : stream[m] \in CallId
    BY <1>0 DEF TypeOK
  <2>2. ASSUME NEW m \in DOMAIN stream PROVE stream[m] \in Nat /\ stream[m] < id
    <3>1. stream[m] \in Nat /\ stream[m] <= calls
      BY <1>0, <2>1, <2>2 DEF WriteInv, InOrder, CallId
    <3> QED
      BY <1>a, <1>0, <3>1
  <2> QED
    BY <2>1, <2>2
<1>4. Accepted(id) = 0
  <2>1. {m \in DOMAIN stream : stream[m] = id} = {}
    BY <1>0, <1>3
  <2> QED
    BY <2>1, FS_EmptySet DEF Accepted
<1>5. \A i \in CallId : /\ Accepted(i)' = Accepted(i) + (IF i = id THEN k ELSE 0)
                        /\ Accepted(i) \in Nat /\ size[i] \in Nat
  BY <1>0, <1>1, <1>2, AcceptedMore, AcceptedNat DEF TypeOK
<1>6. /\ \A m \in DOMAIN stream' : stream'[m] <= id
      /\ \A m \in 2 .. Len(stream') : stream'[m - 1] <= stream'[m]
  <2>1. \A m \in DOMAIN stream : stream[m] <= id
    BY <1>0, <1>3
  <2> QED
    BY <1>0, <1>1, <1>2, <2>1, OrderMore DEF WriteInv, WriteWhole
<1>7. ASSUME NEW i \in CallId
      PROVE  Accepted(i)' <= size'[i] /\ (outcome'[i] = "resolved" => Accepted(i)' = size'[i])
  <2>1. CASE i = id
    BY <1>0, <1>1, <1>2, <1>4, <1>5, <2>1 DEF TypeOK
  <2>2. CASE i # id
    <3>1. Accepted(i)' = Accepted(i) /\ size'[i] = size[i] /\ outcome'[i] = outcome[i]
      BY <1>0, <1>2, <1>5, <1>7, <2>2 DEF TypeOK
    <3> QED
      BY <1>0, <1>7, <3>1 DEF WriteInv, WriteWhole
  <2> QED
    BY <2>1, <2>2
<1>8. Partial'
  <2>1. wr'.id = id /\ wr'.left = n - k /\ size'[id] = n /\ outcome'[id] = "pending"
    BY <1>0, <1>2 DEF TypeOK
  <2>2. Accepted(id)' = k
    BY <1>0, <1>1, <1>4, <1>5
  <2>3. Accepted(wr.id)' = k
    BY <2>1, <2>2 DEF Accepted
  <2>4. Accepted(wr.id)' + wr'.left = size'[wr'.id]
    BY <1>0, <1>1, <2>1, <2>3
  <2>5. id \in 1 .. calls'
    BY <1>0, <1>a
  <2> QED
    BY <2>1, <2>4, <2>5 DEF Partial
<1>9. InOrder'
  BY <1>0, <1>2, <1>6 DEF InOrder
<1>10. ~Ticking("write") /\ armed["write"] = "off" /\ wr'.state = "pending"
  BY <1>0, <1>2 DEF WriteInv, WriteTicks, Ticking
<1>11. WriteTicks'
  <2>1. CASE Arm("write") /\ UNCHANGED ticks
    BY <1>10, <2>1 DEF WriteTicks, Ticking
  <2>2. CASE NextTick("write", k = n) /\ UNCHANGED armed
    <3>a. PICK ok \in BOOLEAN : NextTick("write", ok) /\ (ok => k = n)
      BY <2>2
    <3>1. /\ ticks \in Seq([op : Op, ok : BOOLEAN]) /\ Len(ticks) \in Nat
          /\ ticks' = Append(ticks, [op |-> "write", ok |-> ok])
      BY <1>0, <3>a DEF TypeOK, NextTick
    <3>2. /\ DOMAIN ticks' = 1 .. Len(ticks) + 1 /\ ticks'[Len(ticks) + 1] = [op |-> "write", ok |-> ok]
          /\ \A i \in 1 .. Len(ticks) : i \in DOMAIN ticks /\ ticks'[i] = ticks[i]
      BY <3>1
    <3>3. ASSUME NEW i \in DOMAIN ticks', ticks'[i].op = "write" PROVE i = Len(ticks) + 1
      BY <1>10, <3>1, <3>2, <3>3 DEF Ticking
    <3>4. k = n => wr'.left = 0
      BY <1>0, <1>1, <1>2
    <3>5. ASSUME NEW i \in DOMAIN ticks', ticks'[i].op = "write"
          PROVE  wr'.state = "pending" /\ (ticks'[i].ok => wr'.left = 0)
      <4>1. ticks'[i] = [op |-> "write", ok |-> ok]
        BY <3>2, <3>3, <3>5
      <4>2. ticks'[i].ok => k = n
        BY <3>a, <4>1
      <4> QED
        BY <1>10, <3>4, <4>2
    <3> QED
      BY <1>10, <2>2, <3>3, <3>5 DEF WriteTicks
  <2> QED
    BY <1>2, <2>1, <2>2
<1> QED
  BY <1>6, <1>7, <1>8, <1>9, <1>11 DEF WriteInv, WriteWhole

LEMMA NextConn == ConnInv /\ [Next]_vars => ConnInv'
<1> SUFFICES ASSUME ConnInv, [Next]_vars PROVE TypeOK' /\ ReadFits' /\ WriteInv'
  BY NextArmed DEF ConnInv
<1>0. TypeOK /\ ReadFits /\ MaxSize \in Nat
  BY ConnectionAssumption DEF ConnInv
<1>1. CASE \E n \in 0 .. MaxSize : TcpRead(n) \/ SslRead(n)
  <2>1. /\ UNCHANGED writes /\ calls' = calls + 1
        /\ (Arm("read") /\ ticks' = ticks) \/ (armed' = armed /\ \E ok \in BOOLEAN : NextTick("read", ok))
    BY <1>1 DEF TcpRead, SslRead, Called, do_ssl_read
  <2>2. armed'["write"] \in {armed["write"], "off"}
    BY <2>1 DEF Arm, Op
  <2> QED
    BY <1>0, <1>1, <2>1, <2>2, ReadType, WriteUntouched
<1>2. CASE TcpReadable \/ SslReadable \/ TcpReadTimeout
  <2>1. /\ UNCHANGED <<writes, calls, ticks>>
        /\ Arm("read") \/ Again("read") \/ Disarm("read")
    BY <1>2 DEF TcpReadable, SslReadable, TcpReadTimeout, do_ssl_read
  <2>2. armed'["write"] \in {armed["write"], "off"}
    BY <1>0, <2>1 DEF Arm, Again, Disarm, Op, TypeOK
  <2>3. WriteInv'
    BY <2>1, <2>2, WriteUntouched
  <2> QED
    BY <1>0, <1>2, <2>3, ReadType
<1>3. CASE \E n \in 1 .. MaxSize : TcpWrite(n) \/ SslWrite(n)
  <2>1. PICK n \in 1 .. MaxSize : \E waits \in BOOLEAN : Write(n, waits)
    BY <1>0, <1>3 DEF TcpWrite, SslWrite, would_block, TypeOK
  <2> QED
    BY <2>1, WriteType, BeginsWrite
<1>4. CASE Writable \/ TcpWriteTimeout
  BY <1>4, WritableType, WritableWrite
<1>5. CASE Ticks
  BY <1>5, EndingType, TicksWrite
<1>6. CASE Cancel \/ Close \/ TcpShutdownEnds
  <2>1. Cancels /\ ticks' = ticks /\ calls' \in {calls, calls + 1}
    BY <1>6 DEF Cancel, Close, TcpShutdownEnds, Called
  <2> QED
    BY <1>6, <2>1, EndingType, CancelsWrite
<1>7. CASE TcpShutdown
  <2>1. /\ UNCHANGED <<writes, ticks>> /\ calls' = calls + 1 /\ Arm("read")
    BY <1>7 DEF TcpShutdown, Called
  <2>2. armed'["write"] \in {armed["write"], "off"}
    BY <2>1 DEF Arm, Op
  <2> QED
    BY <1>7, <2>1, <2>2, EndingType, WriteUntouched
<1>8. CASE SslShutdown
  <2>1. ticks' = ticks /\ calls' \in {calls, calls + 1} /\ (Cancels \/ UNCHANGED <<writes, armed>>)
    BY <1>8 DEF SslShutdown, Called
  <2> QED
    BY <1>8, <2>1, EndingType, CancelsWrite, WriteUntouched
<1>9. CASE Peer
  <2>1. UNCHANGED <<writes, calls, armed, ticks>>
    BY <1>9 DEF Peer
  <2>2. TypeOK' /\ ReadFits'
    <3>1. UNCHANGED <<config, fd, calls, rd, writes, armed, ticks>>
      BY <1>9 DEF Peer
    <3>2. eof' \in BOOLEAN /\ broken' \in BOOLEAN
      BY <1>0, <1>9 DEF Peer, TypeOK
    <3>3. inbox' \in Nat /\ outbox' \in 0 .. SockBuf /\ sent' \in Nat
      BY <1>0, <1>9, ConnectionAssumption DEF Peer, TypeOK
    <3> QED
      BY <1>0, <3>1, <3>2, <3>3 DEF TypeOK, ReadFits, config, writes
  <2> QED
    BY <2>1, <2>2, WriteUntouched
<1>10. CASE UNCHANGED vars
  <2>1. TypeOK' /\ ReadFits'
    BY <1>0, <1>10 DEF vars, config, kernel, writes, TypeOK, ReadFits
  <2> QED
    BY <1>10, <2>1, WriteUntouched DEF vars
<1> QED
  BY <1>1, <1>2, <1>3, <1>4, <1>5, <1>6, <1>7, <1>8, <1>9, <1>10 DEF Next, Program, Readable

LEMMA ConnInvariant == Spec => []ConnInv
  BY InitConn, NextConn, PTL DEF Spec

\* No promise of a TcpConnection is forgotten by its events (libevent_connection.cpp), for any
\* number of operations and any sizes.
THEOREM PendingIsArmedHolds == Spec => []PendingIsArmed
<1>1. ConnInv => PendingIsArmed
  BY DEF ConnInv
<1> QED
  BY <1>1, ConnInvariant, PTL

\* A resolved write of either connection is whole and in order (libevent_connection.cpp and
\* libevent_ssl_connection.cpp, write()), whatever the kernel takes at a time.
THEOREM WriteWholeHolds == Spec => []WriteWhole
<1>1. ConnInv => WriteWhole
  BY DEF ConnInv, WriteInv
<1> QED
  BY <1>1, ConnInvariant, PTL
=============================================================================
