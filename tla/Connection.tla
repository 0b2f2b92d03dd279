----------------------------- MODULE Connection -----------------------------
(***************************************************************************)
(* prio::TcpConnection (libraries/prio/src/libevent_connection.cpp) and    *)
(* prio::SslConnection (libevent_ssl_connection.cpp) on their libevent     *)
(* events: how read(), read(n), write(), cancel(), close() and shutdown()  *)
(* settle the promises they return, for a kernel that takes and gives a    *)
(* few bytes at a time and a peer that sends, drains, closes or resets.    *)
(*                                                                         *)
(* The program has at most one read and one write outstanding, as every    *)
(* user in this repository has.  A byte is counted, not named: reads see   *)
(* the stream in order by construction; what is written is kept as the     *)
(* sequence of the calls its bytes came from.                              *)
(***************************************************************************)
EXTENDS Naturals, Sequences, FiniteSets

CONSTANTS
    MaxIn,                  \* bound: bytes the peer sends
    MaxCalls,               \* bound: calls of the program
    MaxSize,                \* bound: n of read(n), size of the data of write()
    SockBuf                 \* size of the kernel's send buffer

ASSUME ConnectionAssumption ==
    MaxIn \in Nat /\ MaxCalls \in Nat /\ MaxSize \in Nat /\ SockBuf \in Nat \ {0}

VARIABLES
    class,                  \* "tcp" or "ssl"
    winsock,                \* built with _WIN32
    timed,                  \* timeouts().rw_timeout_s # 0
    fd,                     \* the socket is open
    inbox,                  \* bytes in the kernel's receive buffer
    outbox,                 \* bytes in the kernel's send buffer
    eof, broken,            \* the peer's stream has ended; the connection is reset
    sent,                   \* bytes the peer has sent
    calls,                  \* calls so far
    rd,                     \* the read that is outstanding
    wr,                     \* the write that is outstanding
    armed,                  \* how the event of each operation waits
    ticks,                  \* nextTick()s that settle a promise
    size,                   \* history: the size of each write
    outcome,                \* history: what became of each write
    stream                  \* history: bytes the kernel accepted, each as its write

config == <<class, winsock, timed>>
kernel == <<inbox, outbox, eof, broken, sent>>
writes == <<wr, size, outcome, stream>>
vars == <<config, fd, kernel, calls, rd, writes, armed, ticks>>

Op == {"read", "write"}
CallId == 1 .. MaxCalls
Outcome == {"none", "pending", "resolved", "rejected", "abandoned"}
Least(a, b) == IF a < b THEN a ELSE b

NoRead == [state |-> "idle", want |-> 0, got |-> 0]
NoWrite == [state |-> "idle", id |-> 0, left |-> 0]

Init ==
    /\ class \in {"tcp", "ssl"} /\ winsock \in BOOLEAN /\ timed \in BOOLEAN
    /\ fd = TRUE
    /\ inbox = 0 /\ outbox = 0 /\ eof = FALSE /\ broken = FALSE /\ sent = 0
    /\ calls = 0
    /\ rd = NoRead
    /\ wr = NoWrite
    /\ armed = [op \in Op |-> "off"]
    /\ ticks = <<>>
    /\ size = [i \in CallId |-> 0]
    /\ outcome = [i \in CallId |-> "none"]
    /\ stream = <<>>

-----------------------------------------------------------------------------
(* Events *)

\* Slip: the timeout is forgotten.
Arm_Forever(op) ==
    armed' = [o \in Op |-> IF o = op THEN "on" ELSE IF class = "ssl" THEN "off" ELSE armed[o]]

\* onEvent(..)->add([timeout]): TcpConnection has e_read and e_write; SslConnection
\* has one e_, and to make a new event for one operation destroys the other's.
Arm(op) ==
    armed' = [o \in Op |-> IF o = op THEN (IF timed THEN "timer" ELSE "on")
                           ELSE IF class = "ssl" THEN "off" ELSE armed[o]]

\* the same event once more, from its callback: add(rw_timeout_s, 0), which is a
\* timeout of zero if there should be none
Again(op) == armed' = [armed EXCEPT ![op] = IF timed THEN "timer" ELSE "now"]

\* do_ssl_read() and do_ssl_write() make a new e_, for whatever OpenSSL wants
do_ssl_read == Arm("read")
do_ssl_write == Arm("write")

Disarm(op) == armed' = [armed EXCEPT ![op] = "off"]

\* would_block() after a write to a full socket: errno is EAGAIN, the code looks
\* for EINPROGRESS, or for WSAEWOULDBLOCK if built for Windows
would_block == winsock

Called == fd /\ calls < MaxCalls /\ calls' = calls + 1

NextTick(op, ok) == ticks' = Append(ticks, [op |-> op, ok |-> ok])

-----------------------------------------------------------------------------
(* Reading *)

Settled == rd' = NoRead

\* What one look at the socket makes of the read r: bytes taken, and whether to
\* "resolve" it, to "reject" it or to "wait" for more.  read() takes what there is,
\* read(n) goes on until it has n.
Take(r) ==
    LET want == r.want - r.got
        over == eof \/ broken
    IN  IF r.want = 0
        THEN IF inbox > 0 THEN {[n |-> k, to |-> "resolve"] : k \in 1 .. inbox}
             ELSE {[n |-> 0, to |-> IF over THEN "reject" ELSE "wait"]}
        ELSE {[n |-> Least(inbox, want),
               to |-> IF inbox >= want THEN "resolve"
                      ELSE IF over /\ (class = "ssl" \/ inbox = 0) THEN "reject" ELSE "wait"]}

\* TcpConnection::read() and read(n): nothing but to wait for the socket
TcpRead(n) ==
    /\ class = "tcp"
    /\ rd.state # "pending"
    /\ Called
    /\ rd' = [state |-> "pending", want |-> n, got |-> 0]
    /\ Arm("read")
    /\ UNCHANGED <<config, fd, kernel, writes, ticks>>

\* Slip: after a part of what read(n) wants, the event is not added again.
TcpReadable_Once ==
    /\ class = "tcp"
    /\ armed["read"] # "off"
    /\ rd.state = "pending"
    /\ inbox > 0 \/ eof \/ broken
    /\ \E t \in Take(rd) :
          /\ inbox' = inbox - t.n
          /\ rd' = IF t.to = "wait" THEN [rd EXCEPT !.got = @ + t.n] ELSE NoRead
    /\ Disarm("read")
    /\ UNCHANGED <<config, fd, outbox, eof, broken, sent, calls, writes, ticks>>

\* ... the callback of e_read
TcpReadable ==
    /\ class = "tcp"
    /\ armed["read"] # "off"
    /\ rd.state = "pending"
    /\ inbox > 0 \/ eof \/ broken
    /\ \E t \in Take(rd) :
          /\ inbox' = inbox - t.n
          /\ \/ t.to = "wait" /\ rd' = [rd EXCEPT !.got = @ + t.n] /\ Again("read")
             \/ t.to # "wait" /\ Settled /\ Disarm("read")
    /\ UNCHANGED <<config, fd, outbox, eof, broken, sent, calls, writes, ticks>>

TcpReadTimeout ==
    /\ class = "tcp"
    /\ armed["read"] \in {"timer", "now"}
    /\ rd.state = "pending"
    /\ Settled
    /\ Disarm("read")
    /\ UNCHANGED <<config, fd, kernel, calls, writes, ticks>>

\* SslConnection::read() and read(n): SSL_read at once, and do_ssl_read if that
\* is not enough
SslRead(n) ==
    /\ class = "ssl"
    /\ rd.state # "pending"
    /\ Called
    /\ \E t \in Take([state |-> "pending", want |-> n, got |-> 0]) :
          /\ inbox' = inbox - t.n
          /\ rd' = [state |-> "pending", want |-> n, got |-> t.n]
          /\ \/ t.to = "wait" /\ do_ssl_read /\ UNCHANGED ticks
             \/ t.to # "wait" /\ NextTick("read", t.to = "resolve") /\ UNCHANGED armed
    /\ UNCHANGED <<config, fd, outbox, eof, broken, sent, writes>>

\* ... the callback of e_.  Its timeout does nothing but to look again.
SslReadable ==
    /\ class = "ssl"
    /\ armed["read"] # "off"
    /\ inbox > 0 \/ eof \/ broken
    /\ \E t \in Take(rd) :
          /\ inbox' = inbox - t.n
          /\ \/ t.to = "wait" /\ rd' = [rd EXCEPT !.got = @ + t.n] /\ do_ssl_read
             \/ t.to # "wait" /\ Settled /\ Disarm("read")
    /\ UNCHANGED <<config, fd, outbox, eof, broken, sent, calls, writes, ticks>>

-----------------------------------------------------------------------------
(* Writing *)

Room == SockBuf - outbox

\* the kernel accepts n bytes of the write i
Accept(i, n) ==
    /\ stream' = stream \o [k \in 1 .. n |-> i]
    /\ outbox' = outbox + n
    /\ UNCHANGED <<inbox, eof, broken, sent>>

Begins(n, left, what) ==
    /\ size' = [size EXCEPT ![calls'] = n]
    /\ outcome' = [outcome EXCEPT ![calls'] = what]
    /\ wr' = [state |-> "pending", id |-> calls', left |-> left]

\* write(data): writes at once as much as the socket takes.  All of it, or an
\* error: the promise is settled in a tick.
Write(n, waits) ==
    /\ wr.state # "pending"
    /\ Called
    /\ LET k == IF broken THEN 0 ELSE Least(n, Room)
       IN  /\ Accept(calls', k)
           /\ Begins(n, n - k, "pending")
           /\ IF ~broken /\ k < n /\ waits
              THEN Arm("write") /\ UNCHANGED ticks
              ELSE NextTick("write", k = n) /\ UNCHANGED armed
    /\ UNCHANGED <<config, fd, rd>>

\* A socket that is full: wait for it, if would_block() or OpenSSL says that it is that.
TcpWrite(n) == class = "tcp" /\ Write(n, would_block)

SslWrite(n) == class = "ssl" /\ Write(n, TRUE)

Ends(what) ==
    /\ wr' = NoWrite
    /\ outcome' = [outcome EXCEPT ![wr.id] = what]
    /\ UNCHANGED size

\* Slip: the promise is resolved after the next part, whole or not.
Writable_Once ==
    /\ armed["write"] # "off"
    /\ ~broken /\ Room > 0
    /\ LET k == Least(wr.left, Room)
       IN  Accept(wr.id, k)
    /\ Ends("resolved")
    /\ Disarm("write")
    /\ UNCHANGED <<config, fd, calls, rd, ticks>>

\* the callback of e_write, or of e_ when do_ssl_write made it
Writable ==
    /\ armed["write"] # "off"
    /\ \/ /\ ~broken /\ Room > 0
          /\ LET k == Least(wr.left, Room)
             IN  /\ Accept(wr.id, k)
                 /\ \/ k = wr.left /\ Ends("resolved") /\ Disarm("write")
                    \/ /\ k < wr.left
                       /\ wr' = [wr EXCEPT !.left = @ - k]
                       /\ IF class = "tcp" THEN Again("write") ELSE do_ssl_write
                       /\ UNCHANGED <<size, outcome>>
       \/ /\ broken
          /\ Ends("rejected")
          /\ Disarm("write")
          /\ UNCHANGED <<kernel, stream>>
    /\ UNCHANGED <<config, fd, calls, rd, ticks>>

TcpWriteTimeout ==
    /\ class = "tcp"
    /\ armed["write"] \in {"timer", "now"}
    /\ Ends("rejected")
    /\ Disarm("write")
    /\ UNCHANGED <<config, fd, kernel, stream, calls, rd, ticks>>

\* The tick of a read or a write that was complete at once
Ticks ==
    /\ ticks # <<>>
    /\ ticks' = Tail(ticks)
    /\ LET t == Head(ticks)
       IN  \/ t.op = "read" /\ Settled /\ UNCHANGED writes
           \/ /\ t.op = "write"
              /\ Ends(IF t.ok THEN "resolved" ELSE "rejected")
              /\ UNCHANGED <<rd, stream>>
    /\ UNCHANGED <<config, fd, kernel, calls, armed>>

-----------------------------------------------------------------------------
(* Ending *)

Ticking(op) == \E i \in DOMAIN ticks : ticks[i].op = op

\* Event::cancel() of all events: their callbacks, and the promises in them, go
\* unsettled.  Only a tick that is under way still settles its promise.
Cancels ==
    /\ armed' = [op \in Op |-> "off"]
    /\ rd' = IF Ticking("read") THEN rd ELSE NoRead
    /\ IF wr.state = "pending" /\ ~Ticking("write") THEN Ends("abandoned") /\ UNCHANGED stream
       ELSE UNCHANGED writes

Cancel ==
    /\ Called
    /\ Cancels
    /\ UNCHANGED <<config, fd, kernel, ticks>>

Close ==
    /\ Called
    /\ Cancels
    /\ fd' = FALSE
    /\ UNCHANGED <<config, kernel, ticks>>

\* TcpConnection::shutdown(): ::shutdown(fd, SHUT_RDWR), then a read() of its own in
\* place of any other, whose outcome closes.  The promise returned is never settled.
TcpShutdown ==
    /\ class = "tcp"
    /\ rd.state # "shutdown"
    /\ Called
    /\ eof' = TRUE /\ broken' = TRUE
    /\ rd' = [NoRead EXCEPT !.state = "shutdown"]
    /\ Arm("read")
    /\ UNCHANGED <<config, fd, inbox, outbox, sent, writes, ticks>>

TcpShutdownEnds ==
    /\ rd.state = "shutdown"
    /\ armed["read"] # "off"
    /\ Cancels
    /\ fd' = FALSE
    /\ UNCHANGED <<config, kernel, calls, ticks>>

\* SslConnection::shutdown(): the socket is closed unless SSL_shutdown failed or
\* finished at once
SslShutdown ==
    /\ class = "ssl"
    /\ Called
    /\ \/ Cancels /\ fd' = FALSE
       \/ UNCHANGED <<fd, rd, writes, armed>>
    /\ UNCHANGED <<config, kernel, ticks>>

-----------------------------------------------------------------------------
(* The peer *)

Peer ==
    /\ ~broken
    /\ \/ ~eof /\ sent < MaxIn /\ sent' = sent + 1 /\ inbox' = inbox + 1
          /\ UNCHANGED <<outbox, eof, broken>>
       \/ outbox > 0 /\ outbox' = outbox - 1 /\ UNCHANGED <<inbox, eof, broken, sent>>
       \/ ~eof /\ eof' = TRUE /\ UNCHANGED <<inbox, outbox, broken, sent>>
       \/ broken' = TRUE /\ inbox' = 0 /\ UNCHANGED <<outbox, eof, sent>>
    /\ UNCHANGED <<config, fd, calls, rd, writes, armed, ticks>>

Program ==
    \/ \E n \in 0 .. MaxSize : TcpRead(n) \/ SslRead(n)
    \/ \E n \in 1 .. MaxSize : TcpWrite(n) \/ SslWrite(n)
    \/ Cancel \/ Close \/ TcpShutdown \/ SslShutdown

Readable == TcpReadable \/ SslReadable \/ TcpShutdownEnds

Next ==
    \/ Program
    \/ Readable \/ Writable \/ TcpReadTimeout \/ TcpWriteTimeout \/ Ticks
    \/ Peer

Spec == Init /\ [][Next]_vars

\* The loop serves each event that is ready; a timeout that is set expires unless
\* the event comes first.
Fairness ==
    /\ WF_vars(Readable) /\ WF_vars(Writable) /\ WF_vars(Ticks)
    /\ WF_vars(TcpReadTimeout) /\ WF_vars(TcpWriteTimeout)

FairSpec == Spec /\ Fairness

-----------------------------------------------------------------------------
(* Properties *)

TypeOK ==
    /\ class \in {"tcp", "ssl"} /\ winsock \in BOOLEAN /\ timed \in BOOLEAN
    /\ fd \in BOOLEAN
    /\ inbox \in Nat /\ outbox \in 0 .. SockBuf /\ eof \in BOOLEAN /\ broken \in BOOLEAN
    /\ sent \in Nat /\ calls \in 0 .. MaxCalls
    /\ rd \in [state : {"idle", "pending", "shutdown"}, want : Nat, got : Nat]
    /\ wr \in [state : {"idle", "pending"}, id : 0 .. MaxCalls, left : Nat]
    /\ armed \in [Op -> {"off", "on", "timer", "now"}]
    /\ ticks \in Seq([op : Op, ok : BOOLEAN])
    /\ size \in [CallId -> Nat]
    /\ outcome \in [CallId -> Outcome]
    /\ stream \in Seq(CallId)

Waits(op) == armed[op] # "off" \/ Ticking(op)

\* Each operation of a TcpConnection that is under way has an event or a tick that will
\* settle it: no order of reads, writes, partial transfers, timeouts and cancels leaves one
\* pending that nothing will settle.  cancel(), close() and shutdown() end those they find
\* and leave their promises unsettled: these are not under way any more.
PendingIsArmed ==
    class = "tcp" =>
        /\ rd.state # "idle" => Waits("read")
        /\ wr.state = "pending" => Waits("write")

Accepted(i) == Cardinality({k \in DOMAIN stream : stream[k] = i})

\* A write whose promise is resolved gave all its bytes to the kernel, none of them
\* twice, and bytes of different writes are never mixed: this holds through partial
\* writes, waiting and cancels, for TcpConnection and SslConnection.
WriteWhole ==
    /\ \A i \in CallId :
          /\ Accepted(i) <= size[i]
          /\ outcome[i] = "resolved" => Accepted(i) = size[i]
    /\ \A k \in 2 .. Len(stream) : stream[k - 1] <= stream[k]

\* With a read-write timeout, each read and write of a TcpConnection is settled
\* whatever the peer does, unless the program cancels it.
TcpSettles ==
    /\ (class = "tcp" /\ timed /\ rd.state = "pending") ~> (rd.state # "pending")
    /\ \A i \in CallId : (class = "tcp" /\ timed /\ outcome[i] = "pending") ~> (outcome[i] # "pending")

\* "asynchronously read some available char sequence" (api.h, Connection::read()): a
\* read() of an SslConnection, which asks for no number of bytes, is settled when there
\* are some, if not cancelled.
SslReadSettles ==
    (class = "ssl" /\ rd.state = "pending" /\ rd.want = 0 /\ inbox > 0) ~> (rd.state # "pending")
=============================================================================
