---------------------------- MODULE RedisClient ----------------------------
(***************************************************************************)
(* Commands of reproredis::RedisPool and RedisResult, and the parser of    *)
(* their replies (libraries/repro-redis/src/redis.cpp).                    *)
(*                                                                         *)
(* A command takes a connection from the pool, writes itself and parses    *)
(* one reply with a parser of its own, whose buffer dies with it.  The     *)
(* result keeps the connection: a command may be chained to it, and the    *)
(* last holder gives the connection back, or frees it when it is marked    *)
(* as invalid.                                                             *)
(*                                                                         *)
(* A reply is a sequence of tokens: lines that announce a value, and the   *)
(* bodies of bulk strings.  Each token travels in two pieces, so that a    *)
(* read may end in the middle of it.  The pool is ResourcePool without     *)
(* time and urls.                                                          *)
(*                                                                         *)
(* An empty bulk string is "$0" and a line that ends it, which the parser  *)
(* does not consume.  A parser that finds this line where a value should   *)
(* be announced uses a null pointer: the model stops there (crashed).      *)
(***************************************************************************)
EXTENDS Naturals, Sequences, FiniteSets, FiniteSetsExt

CONSTANTS
    Cmd,                    \* commands
    Conn,                   \* connections the pool has room for
    NoConn,
    Reply                   \* what redis may answer: sequences of tokens

\* the elements of an array that has some
Elements == [single |-> 1, pair |-> 2]

\* The tokens, and what each announces: "+", "-" and ":" lines; "$-1", "*-1" and "*0"; "$n" and
\* what follows it; "$0"; "*1" and "*2".  What follows "$0" is no element: the next is still to
\* come after it.
Announced ==
    [line |-> 0, none |-> 0, bulk |-> 1, body |-> 0, empty |-> 0, crlf |-> 1, single |-> 1, pair |-> 2]

\* Redis keeps to its protocol: r is one value, with all that its arrays and bulk strings
\* announce and nothing after it.
Counts(missing, r) ==
    /\ missing[0] = 1 /\ missing[Len(r)] = 0
    /\ \A i \in 1 .. Len(r) :
          /\ missing[i - 1] > 0 \/ r[i] = "crlf"
          /\ missing[i] + 1 = missing[i - 1] + Announced[r[i]]
          /\ r[i] = "body" <=> i > 1 /\ r[i - 1] = "bulk"
          /\ r[i] = "crlf" <=> i > 1 /\ r[i - 1] = "empty"
          /\ r[i] = "empty" => i < Len(r)

OneValue(r) == \E missing \in [0 .. Len(r) -> 0 .. Len(r)] : Counts(missing, r)

VARIABLES
    state,                  \* where each command is
    con,                    \* parser->con, then result->con
    idle,                   \* connections in the pool
    invalid,                \* InvalidResources
    waiting,                \* waiting_
    \* redis and the network
    inbox,                  \* per connection, the commands redis has not answered
    stream,                 \* per connection, the pieces that were not read
    answer,                 \* what redis answered to each command
    \* the parser of each command
    buffer,                 \* the pieces read and not consumed
    open,                   \* how many elements each array that is open still lacks
    body,                   \* the next token is the body of a bulk string
    got,                    \* the tokens consumed
    crashed,                \* a null pointer was used
    \* history
    stranded                \* commands that waited when a connection went without serving them

poolVars == <<con, idle, invalid, waiting, stranded>>
netVars == <<inbox, stream, answer>>
parserVars == <<buffer, open, body, got>>
vars == <<state, poolVars, netVars, parserVars, crashed>>

States == {"new", "connecting", "waiting", "writing", "parsing", "done", "dropped", "failed"}

Pieces(c, r) == [i \in 1 .. 2 * Len(r) |-> <<c, (i + 1) \div 2>>]

Init ==
    /\ state = [c \in Cmd |-> "new"]
    /\ con = [c \in Cmd |-> NoConn]
    /\ idle = {}
    /\ invalid = {} /\ waiting = <<>> /\ stranded = {}
    /\ inbox = [k \in Conn |-> <<>>]
    /\ stream = [k \in Conn |-> <<>>]
    /\ answer = [c \in Cmd |-> <<>>]
    /\ buffer = [c \in Cmd |-> <<>>]
    /\ open = [c \in Cmd |-> <<1>>]
    /\ body = [c \in Cmd |-> FALSE]
    /\ got = [c \in Cmd |-> <<>>]
    /\ crashed = FALSE

Held == {con[c] : c \in Cmd} \ {NoConn}

To(c, s) == state' = [state EXCEPT ![c] = s]

-----------------------------------------------------------------------------
(* Holding a connection *)

Waiters == {waiting[i] : i \in DOMAIN waiting}

\* c lets go of its connection, having marked it if bad, and is as s says.  What the last
\* holder does is collect(): a marked connection is freed, and nobody is served; a good one
\* goes to the command that has waited longest, or becomes idle.
LetGo(c, s, bad) ==
    LET k == con[c]
        marked == invalid \union (IF bad THEN {k} ELSE {})
        last == \A d \in Cmd \ {c} : con[d] # k
        freed == last /\ k \in marked
        without == [con EXCEPT ![c] = NoConn]
    IN  /\ invalid' = IF freed THEN marked \ {k} ELSE marked
        /\ inbox' = IF freed THEN [inbox EXCEPT ![k] = <<>>] ELSE inbox
        /\ stream' = IF freed THEN [stream EXCEPT ![k] = <<>>] ELSE stream
        /\ stranded' = IF freed THEN stranded \union Waiters ELSE stranded
        /\ IF last /\ ~freed /\ waiting # <<>>
           THEN /\ con' = [without EXCEPT ![Head(waiting)] = k]
                /\ state' = [state EXCEPT ![c] = s, ![Head(waiting)] = "writing"]
                /\ waiting' = Tail(waiting)
                /\ UNCHANGED idle
           ELSE /\ con' = without
                /\ To(c, s)
                /\ idle' = IF last /\ ~freed THEN idle \union {k} ELSE idle
                /\ UNCHANGED waiting

\* RedisPool::cmd() and pool_.get(): an idle connection, or a new one while there is room, or
\* wait
Get(c) ==
    /\ state[c] = "new"
    /\ \/ \E k \in idle :
            /\ con' = [con EXCEPT ![c] = k]
            /\ idle' = idle \ {k}
            /\ To(c, "writing")
            /\ UNCHANGED waiting
       \/ /\ idle = {}
          /\ IF Cardinality(Held) + Cardinality({d \in Cmd : state[d] = "connecting"}) < Cardinality(Conn)
             THEN To(c, "connecting") /\ UNCHANGED waiting
             ELSE To(c, "waiting") /\ waiting' = Append(waiting, c)
          /\ UNCHANGED <<con, idle>>
    /\ UNCHANGED <<invalid, stranded, netVars, parserVars>>

\* RedisLocator::retrieve()
Connects(c) ==
    /\ state[c] = "connecting"
    /\ \E k \in Conn \ (idle \union Held) : con' = [con EXCEPT ![c] = k]
    /\ To(c, "writing")
    /\ UNCHANGED <<idle, invalid, waiting, stranded, netVars, parserVars>>

\* ... fails, and nobody who waits is served
ConnectFails(c) ==
    /\ state[c] = "connecting"
    /\ To(c, "failed")
    /\ stranded' = stranded \union Waiters
    /\ UNCHANGED <<con, idle, invalid, waiting, netVars, parserVars>>

\* RedisResult::cmd(), in the continuation of c or later, while nobody else uses the
\* connection and no command on it has failed
Chain(c, d) ==
    /\ state[c] = "done" /\ state[d] = "new"
    /\ con[c] \notin invalid
    /\ \A e \in Cmd : con[e] = con[c] => state[e] = "done"
    /\ con' = [con EXCEPT ![d] = con[c]]
    /\ To(d, "writing")
    /\ UNCHANGED <<idle, invalid, waiting, stranded, netVars, parserVars>>

\* the program lets go of a result
Drop(c) ==
    /\ state[c] = "done"
    /\ LetGo(c, "dropped", FALSE)
    /\ UNCHANGED <<answer, parserVars>>

-----------------------------------------------------------------------------
(* Writing the command, and redis *)

Written(c) ==
    /\ state[c] = "writing"
    /\ inbox' = [inbox EXCEPT ![con[c]] = Append(@, c)]
    /\ To(c, "parsing")
    /\ UNCHANGED <<poolVars, stream, answer, parserVars>>

\* Redis answers the commands of a connection in their order.
Answer(k) ==
    /\ inbox[k] # <<>>
    /\ LET c == Head(inbox[k])
       IN  \E r \in Reply :
             /\ answer' = [answer EXCEPT ![c] = r]
             /\ stream' = [stream EXCEPT ![k] = @ \o Pieces(c, r)]
    /\ inbox' = [inbox EXCEPT ![k] = Tail(@)]
    /\ UNCHANGED <<state, poolVars, parserVars>>

\* Slip: the failed connection is given back without a mark.
Fail_NoMark(c) ==
    /\ state[c] \in {"writing", "parsing"}
    /\ open[c] # <<>>
    /\ LetGo(c, "failed", FALSE)
    /\ UNCHANGED <<answer, parserVars>>

\* The write or a read fails or times out: mark the connection, reject, delete this.
Fail(c) ==
    /\ state[c] \in {"writing", "parsing"}
    /\ open[c] # <<>>
    /\ LetGo(c, "failed", TRUE)
    /\ UNCHANGED <<answer, parserVars>>

-----------------------------------------------------------------------------
(* The parser *)

Token(p) == answer[p[1]][p[2]]

\* A line, or a body, is there when its last piece is: it may begin with the second piece of
\* what an earlier parser has left.
Complete(c) == \E i \in 2 .. Len(buffer[c]) : buffer[c][i] = buffer[c][i - 1]

Parsing(c) == state[c] = "parsing" /\ open[c] # <<>>

\* Connection::read(): some of what has arrived
Read(c) ==
    LET k == con[c]
    IN  /\ Parsing(c) /\ ~Complete(c)
        /\ \E n \in 1 .. Len(stream[k]) :
              /\ buffer' = [buffer EXCEPT ![c] = @ \o SubSeq(stream[k], 1, n)]
              /\ stream' = [stream EXCEPT ![k] = SubSeq(@, n + 1, Len(@))]
        /\ UNCHANGED <<state, poolVars, inbox, answer, open, body, got>>

\* Slip: an array that is complete completes the one it is in as well.
ElementDone_Whole(s) == IF s[Len(s)] = 1 THEN <<>> ELSE [s EXCEPT ![Len(s)] = @ - 1]

\* An element is complete: so is each array it was the last element of, and the
\* innermost of the others lacks one element less.
ElementDone(s) ==
    LET more == {i \in DOMAIN s : s[i] > 1}
    IN  IF more = {} THEN <<>>
        ELSE [SubSeq(s, 1, Max(more)) EXCEPT ![Max(more)] = @ - 1]

Consume(c) ==
    /\ got' = [got EXCEPT ![c] = Append(@, Head(buffer[c]))]
    /\ buffer' = [buffer EXCEPT ![c] = SubSeq(@, 3, Len(@))]

\* What is open after a line: a bulk string has its body to come, an array its
\* elements; everything else is complete, nil and empty ones included.
AfterLine(kind, s) ==
    IF kind = "bulk" THEN s
    ELSE IF kind \in DOMAIN Elements THEN Append(s, Elements[kind])
    ELSE ElementDone(s)

\* RedisArrayResult::read() and resultFactory(): a line announces the next element.
Line(c) ==
    /\ Parsing(c) /\ Complete(c) /\ ~body[c]
    /\ LET kind == Token(buffer[c][1])
       IN  /\ kind # "crlf"
           /\ body' = [body EXCEPT ![c] = kind = "bulk"]
           /\ open' = [open EXCEPT ![c] = AfterLine(kind, @)]
    /\ Consume(c)
    /\ UNCHANGED <<state, poolVars, netVars>>

\* A line that begins with the end of an empty string announces nothing: resultFactory()
\* returns a null pointer, of which parse() is called.
NullResult(c) ==
    /\ Parsing(c) /\ Complete(c) /\ ~body[c]
    /\ Token(buffer[c][1]) = "crlf"
    /\ crashed' = TRUE
    /\ UNCHANGED <<state, poolVars, netVars, parserVars>>

\* RedisBulkStringResult::parse_response(): size_ + 2 characters are there.
Body(c) ==
    /\ Parsing(c) /\ Complete(c) /\ body[c]
    /\ Consume(c)
    /\ body' = [body EXCEPT ![c] = FALSE]
    /\ open' = [open EXCEPT ![c] = ElementDone(@)]
    /\ UNCHANGED <<state, poolVars, netVars>>

\* The reply is complete: resolve, by the tick that ends its last element; the
\* parser is deleted with what is left in its buffer.
Resolve(c) ==
    /\ state[c] = "parsing" /\ open[c] = <<>>
    /\ To(c, "done")
    /\ UNCHANGED <<poolVars, netVars, parserVars>>

-----------------------------------------------------------------------------
Parse(c) == Read(c) \/ Line(c) \/ Body(c) \/ Resolve(c)

Forward ==
    \/ \E c \in Cmd : Connects(c) \/ ConnectFails(c) \/ Written(c) \/ Parse(c) \/ Drop(c)
    \/ \E k \in Conn : Answer(k)

\* Connecting ends, redis answers, the network delivers, a program lets go of its results:
\* something of this happens while it can.
Goes == ~crashed /\ ((Forward /\ UNCHANGED crashed) \/ \E c \in Cmd : NullResult(c))

\* The program calls, and connections fail.
Calls ==
    \/ \E c \in Cmd : Get(c) \/ Fail(c)
    \/ \E c, d \in Cmd : Chain(c, d)

Next == Goes \/ (~crashed /\ Calls /\ UNCHANGED crashed)

Spec == Init /\ [][Next]_vars

-----------------------------------------------------------------------------
(* Properties *)

TypeOK ==
    /\ state \in [Cmd -> States]
    /\ con \in [Cmd -> Conn \union {NoConn}]
    /\ idle \subseteq Conn /\ invalid \subseteq Conn
    /\ waiting \in Seq(Cmd) /\ stranded \subseteq Cmd
    /\ inbox \in [Conn -> Seq(Cmd)]
    /\ answer \in [Cmd -> Reply \union {<<>>}]
    /\ body \in [Cmd -> BOOLEAN] /\ crashed \in BOOLEAN
    /\ \A c \in Cmd : open[c] \in Seq({1, 2})

\* A command is resolved with the reply redis gave to this command and nothing else, however
\* the replies were cut and whatever failed on the connection before: with all of it, but for
\* the line that ends an empty string, which redis.cpp:137-140 does not consume.
ReplyOwn ==
    \A c \in Cmd : state[c] \in {"done", "dropped"} =>
        /\ answer[c] # <<>>
        /\ got[c] = [i \in 1 .. Len(got[c]) |-> <<c, i>>]
        /\ \A i \in Len(got[c]) + 1 .. Len(answer[c]) : answer[c][i] = "crlf"

\* An idle connection is in step: nothing was sent on it that is not answered, and
\* nothing has been answered that was not read, but for lines that end an empty string
\* (redis.cpp:137-140), on which whoever gets the connection will crash.
InStep ==
    \A k \in idle :
        /\ inbox[k] = <<>>
        /\ \A i \in 1 .. Len(stream[k]) : Token(stream[k][i]) = "crlf"

\* A command is under way: but for one that waited when a connection was freed or could not
\* be made (res.h:141-145 and 162-167).
Unsettled ==
    /\ ~crashed
    /\ \/ \E c \in Cmd : state[c] \in {"connecting", "writing", "parsing"}
       \/ \E c \in Cmd \ stranded : state[c] = "waiting"
=============================================================================
