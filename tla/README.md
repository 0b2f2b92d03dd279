# TLA+ for wpp

wpp is a set of C++ libraries around one event-loop thread: `prio` (event loop,
connections, tasks on a thread pool, resource pools), `prio-http` (HTTP/1.1 and
HTTP/2 servers and clients), `repro-web` (a web framework with filters,
websockets and sessions), and clients for redis, mysql, sqlite and curl.
Everything is asynchronous: a call returns a future, whose promise is settled by
a callback of the loop. Promises come from the library `repro`, a git submodule
that is not part of this tree.

All paths below are relative to `src/libraries/`. The build modelled is the
default one: the libevent backend on Linux.

## 1. Inventory

### 1.1 prio

**Thread pool** (`prio/src/threadpool.cpp`, `threadpool.h`). State: the deque
`tasks_`, the flag `stop_`, the threads `workers_`, a mutex and a condition
variable. Operations: `start`, `stop`, `enqueue`, and the loop of a worker.
`stop_` is atomic and read under the mutex but written without it. Correct when
tasks start once and in order, nobody sleeps on a queued task, `stop()` returns,
and no thread is left when it has.

**Task and event loop** (`prio/include/priocpp/task.h`, `prio/src/libevent_loop.cpp`,
`libevent.cpp`, `libevent_signal.cpp`). `task(f)` hands a promise from the caller to a tick
of the loop, to the pool, to a worker, and by another tick back to the loop;
`task_synchronize_main` makes the loop spin on an atomic until the worker is done
with the closure. `run()`, `exit()` (a tick too) and signals start and stop both
loop and pool. Correct when each promise has one custodian at any time and is
settled, when the loop does not spin, and when `exit()` ends a run.

**Resource pool** (`prio/include/priocpp/res.h`). State: per url the connections
`used_` and `unused_`, `timestamps_`, the queue `waiting_`, the count `pending_`, and
a static set of invalid addresses. Operations: `get`, `collect` (the deleter of
what `get` returned), `release`, `invalidate`, `shutdown`; continuations re-enter it.
Used by the redis and mysql pools. Correct when nothing is freed under its
holder, leaked or handed out twice, the capacity holds, and a waiting `get` is
served.

**Connections** (`prio/src/libevent_connection.cpp`, `libevent_ssl_connection.cpp`).
State: the socket and its events (two for TCP, one for SSL), and in the closures
of callbacks how far a read or a write has come. Operations: `read`, `read(n)`,
`write`, `cancel`, `close`, `shutdown`. Correct when a promise that is
pending has an event that will settle it, and a resolved write is whole.

**Resolver, listener, IO, timeout** (`prio/src/libevent.cpp`, `libevent_timeout.cpp`):
accepting and connecting, the TLS handshakes, timers. Each keeps one event and one promise in
its closures. Correct when a connection that is accepted or made ends up with somebody, or is
closed, and when the one who waits is told.

**Pipes, logger, urls, files**: child processes and text. **asio backend**: the same
interfaces over boost::asio, instead of libevent.

### 1.2 prio-http

**HTTP server** (`conversation.cpp`, `server_reader.cpp`, `server_writer.cpp`,
`http_server.cpp`). A conversation owns a connection, keeps itself alive by
`self_`, and swaps readers (header, body) and writers (plain, chunked) as requests come
and responses go. Hooks of the framework run before headers are flushed and after
completion. Correct when a handler sees its request and nothing else, however TCP
cuts it; when responses are well formed and in order; when each request is
answered; when a conversation ends with its connection.

**HTTP/2 server** (`http2.cpp`, `http2_conversation.cpp`). A session of nghttp2 with a
stream object for each request; each response is flushed by a write of its own that
carries frames of all streams, while a read is always pending. The peer resets streams at any
moment. Correct when a client that is told the end of a response has all of it, each
request is answered, and the conversation ends with its connection.

**HTTP client** (`client.cpp`, `client_conversation.cpp`, `http2_client.cpp`). A fetch
resolves, connects, shakes hands, writes and reads, and each step has its own way to
fail; the answer is read by one of the readers for a length, for chunks, and until the
end, or as frames. Correct when `then()` gets the body that was sent, when the fetch settles,
and once, and when the connection is closed.

**Values** (`header.cpp`, `cookie.cpp`, `path.cpp`, `queryparams.cpp`, ...): parsing and
formatting.

### 1.3 repro-web

**Websockets** (`repro-web/src/websocket.cpp`, `ws/*.h`). State: `con_`, `self_`, the flag
`pending_`, the frame being read, the message `msg_` put together so far, the
queue `msgs_to_send_`. One flag keeps reading and writing apart. Correct when messages
arrive whole, what is sent goes out, and `onClose` is called, once. **Server-sent
events** (`sse.h`).

**Front controller and filters** (`front_controller.cpp`, `ctrl/filter.h`): finds a handler,
runs the chains of filters before it, before the headers and on completion; exceptions go
to exception handlers. Each chain has one iterator, and the flush chain stays with the
conversation. Correct when each response goes through its own filters and each request is answered.

**Sessions** (`session.cpp`, `redissession.h`): a filter that fetches the session before the
handler and saves it before the headers, from memory or from redis. Correct when a request
finds what the last one left. **SSI** (`ssi.cpp`): sub-requests whose answers fill the places of a
page, in any order. **Metrics**: counters.

**Controllers, serialization, views**: templates and text.

**Redis bus** (`json/redisbus.h`): fans the messages of a redis subscription out to
observers. State: subscriptions and a listener by topic, changed by calls, ticks and timers.
Correct when nobody is told twice or out of order, and a subscription has a listener, also after
failures.

### 1.4 Database and curl clients

**redis** (`repro-redis/src/redis.cpp`): commands on pooled connections, a parser of replies
that arrive cut anywhere, results that hold the connection, subscribers. Correct when each
command gets its own reply and an idle connection has nothing unread.

**mysql** (`mysql-async.h`): statements as tasks on pooled connections; `tx()` runs START
TRANSACTION, a function of the program, and COMMIT or ROLLBACK. Correct when the promise
says what happened in the database, and no connection is pooled inside a transaction.

**sqlite** (`sqlite.cpp`): a pool of its own, and statements that own a connection and keep
themselves alive while a task uses them. Correct when no two have the same connection and a
connection outlives its statement.

**curl** (`asyncCurl_libevent.cpp`, `api.cpp`): the events of the sockets of a multi handle, its
timer, one `CurlEasy` per transfer, `fetch()` and `fetch_all()`. Correct when whatever libcurl
waits for is watched, and each fetch settles, once.

### 1.5 How they interact

    front controller, websocket, SSI        redis bus
              |                                 |
        HTTP conversation           redis    mysql/sqlite     curl
              |                       \       /      \          |
          Connection  <-----------  ResourcePool    task()      |
              |                                       |         |
          event loop (ticks, events) ------------ ThreadPool ---+

Calls go down, callbacks come up. There are only two threads' worth of shared
state: the queue of the pool, and the closure of a task. Everything else is
interleaving of callbacks on the loop thread: state that is read before a read or
a write is begun and used when it ends.

The hazards in `PROJECT.json` list, line by line, where this is hard to test.

## 2. Modules

| module | models | composes |
|---|---|---|
| `Executor` | what the thread pool promises: a FIFO of tasks, opened and closed | |
| `ThreadPool` | the pool, at the granularity of its loads, stores, waits and locks | implements `Executor` |
| `TaskLoop` | `task()`, ticks, `run()`, `exit()`, signals | extends `Executor` as the pool |
| `ResourcePool` | `Resource::Pool` and `InvalidResources` | |
| `Connection` | `TcpConnection`, `SslConnection` on their events | |
| `HttpConversation` | one connection of the HTTP/1.1 server | |
| `Http2Conversation` | one connection of the HTTP/2 server | |
| `HttpServer` | the listener, the TLS handshake, and what a connection becomes | instances of both conversations |
| `HttpAnswer` | what servers answer, as text that can be cut | |
| `HttpClient` | one fetch of `prio::HttpClient`, from resolver to answer | extends `HttpAnswer` |
| `CurlMulti` | the multi handle, its transfers, `fetch()`, `fetch_all()` | |
| `Fetch` | the two clients a program may fetch with | instances of `HttpClient` and `CurlMulti` |
| `FrontController` | routing, filter chains, sessions, SSI, on the conversations of a browser | |
| `WebSocket` | one end of a websocket | |
| `RedisClient` | redis commands and the parser of replies | |
| `MysqlTx` | `tx()` and `execute()` on workers, over a pool | |
| `SqlitePool` | sqlite statements and their pool | |
| `Databases` | the database a program may use | instances of the three |
| `RedisBus` | the bus, with the `RedisSubscriber`s it makes | |
| `MCFetch`, `MCFrontController`, `MCWebSocket`, `MCDatabases` | values of constants that a .cfg cannot write | |
| `ThreadPoolProofs`, `TaskLoopProofs`, `ResourcePoolProofs`, `ConnectionProofs`, `HttpServerProofs`, `FetchProofs` | theorems, each about the module of its name | |
| `WebProofs`, `DatabaseProofs` | theorems about `FrontController` and `WebSocket`, about `Databases` and `RedisBus` | extend both, so that `WebSocket` and `Databases` have names of their own for `Init`, `Next`, `Spec` |

Definitions keep the names of the code where they can; `PROJECT.json` maps each one
to its lines. Operators named `X_Something` with a comment that starts "Slip:" are
plausible mistakes in `X`; they are used nowhere, and are there to show that a
property would notice them.

**ThreadPool.** A worker is a program counter: `Acquire` takes the mutex and
evaluates the predicate of the wait (load of `stop_`, look at the deque), `Wait`
releases and blocks, `Pop`, `Ran`, `Break`, `Exit` follow the body. `stop()` is three
steps, `StopStore`, `StopNotify`, `StopJoin`; `enqueue` two, as it notifies after the
unlock. Spurious wakeups are steps. `ExecutorSpec` is a PROPERTY of the run, by the
mapping `Executes`.

**TaskLoop.** The loop thread is `loop`: idle, in the dispatcher, in a callback, or
stopping. `ticks` is libevent's queue of active events. A task is in `promise`
(of the caller's future) and `stage` (of the worker's closure); `running` is the
atomic of `task_synchronize_*`.

**ResourcePool.** A connection is an address, so that `std::set` order and reuse of
addresses are as in the code. Each `get()` call is a member of `Req` that goes
from "new" to "waiting", "retrieving", "held", "done". `inside` is the time between the
continuation of `get()`'s promise and `pending_--`, when the pool may be called again.

**Connection.** Bytes are counted. `armed` says of each operation whether its event
waits, with a timeout, without, or with one of zero. The kernel takes and gives
any number of bytes. The program keeps at most one read and one write
outstanding, like every user in this tree.

**HttpConversation.** A message is the pieces head, empty line and body, cut by the
network at any piece. `await` is the promise the conversation waits for; each
completion of it is an action with everything the code does in that callback, such as the
swap of readers. A promise that is rejected and has no `otherwise()` sets `stuck`.

**Http2Conversation.** `writes` says, of each stream and of the session's own writes, what
becomes of it; a `send()` takes the frames that the windows let go, of all streams, whoever
called it. `handler` goes from the handler to the hook before the headers and the write.
`flaw` stops the model where an SSL connection would need its one event for two
operations ("jam": what `Connection` and the run `ssl_read` are about), or is used after
`close()` ("closed").

**HttpServer.** `stage` is how far a client is: connecting, in the handshake, or with a
conversation of the kind that was agreed on. `do_ssl_accept` has no timeout.

**HttpClient, HttpAnswer.** An answer is a sequence of tokens, of which each read takes any
beginning; the readers work on the tokens as the code does on the text, so that a size
line, a chunk or a line end may be cut from what follows. `sock` is who has the connection.
Where `substr()` would throw out of a callback the client is "crashed"; where it cuts the body at
an offset into something else it is `garbled`; `unverified` is a certificate that was refused.

**CurlMulti.** libcurl is a set of transfers and what each waits for (`lib`); a call of
`curl_multi_socket_action()` moves some of them on, and calls back, before it returns, with
what changes. Events fire once: `io` is what libevent will still tell of. `easy` says which
`CurlEasy` is gone; using one that is stops the model ("freed").

**FrontController.** A request goes from one point where it waits to the next in one action:
`phase` is what it waits for. Routes are a page, a page of includes, one outside the filters,
and none. `flush_chain` and `flush_it` belong to the conversation and outlive the request. A
session is the number of the request that wrote it last; the ids that `make_session_id()` makes are
numbers, of which each request has two of its own. `spun` is a flush filter that
threw: the code runs it again, for ever. After a session was fetched, the rest of the chain runs in a
continuation of `get_session()`: what is thrown there goes to its `otherwise()` and no further
(`Loses`), and the request stays "lost"; without a fetch it goes to `handle_exception()`, which flushes.

**WebSocket.** A frame is the pieces of its header (two bytes), length, mask and
payload. `rd` is a read that waits for its event, `ticks` are settled reads and writes
whose callback is still to run. Ticks run before any event of the connection
(libevent empties its active queue before it polls), but not before `send()` called from
another callback of the same round. Where the stream gets out of step, because
`cancel()` forgot a byte (`cut`) or a second header read was begun (`garbled` in both cases), the websocket
reads on, and so does the model: what it reads is then any header, any length, any payload.

**RedisClient.** Each command has its parser: the pieces in its buffer, how many elements
each open array lacks (`open`), whether a body is due. `con` is the reference of the parser
and then of the result; `LetGo` is what happens when it goes. The pool behind it is
`ResourcePool` seen from here: `waiting` is its queue, from which a good connection that comes back is
handed on; one that is freed, or cannot be made, serves nobody, and `stranded` keeps who waited then. An
empty bulk string is the tokens "empty" and "crlf", of which the parser reads the first; a parser that
finds the second where a value should begin uses a null pointer, and the model stops there (`crashed`).
A program chains a command to a result only while no other command uses the connection and none on it has failed, as the tests and examples do.

**MysqlTx.** A call is at a statement (`pc`), whose task is queued or done (`job`); `held` says
whether closures of the loop keep the connection, `copies` how many closures of workers do. The
last of them gives it back, on the loop or on a worker. `Races` stops the model where
a worker would call the pool while the loop does. The server commits, refuses, or loses the
connection, before a statement or after it.

**SqlitePool.** A statement is held by the program, by `self_`, or by the continuation that is
running; its tasks use it by address, and the model stops (`broken`) where that is gone. `twice` are the
statements that were called again before their task was back, the only ones that can lose it.

**RedisBus.** `ticks` is the queue of `nextTick()`, `timers` the retries, `conn` how far each
listener's connection is. `flaw` is where the code uses a listener that is gone ("freed"), the
null pointer of one that never was ("null"), or deletes a parser twice ("twice").

**Databases** and **Fetch** choose at the start which of their parts is used; the others stay as they
are. They state once what all of them promise.

## 3. Runs

| run | instance | states | what it shows |
|---|---|---|---|
| `thread_pool` | 2 tasks, 2 threads, 2 starts, spurious wakeups | 93,903 | `QuietWhenStopped`, `WorkConserving`, `QueuedIsStarted`; implements `Executor` |
| `thread_pool_stop` | 1 task, 2 threads, 1 start | | finding: `stop()` may never return |
| `task_loop` | 2 tasks, 2 runs, 2 exits, signals | 23,556 | `OneCustodian`, `LoopNeverSpins`, `ExitEnds`, `TaskSettles` |
| `resource_pool` | 3 calls, 2 addresses, 2 urls, capacity 2 | 279,008 | `HeldIsUsed`, `OnePlace`, `CapacityBound`, `InvalidIsHeld`, `WaiterServed` |
| `connection` | 3 calls, 2 chunks to read, sizes up to 2, a socket buffer of 1 | 160,244 | `PendingIsArmed`, `WriteWhole`, `TcpSettles` |
| `ssl_read` | the same, 2 calls | | finding: an SSL write forgets a read |
| `http_server` | HTTP/1.1: 2 requests, body up to 2, 2 chunks; HTTP/2: 2 streams, sizes up to 2, a window of 1 that opens once | 200,004 | `BodyExact`, `AnswersInOrder`, `ResponseWhole`, `RequestAnswered`, `NoLeak` |
| `web` | 2 connections, 3 requests, 2 includes, both orders of filters, both providers | 329,352 | `SessionKept`, `FlushFiltersRun`, `IncludesInPlace`, `RequestAnswered` |
| `fetch` | prio: 6 answers; curl: 2 transfers | 9,996 | `BodyExact`, `Watched`, `SettlesOnce`, `Settles` |
| `websocket` | TCP: 2 frames, payload up to 1, 1 send; SSL: 1 frame without a long length and the one that closes, 2 sends | 528,151 | `HalfDuplex`, `MessagesExact`, `QuietAfterClose`, `SendsGoOut`, `CloseIsTold` |
| `databases` | redis: 3 commands, 1 connection, 3 replies; mysql: 3 calls, 1 connection, 2 workers; sqlite: 3 statements, 2 connections, capacity 1, 2 calls each | 933,956 | `ReplyOwn`, `TxAtomic`, `IdleIsClean`, `Settles` |
| `redis_bus` | 2 subscriptions, 3 listeners, 2 messages | 826,550 | `ToldOnce`, `Served` |

The type invariants are proved or checked apart from these runs; the runs are spent on
the other properties.

**Why the bounds are enough.** Two workers and two starts are what it takes for one worker
to take the notification of another and for the workers of one run to meet those of
the next; two tasks are one that is worked on and one that is queued. Two tasks and two runs let a
tick of one run survive into the next. Three `get()` calls on two addresses give a
holder, a waiter and a retrieval at once, with an address left to be reused. Two
requests on a connection are a request and the one that inherits its leftovers. Two
frames are a fragmented message, or a message and the one after it, or a frame cut by
a `send()`. One send interrupts either frame and waits behind the answer to a PING; over SSL, where a
header is read twice by two sends, one frame and the end are enough. Three commands on one
connection are one whose failure leaves a reply behind, one that must not get it, and one
chained to it or waiting for the connection; the replies are a body after a line, an
array that closes inside another one, and an empty string, whose last line the next command finds.
Three mysql calls on one connection are one that has it, one that waits, and one that waits behind it when it is closed or handed on; a second worker lets
the closure of a task outlive the next statement. Three statements on two sqlite connections fill the
pool beyond its capacity; a statement that runs twice has its first end under its second.

Two streams are the one that is written and the one whose frames go along; sizes on both sides of
the window make a body that fits, one that does not, and one whose rest goes with somebody
else's write. Six answers are each way to delimit a body, with bodies long enough to be cut
inside, two chunks of unequal size, an empty body, and an interim answer before two of them. Two
transfers are one that ends and one that runs on, and all that `fetch_all()` counts. Three requests
on two connections let two overlap, and a third find what both left; a third on one connection
inherits its flush chain. Three listeners are one that failed, one that replaced it, and one that a
late retry makes.

**Deadlock** is not checked: all these systems may come to rest.

**Fairness** is weak and per actor: a thread that can take a step takes one (the
operating system), libevent serves an active event, an I/O operation with a peer that
goes on ends one way or the other, a handler flushes its response and a holder lets go of a
connection. Strong fairness is never assumed. Of each database it is only assumed that something goes on
while anything can, which is less: as no actor of them can act for ever, each has its turn.
libcurl ends each transfer in the end, and its timer fires; the kernel gives up on a
connection that is not answered; the client of an HTTP server need not read, but then it goes.
Nothing is assumed about whether a peer goes away, a timeout fires,
a task throws, or the program calls anything.

**Findings.** Two runs show the code doing otherwise than its comments
say; `PROJECT.json` has each with the line and the quotation:

1. `stop()` stores and notifies outside the mutex; a worker between its load of `stop_` and its
   wait misses both, and `join()` never returns (`StopReturns`).
2. `SslConnection` has one event: a write that waits destroys that of a `read()`, which is then
   never settled, although what it waits for has come (`SslReadSettles`, stated of reads that the peer has
   served; with an event of its own for each it holds).

Other behaviour met on the way has no run of its own. It is in the models, and the
properties say where they do not hold because of it:

- `run()` returns while a task is with a worker, as no event is registered for it: the first example
  of the README may print nothing.
- `would_block()` (`libevent.cpp:62`) does not know EAGAIN: a write to a full socket fails, and
  `connect()` reports a connection that is refused later as made. `Event::add(secs, ms)`
  (`libevent.cpp:144`) takes milliseconds for microseconds. With no read-write timeout
  set, the rest of an operation times out at once. `do_ssl_accept` has no timeout at all.
- A hook that fails before the headers, or a "100 Continue" that cannot be written, leaves a
  conversation behind (`stuck`).
- HTTP/2: what of a body does not fit into the window is taken away when the first write
  ends; a read that is pending at `close()` uses an SSL that is freed.
- The HTTP client takes an interim answer for the answer; it cuts the body wrongly when the end of
  a head that came in two reads brings a part of it (`garbled`), and throws out of its
  callback at a chunk whose line end is still to come; over HTTP/2 `otherwise()` is called
  after `then()` when the connection ends; a certificate that is refused leaks the connection.
- curl: a `CurlEasy` that has ended while others run may be used by the callback that ended it;
  `fetch_all({})` never settles; a transfer that cannot be added is leaked.
- A flush filter that throws is run again for ever (`spun`); a 404 after another request on its
  connection may run into a flush chain that is used up, and is not answered. A redis failure is
  taken for an empty session, which is then saved. What a filter or a handler throws after the session was
  fetched is rethrown by `otherwise()` (`session.cpp:144-155`) to nobody: the request is never answered
  (`lost`).
- Websockets: a PING leaves its payload in the next message, an empty payload or a failure in the
  middle of a frame ends a websocket without `onClose` (`silent`), over SSL a header read may be
  begun twice and `onClose` called twice. A `send()` while one byte of a header is read loses that byte
  (`websocket.cpp:423`, `cut`), and what follows is read out of step: `onMsg` is called with what was never
  sent.
- A connection given back as invalid, or one that could not be made, serves no waiter (`lost` in
  `ResourcePool`, `stranded` in `RedisClient` and `MysqlTx`): a command may wait for ever.
- redis: the parser does not read the line that ends an empty string (`redis.cpp:137-140`), and takes the
  next value of the array, or of the next command on the connection, from it: it calls `parse()` of a null
  pointer (`crashed`). A SUBSCRIBE that is refused deletes its parser twice. The bus, where `subscribe()` and
  `unsubscribe()` overlap, leaves a subscription without a listener (`overtaken`), uses a null pointer
  to remove it, or leaves closures with the address of a listener that is gone.
- mysql: a `tx()` whose ROLLBACK fails never settles. The last reference to a connection may
  go on a worker, as it does for each `execute()` that fails, and its deleter
  then changes the pool there without a lock.
- sqlite: the first of two `exec()` of one statement that overlap lets go of it under the second
  (`twice`, `broken`).
  Copying or moving a `Result` (`sqlite.h:56-67`) drops `last_insert_id`.

## 4. Proofs

TLAPS checks these for every value of the constants, under the named assumptions of
the modules and no others.

**ThreadPoolProofs.** Assumptions: `PoolAssumption` (finitely many workers, at
least one thread per start) and `NobodyAssumption` (a name that is no worker's). The inductive invariant `PoolInv` joins the type
invariant with what relates the pieces: who owns the mutex and where its owner is, that
a worker that leaves has seen `stop_`, that what was popped and what is queued together
are what was enqueued, once each, and that a popped task is with one worker.
`Fifo` and `QuietWhenStopped` are parts of it and not inductive alone. (No run checks `Fifo`, which
also follows from `ExecutorSpec`.) `WorkConserving`
is the end of a race whose middle it does not see: its own invariant counts what is
queued against the workers that look at the deque and the notifications nobody took
yet. `Refinement` shows that the initial states of `ThreadPool` are initial states of
`Executor`, and every step one of its steps or a stutter.

**TaskLoopProofs.** It needs no assumption: the bounds of `TaskLoopAssumption` only end
the search of TLC. `LoopNeverSpins` speaks of the first
tick; `LoopInv` speaks of all of them (`SettleTickSynced`), of what a worker past its
computation has done to the flag (`Synced`), and of when a flag is set at all (`Fresh`).
`OneCustodian` counts the places that have a promise, and places move when a queue does;
`Custody` says the same of positions, that two of them with the same promise are one, and is
what every step keeps.

**ResourcePoolProofs.** Assumption: `ResourcePoolAssumption` (finitely many calls and
addresses, addresses are ordered as numbers, a capacity and an age). No safety property
of the pool is inductive: `HeldIsUsed` needs `OnePlace` (or an idle connection might be
somebody's), `OnePlace` needs `HeldIsUsed` (or a deleter might take a connection from
where it is not), and both need that the queue holds calls that wait, once each, and that a
holder holds one connection. `PlaceInv` is that conjunction, with `InvalidIsHeld`.
`CapacityBound` rests on `PendingCounts`: the guard in `get()` bounds `used_` plus `pending_`,
so `pending_` must be no less than what is being retrieved, re-entrant calls included;
and on `PlaceInv`, for a connection that is handed out or given back to be counted once.

**ConnectionProofs.** Assumption: `ConnectionAssumption` (the bounds are numbers, and a socket
buffer takes at least one byte). `ConnInv` is the types, `PendingIsArmed`, which is inductive beside
them, and what `WriteWhole` rests on: how much is left of a write while it is pending (`Partial`), that
a tick or an event settles it and never both (`WriteTicks`), and that writes are begun one after the
other (`InOrder`). `ReadFits` keeps `read(n)` within n.

**HttpServerProofs.** Assumption: `HttpServerAssumption` (numbers, and a window of at least
one). `ResponseWhole` looks at a stream that has ended; `WholeInv` says of every stream that a body
that fits the window is never left to a later `send()`, so that a reset has nothing to take
away, and that a stream that has ended is never taken up again (`Life`). Of HTTP/1.1, `BodyExact` and
`AnswersInOrder` need one another: the client begins a request when the last one is answered, so a
response that ended too early would let the next message run into this one. `HttpInv` says what is left of
the message in the reader, on the wire and with the client (`Receiving`), what a handler at work can
rely on (`Handling`), and how the queue of the chunked writer continues what is out (`Chunking`).
`HeaderEnd` and `BodyEnd` are the readers, for texts of any length, and `OutGrows` the one lemma
about what may be written next.

**WebProofs.** Assumptions: `FrontAssumption` (numbers; the absence of an entry is no number and no
session; the session filter and auth run in either order before the handler) and
`WebSocketAssumption` and `ScriptAssumption` (numbers, classes of connections, of which the theorems say TCP
where they mean it, and what the peer sends is a script of frames).

`FrontInv` is the invariant of `FrontController`. A request may make two session ids, `OpenedId` and
`NewId`: they are its own until its response is written (`Own`), and nobody has those of requests to
come (`ToCome`), which is where it matters that `make_session_id()` never repeats itself. Requests that
share a session know that they do (`Alone`). `SessionKept` speaks of the moment at which a session is fetched,
and the last request may have saved it long before it was over, while another one fetched it: what is
stored is what the last request left, unless somebody has saved it already (`Kept`); what is saved by a request
that nobody disturbs stays there until its response is out (`Wrote`). A request that is lost uses a session
nobody else has, and no longer its cookie (`Uses`). `FlushFiltersRun` needs that the
flush chain of an earlier request has nothing to run any more (`UsedUp`), which holds because a
handler that flushes takes it to its end. `IncludesInPlace` needs that `cnt_` counts the missing parts, and
a page without missing parts has each in its place (`Parts`).

For a websocket over TCP, `HalfDuplex` needs that there is never more than one tick (`OneTick`), which
needs that a write under way has set `pending_`; `QuietAfterClose` needs that `dispose()` leaves neither a
tick nor a read behind (`Disposed`). `MessagesExact` needs to know where in the stream the websocket reads:
what the first k frames say (`Said`) has been delivered or is in `msg_`, and the read that waits, or the
next one, begins where frame k + 1 does (`Exact`, `Place`), unless a read failed inside a frame or a
`send()` cancelled half of a header (`silent`, `cut`). A read that `send()` may cancel has taken one
piece of a header at most; if it took none the next read begins at the same place, and if it took one the
header is `cut`, from where on the theorem says nothing. Any other read is under `pending_`. Two
recursive functions had to be understood for it, `Said` and the `FlattenSeq` that makes the stream: that each
exists comes from a lemma about functions that iterate a step (`Recursion`), and what holds of it from that
a set of numbers that is not empty has a least one (`LeastNumber`), which takes the place of induction.

**FetchProofs.** Assumptions: `TransferAssumption` (finitely many transfers), `AnswerAssumption` (an
answer is a text of tokens) and, for `BodyExact` alone, `PlainAssumption`: an answer is of one of the forms of
`HttpAnswer`, with a body of any length and chunks of any sizes, or has a second empty line, in which case
the property promises nothing over HTTP/1 and all the same over HTTP/2. `Watched` needs that
`what_` agrees with what libcurl waits for, and that a transfer has no events before it is added or
after it has left (`CurlInv`). That `fetch_all()` resolves with all of its responses needs the count of
those to come (`Counted`). In `SettlesOnce` it meets the client of prio: one that is asking or reading has
not settled, and one that reads frames may have, with the end of its stream behind it, and may be rejected once
more, which is the exception the property names (`PrioInv`).

`BodyExact` says of a conversation that what it has read and what is still to come make up the answer
(`InStep`): the text of the head with the rest of the wire; or the body so far with it; or, in chunks, the
body so far with the data of what is in `body_stream_` and after it. In the last case the rest has to be made
of chunks still, and the reader has to stop between two of them: `Bounds` names the places in a text where a
chunk begins, `ChunksAre` shows that the loop of the reader stops at one of them, `ChunkTail` that what
follows it is chunks again, and that it is done only when no data follow. The first empty line ends the head
because no head is empty (`FirstBlank`). Over HTTP/2 the end of a stream is its last frame (`EndLast`).
As with the websocket, the recursive functions of the model (`IsKind`, `Chunks`, `FlattenSeq`) come with lemmas
that they exist and go step by step (`KindSteps`, `RoundsExist`, `Flattened`). That an answer of `HttpAnswer` is
what the readers take it for is `PlainIs`.

**DatabaseProofs.** Assumptions: `DatabaseAssumption` (what stands for no connection is none; a reply is
one value of the protocol, in the sense of `OneValue`, empty strings included; at least one worker; addresses and a
capacity are numbers) and `BusAssumption` (numbers).

`ReplyOwn` rests on `RedisInv`. The parser stops by a count of what is open, the reply is a sequence of
tokens, and `Follows` relates them: what is open counts the values that the rest of the reply still has; so
the parser stops where its reply ends, however it was cut (`Cut`). That it begins where a
reply begins needs that a connection has one command under way, and nothing to come when no command
parses (`RedisHolders`, `RedisNet`): a command that failed must have closed its connection. What may be
to come all the same is the line that ends an empty string of a command that is done (`Spilt`); whoever
parses next has that line first, reads nothing else and is never resolved (`Doomed`). `TxAtomic` needs
where each call is in its transaction, what the server made of it, and what its task may still
change (`TxInv`, `CallInv`, `ExecuteInv`). `IdleIsClean` holds of each database for its own reason: of redis
because nothing is to come but such lines, of mysql because a connection is given back after COMMIT or ROLLBACK or is
given back as invalid (`MysqlConns`), of sqlite because a connection that is with a statement is not in the
pool (`SqliteInv`), and a statement that is called once at a time holds itself while its task is under way
(`TaskInv`).

A message of the bus goes through the inbox of a listener, a tick, and an observer: `ToldOnce` holds
because these three are in order and follow each other (`TicksInOrder`, `InboxesInOrder`), and because
only the listener that was made last listens (`LastListens`).

Only model-checked: all liveness (`QueuedIsStarted`, `ExitEnds`, `TaskSettles`, `WaiterServed`, `TcpSettles`,
`RequestAnswered`, `NoLeak`, `Settles`, `SendsGoOut`, `CloseIsTold`, `Served`), as liveness and fairness
are beyond the prover. What the runs check of safety is proved, every property of it.

## 5. What is left out

- The server: connections detached for an upgrade or for server-sent events, gzip, the text of
  headers, request bodies over HTTP/2, errors of nghttp2 itself; clients that send a request before the
  last one is answered (the code drops what follows a request in the same read).
- `Connection`: the time at which a connection object is freed. A tick of a write holds a raw `this`.
- The clients: gzip, options of a transfer, `CurlEasy::reset()`, transfers that share a socket.
- `WebSocket`: both handshakes, the text of frames, opcodes other than text, continuation,
  ping and close; peers that break the protocol.
- `FrontController`: content negotiation, the binding of arguments, handlers that throw after they have
  flushed; the text of pages; metrics.
- The databases: the text of commands, replies, rows and bound values; what becomes of a program
  after `RedisClient` is `crashed` or `SqlitePool` is `broken`, where the code uses what is not there; `MysqlPool::query()`, which is
  `execute()` with another result; what a race in the pool may do: `Races` stops the model, as its
  outcomes cannot be enumerated.
- `ResourcePool`: calls from worker threads, for the same reason.
- `Timeout` objects of a program, pipes, files, loggers: input and output without control of their own.
- The asio backend, which is not the default and leaves its scheduling to boost; the asio variant of
  the curl client with it. Text and formatting, templates that bind parameters, examples and packaging.
  Most of the lines of the repository are of these kinds: `components` in `PROJECT.json` has the
  reason in each case.

## 6. Plan

What is left, in this order:

1. Server-sent events and the upgrade to a websocket: detached connections as the way out of
   `HttpConversation` and into `WebSocket`.
2. `Connection` with the end of its objects: who holds a connection while a tick of it is
   pending, for each of its users.
3. Operators for paths, query parameters, cookies and url encoding, against
   reference definitions over small alphabets.
