-------------------------- MODULE FrontController --------------------------
(***************************************************************************)
(* What repro-web makes of the requests of one browser: FrontController    *)
(* (libraries/repro-web/src/front_controller.cpp) finds the handler and    *)
(* runs the filter chains around it (ctrl/filter.h), SessionFilter and its *)
(* two providers (session.cpp, ctrl/redissession.h) keep the session, an   *)
(* SSI page (ssi.cpp) is put together from sub-requests.                   *)
(*                                                                         *)
(* The browser has several connections and one cookie.  Filters and        *)
(* handlers run synchronously until they wait for something: one action    *)
(* takes a request from one such point to the next.  A conversation keeps  *)
(* its flush chain, with the iterator of it, for the next request.         *)
(*                                                                         *)
(* What a filter or a handler throws goes to handle_exception(), which     *)
(* flushes, while request_handler() or a handler's own wrapper is on the   *)
(* stack; once a session was fetched, only a wrapper is, and without one   *)
(* the request is lost.  Handlers flush once and do not throw after that;  *)
(* the data of a session is the number of the request that wrote it, 0 if  *)
(* none did.                                                               *)
(***************************************************************************)
EXTENDS Naturals, Sequences

CONSTANTS
    Conn,                   \* the connections of the browser
    MaxRequests,            \* bound on the requests of all connections
    Includes,               \* the number of includes of the SSI page
    Setups,                 \* what is configured: the filters in order, the provider
    None                    \* no cookie, no session, no entry

ASSUME FrontAssumption ==
    /\ MaxRequests \in Nat
    /\ Includes \in Nat \ {0}
    /\ None \notin Nat /\ None \notin [sid : Nat, data : Nat, valid : BOOLEAN]
    /\ Setups \subseteq [before : {<<"session", "auth", "handler">>, <<"auth", "session", "handler">>},
                          provider : {"memory", "redis"}]

Sid == 1 .. 2 * MaxRequests

\* make_session_id(), which repeats itself never: request n may open a session, and get a
\* new id for one that it removes
OpenedId(n) == 2 * n - 1
NewId(n) == 2 * n

Data == 0 .. MaxRequests

VARIABLES
    before,                 \* filters_, sorted by priority, and the handler at the end
    provider,               \* which SessionProvider is configured
    jar,                    \* the session cookie of the browser
    store,                  \* map_, or the keys of redis
    begun,                  \* requests so far
    \* per connection: the conversation, and the request it is at
    phase,                  \* what the request waits for
    req,                    \* its number
    route, cookie,          \* its path and its session cookie
    it_,                    \* where the filter chain is
    session,                \* the attribute "_session_"
    answer,                 \* the session cookie of the response
    flush_chain,            \* of flusheaders_func_; empty: the one the constructor sets
    flush_it,               \* its iterator
    flushed,                \* its promise is resolved
    include,                \* how far the sub-requests of an SSI page are
    resolves_, cnt_,        \* of the SSIResolver
    \* history
    spun,                   \* a flush filter threw
    clean,                  \* nothing else touched the session of the request
    saw,                    \* the data of the session as the request got it
    last                    \* per session: the data that the last request left, if it was clean

setup == <<before, provider>>
flushing == <<flush_chain, flush_it, flushed>>
page == <<include, resolves_, cnt_>>
server == <<setup, jar, store, begun, phase, req, route, cookie, it_, session, answer>>
vars == <<server, flushing, page, spun, clean, saw, last>>

Phase == {"idle", "get", "handler", "ssi", "hook", "save", "remove", "write", "stuck", "lost"}

\* a page behind the filters, an SSI page, a route no filter matches, no route at all
Route == {"page", "ssi", "plain", "missing"}
Filtered == {"page", "ssi"}

Session(s, d) == [sid |-> s, data |-> d, valid |-> TRUE]
Busy(c) == phase[c] # "idle"

\* ... and may yet touch its session
Works(c) == phase[c] \notin {"idle", "lost"}

Init ==
    /\ \E s \in Setups : before = s.before /\ provider = s.provider
    /\ jar = None
    /\ store = [s \in Sid |-> None]
    /\ begun = 0
    /\ phase = [c \in Conn |-> "idle"]
    /\ req = [c \in Conn |-> 0]
    /\ route = [c \in Conn |-> "missing"]
    /\ cookie = [c \in Conn |-> None]
    /\ it_ = [c \in Conn |-> 1]
    /\ session = [c \in Conn |-> None]
    /\ answer = [c \in Conn |-> None]
    /\ flush_chain = [c \in Conn |-> <<>>]
    /\ flush_it = [c \in Conn |-> 1]
    /\ flushed = [c \in Conn |-> FALSE]
    /\ include = [c \in Conn |-> <<>>]
    /\ resolves_ = [c \in Conn |-> <<>>]
    /\ cnt_ = [c \in Conn |-> 0]
    /\ spun = [c \in Conn |-> FALSE]
    /\ clean = [c \in Conn |-> TRUE]
    /\ saw = [c \in Conn |-> None]
    /\ last = [s \in Sid |-> 0]

-----------------------------------------------------------------------------
(* The chain before the handler *)

\* make_filter_chain(): the filters whose path matches, then the terminator
FilterChain(r) == IF r \in Filtered THEN before ELSE <<"handler">>
FlushChain(r) == IF r \in Filtered THEN <<"session", "flush">> ELSE <<"flush">>

\* The handler is invoked: an SSI page asks for all it includes, any other handler works
Invoke(c, r) ==
    IF r = "ssi"
    THEN /\ phase' = [phase EXCEPT ![c] = "ssi"]
         /\ include' = [include EXCEPT ![c] = [n \in 1 .. Includes |-> "asked"]]
         /\ resolves_' = [resolves_ EXCEPT ![c] = [n \in 1 .. Includes |-> None]]
         /\ cnt_' = [cnt_ EXCEPT ![c] = Includes]
    ELSE phase' = [phase EXCEPT ![c] = "handler"] /\ UNCHANGED page

\* The chain of request n to route r runs from filter i, with cookie k and session s so
\* far, to the first filter that does not call next() at once: the session filter if there
\* is a session to get, auth if it refuses the request or throws (see Loses, too), or the handler.
RunChain(c, n, r, k, i, s) ==
    LET chain == FilterChain(r)
    IN  \E j \in i .. Len(chain) :
          LET passed == \E m \in i .. j - 1 : chain[m] = "session"
          IN  /\ passed => k = None \/ s # None
              /\ LET opened == IF passed /\ s = None THEN Session(OpenedId(n), 0) ELSE s
                 IN  /\ session' = [session EXCEPT ![c] = opened]
                     /\ saw' = [saw EXCEPT ![c] = IF opened = None THEN None ELSE opened.data]
              /\ it_' = [it_ EXCEPT ![c] = j]
              /\ CASE chain[j] = "session" ->
                        /\ s = None /\ k # None
                        /\ phase' = [phase EXCEPT ![c] = "get"] /\ UNCHANGED page
                   [] chain[j] = "auth" ->
                        phase' = [phase EXCEPT ![c] = "hook"] /\ UNCHANGED page
                   [] OTHER -> Invoke(c, r)

\* Slip: the flush chain of the last request stays.
HandleRequest_Stale(c, r, k) ==
    /\ IF flush_chain[c] = <<>>
       THEN /\ flush_chain' = [flush_chain EXCEPT ![c] = FlushChain(r)]
            /\ flush_it' = [flush_it EXCEPT ![c] = 1]
            /\ flushed' = [flushed EXCEPT ![c] = FALSE]
       ELSE UNCHANGED flushing
    /\ RunChain(c, begun + 1, r, k, 1, None)

\* request_handler() with a route r that a handler has
HandleRequest(c, r, k) ==
    /\ flush_chain' = [flush_chain EXCEPT ![c] = FlushChain(r)]
    /\ flush_it' = [flush_it EXCEPT ![c] = 1]
    /\ flushed' = [flushed EXCEPT ![c] = FALSE]
    /\ RunChain(c, begun + 1, r, k, 1, None)

\* ... and without: not_found().flush(), with whatever flush chain there is
NotFound(c) ==
    /\ phase' = [phase EXCEPT ![c] = "hook"]
    /\ UNCHANGED <<it_, session, flushing, page, saw>>

\* A connection brings the next request.
Request(c) ==
    /\ ~Busy(c) /\ begun < MaxRequests
    /\ begun' = begun + 1
    /\ req' = [req EXCEPT ![c] = begun']
    /\ cookie' = [cookie EXCEPT ![c] = jar]
    /\ \E r \in Route :
          /\ route' = [route EXCEPT ![c] = r]
          /\ IF r = "missing" THEN NotFound(c) ELSE HandleRequest(c, r, jar)
    /\ clean' = LET others == {d \in Conn \ {c} : Works(d) /\ jar # None /\ cookie[d] = jar}
                IN  [d \in Conn |-> IF d = c THEN others = {} ELSE clean[d] /\ d \notin others]
    /\ UNCHANGED <<setup, jar, store, answer, spun, last>>

-----------------------------------------------------------------------------
(* The session is there, or is not *)

\* A later filter, or the handler before it is behind its wrapper, throws: it runs within
\* then() of get_session(), so that otherwise() is next, which makes a session that nobody
\* will use and throws again, to nobody.
Loses(c) ==
    /\ phase' = [phase EXCEPT ![c] = "lost"]
    /\ \E j \in it_[c] + 1 .. Len(before) : it_' = [it_ EXCEPT ![c] = j]
    /\ session' = [session EXCEPT ![c] = Session(OpenedId(req[c]), 0)]
    /\ saw' = [saw EXCEPT ![c] = 0]
    /\ UNCHANGED page

\* The chain goes on with the session s.
Resume(c, s) ==
    /\ RunChain(c, req[c], route[c], cookie[c], it_[c], s) \/ Loses(c)
    /\ UNCHANGED <<setup, jar, begun, req, route, cookie, answer, flushing, spun, last>>

\* MemorySessionProvider::get_session, a tick later: an entry is made if there is none
MemoryGet(c) ==
    /\ phase[c] = "get" /\ provider = "memory"
    /\ store' = [store EXCEPT ![cookie[c]] = IF @ = None THEN 0 ELSE @]
    /\ Resume(c, Session(cookie[c], store'[cookie[c]]))
    /\ UNCHANGED clean

\* RedisSessionProvider::get_session: GET, then EXPIRE, whose result does not matter
RedisGet(c) ==
    /\ phase[c] = "get" /\ provider = "redis"
    /\ Resume(c, Session(cookie[c], IF store[cookie[c]] = None THEN 0 ELSE store[cookie[c]]))
    /\ UNCHANGED <<store, clean>>

\* ... where GET fails: the session is taken for an empty one
RedisGetFails(c) ==
    /\ phase[c] = "get" /\ provider = "redis"
    /\ clean' = [clean EXCEPT ![c] = FALSE]
    /\ Resume(c, Session(cookie[c], 0))
    /\ UNCHANGED store

\* MemorySessionProvider::cleanup, or redis, drops a session that is too old
Expire(s) ==
    /\ store[s] # None
    /\ store' = [store EXCEPT ![s] = None]
    /\ last' = [last EXCEPT ![s] = None]
    /\ clean' = [c \in Conn |-> clean[c] /\ ~(Busy(c) /\ (cookie[c] = s \/ (session[c] # None /\ session[c].sid = s)))]
    /\ UNCHANGED <<setup, jar, begun, phase, req, route, cookie, it_, session, answer, flushing, page, spun, saw>>

-----------------------------------------------------------------------------
(* The handler *)

\* The handler is done and flushes the response, or throws and its wrapper or request_handler()
\* has handle_exception() do so: it has left the session alone, written to it, or invalidated it.
HandlerFlushes(c) ==
    /\ phase[c] = "handler"
    /\ phase' = [phase EXCEPT ![c] = "hook"]
    /\ \/ UNCHANGED session
       \/ session[c] # None /\ session' = [session EXCEPT ![c].data = req[c]]
       \/ session[c] # None /\ session' = [session EXCEPT ![c].valid = FALSE]
    /\ UNCHANGED <<setup, jar, store, begun, req, route, cookie, it_, answer, flushing, page, spun, clean, saw, last>>

SubRequests(c) ==
    /\ UNCHANGED <<setup, jar, store, begun, req, route, cookie, it_, session, answer>>
    /\ UNCHANGED <<flushing, spun, clean, saw, last>>

\* FrontController::include, a tick later: dispatch() finds no handler, or invokes it, and
\* sooner or later it flushes, or throws
Dispatch(c, n) ==
    /\ phase[c] = "ssi" /\ include[c][n] = "asked"
    /\ include' = [include EXCEPT ![c][n] = "flushed"]
    /\ UNCHANGED <<phase, resolves_, cnt_>>
    /\ SubRequests(c)

\* Slip: the place of a part is taken from the counter when the part arrives.
Included_Counter(c, n) ==
    /\ phase[c] = "ssi" /\ include[c][n] = "flushed"
    /\ include' = [include EXCEPT ![c][n] = "done"]
    /\ resolves_' = [resolves_ EXCEPT ![c][cnt_[c]] = n]
    /\ cnt_' = [cnt_ EXCEPT ![c] = @ - 1]
    /\ phase' = IF cnt_'[c] = 0 THEN [phase EXCEPT ![c] = "hook"] ELSE phase
    /\ SubRequests(c)

\* Slip: the counter is looked at before it is counted down.
Included_Early(c, n) ==
    /\ phase[c] = "ssi" /\ include[c][n] = "flushed"
    /\ include' = [include EXCEPT ![c][n] = "done"]
    /\ resolves_' = [resolves_ EXCEPT ![c][n] = n]
    /\ cnt_' = [cnt_ EXCEPT ![c] = @ - 1]
    /\ phase' = IF cnt_[c] = 0 THEN [phase EXCEPT ![c] = "hook"] ELSE phase
    /\ SubRequests(c)

\* SubRequest::flush, a tick later, resolves the include; the last of them combines the
\* page, and the SSI handler flushes
Included(c, n) ==
    /\ phase[c] = "ssi" /\ include[c][n] = "flushed"
    /\ include' = [include EXCEPT ![c][n] = "done"]
    /\ resolves_' = [resolves_ EXCEPT ![c][n] = n]
    /\ cnt_' = [cnt_ EXCEPT ![c] = @ - 1]
    /\ phase' = IF cnt_'[c] = 0 THEN [phase EXCEPT ![c] = "hook"] ELSE phase
    /\ SubRequests(c)

-----------------------------------------------------------------------------
(* The chain before the response *)

Flushing(c) ==
    /\ UNCHANGED <<setup, jar, begun, req, route, cookie, it_, session, flush_chain, page, saw>>

\* The terminator: the promise of flusheaders_func_ is resolved and the writer writes.  If
\* the promise was resolved for an earlier request, this may have no effect.
Terminate(c) ==
    /\ flush_it' = [flush_it EXCEPT ![c] = Len(flush_chain[c])]
    /\ flushed' = [flushed EXCEPT ![c] = TRUE]
    /\ \E next \in IF flushed[c] THEN {"write", "stuck"} ELSE {"write"} :
          phase' = [phase EXCEPT ![c] = next]

\* SessionFilter::after without a session throws; handle_exception() flushes an error and
\* the chain is at the same filter.  Otherwise the session is to be kept, or to be removed
\* and the browser to get a new one.
After(c) ==
    /\ UNCHANGED <<flush_it, flushed>>
    /\ IF session[c] = None
       THEN spun' = [spun EXCEPT ![c] = TRUE] /\ UNCHANGED <<phase, answer>>
       ELSE /\ UNCHANGED spun
            /\ IF session[c].valid
               THEN /\ answer' = [answer EXCEPT ![c] = session[c].sid]
                    /\ phase' = [phase EXCEPT ![c] = "save"]
               ELSE /\ answer' = [answer EXCEPT ![c] = NewId(req[c])]
                    /\ phase' = [phase EXCEPT ![c] = "remove"]

\* the tick of flusheaders_func_
FlushTick(c) ==
    /\ phase[c] = "hook"
    /\ IF flush_chain[c] = <<>>
       THEN phase' = [phase EXCEPT ![c] = "write"] /\ UNCHANGED <<flush_it, flushed, answer, spun>>
       ELSE IF flush_chain[c][flush_it[c]] = "session"
            THEN After(c)
            ELSE Terminate(c) /\ UNCHANGED <<answer, spun>>
    /\ UNCHANGED <<store, clean, last>>
    /\ Flushing(c)

\* Slip: a session that was invalidated is not removed.
MemorySave_Keeps(c) ==
    /\ phase[c] \in {"save", "remove"} /\ provider = "memory"
    /\ store' = [store EXCEPT ![session[c].sid] = IF phase[c] = "save" THEN session[c].data ELSE @]
    /\ Terminate(c)
    /\ UNCHANGED <<answer, spun, clean, last>>
    /\ Flushing(c)

\* set_session() and remove_user_session() of the MemorySessionProvider, a tick later
MemorySave(c) ==
    /\ phase[c] \in {"save", "remove"} /\ provider = "memory"
    /\ store' = [store EXCEPT ![session[c].sid] = IF phase[c] = "save" THEN session[c].data ELSE None]
    /\ Terminate(c)
    /\ UNCHANGED <<answer, spun, clean, last>>
    /\ Flushing(c)

\* ... of the RedisSessionProvider: SET and EXPIRE, or DEL; an error changes nothing here
RedisSave(c) ==
    /\ phase[c] \in {"save", "remove"} /\ provider = "redis"
    /\ \/ /\ store' = [store EXCEPT ![session[c].sid] = IF phase[c] = "save" THEN session[c].data ELSE None]
          /\ UNCHANGED clean
       \/ clean' = [clean EXCEPT ![c] = FALSE] /\ UNCHANGED store
    /\ Terminate(c)
    /\ UNCHANGED <<answer, spun, last>>
    /\ Flushing(c)

-----------------------------------------------------------------------------
(* The response goes out *)

\* onResponseComplete(): request and response are reset, the chains stay.  Connections
\* are kept alive; when one has gone, the next request has a new conversation.
EndRequest(c, kept) ==
    /\ phase' = [phase EXCEPT ![c] = "idle"]
    /\ req' = [req EXCEPT ![c] = 0]
    /\ route' = [route EXCEPT ![c] = "missing"]
    /\ cookie' = [cookie EXCEPT ![c] = None]
    /\ it_' = [it_ EXCEPT ![c] = 1]
    /\ session' = [session EXCEPT ![c] = None]
    /\ answer' = [answer EXCEPT ![c] = None]
    /\ saw' = [saw EXCEPT ![c] = None]
    /\ include' = [include EXCEPT ![c] = <<>>]
    /\ resolves_' = [resolves_ EXCEPT ![c] = <<>>]
    /\ IF kept THEN UNCHANGED flushing
       ELSE /\ flush_chain' = [flush_chain EXCEPT ![c] = <<>>]
            /\ flush_it' = [flush_it EXCEPT ![c] = 1]
            /\ flushed' = [flushed EXCEPT ![c] = FALSE]
    /\ last' = IF session[c] = None \/ route[c] \notin Filtered THEN last
               ELSE [last EXCEPT ![session[c].sid] =
                        IF ~clean[c] THEN None ELSE IF session[c].valid THEN session[c].data ELSE 0]
    /\ spun' = [spun EXCEPT ![c] = FALSE]
    /\ clean' = [clean EXCEPT ![c] = TRUE]
    /\ UNCHANGED <<setup, store, begun, cnt_>>

Written(c) ==
    /\ phase[c] = "write"
    /\ jar' = IF answer[c] = None THEN jar ELSE answer[c]
    /\ EndRequest(c, TRUE)

\* the browser has gone
WriteFails(c) ==
    /\ phase[c] = "write"
    /\ UNCHANGED jar
    /\ EndRequest(c, FALSE)

-----------------------------------------------------------------------------
SessionStep(c) == MemoryGet(c) \/ RedisGet(c) \/ RedisGetFails(c) \/ MemorySave(c) \/ RedisSave(c)

SubStep(c) == \E n \in 1 .. Includes : Dispatch(c, n) \/ Included(c, n)

Proceed(c) ==
    SessionStep(c) \/ HandlerFlushes(c) \/ SubStep(c) \/ FlushTick(c) \/ Written(c) \/ WriteFails(c)

Next ==
    \/ \E c \in Conn : Request(c) \/ Proceed(c)
    \/ \E s \in Sid : Expire(s)

Spec == Init /\ [][Next]_vars

\* ticks are served, redis answers or fails, handlers flush, a write ends
Fairness == \A c \in Conn : WF_vars(Proceed(c))

FairSpec == Spec /\ Fairness

-----------------------------------------------------------------------------
(* Properties *)

TypeOK ==
    /\ jar \in Sid \union {None}
    /\ store \in [Sid -> Data \union {None}]
    /\ begun \in 0 .. MaxRequests
    /\ phase \in [Conn -> Phase] /\ route \in [Conn -> Route]
    /\ cookie \in [Conn -> Sid \union {None}] /\ answer \in [Conn -> Sid \union {None}]
    /\ session \in [Conn -> [sid : Sid, data : Data, valid : BOOLEAN] \union {None}]
    /\ \A c \in Conn : flush_chain[c] = <<>> \/ flush_it[c] \in DOMAIN flush_chain[c]

\* A request finds its session as the last request with it left it that was answered: the
\* session is saved, or removed, before the response that tells the browser, whichever
\* connection, chain and provider served it.  Not promised when two requests with the session
\* overlap (the later one to save wins), when it expires, or when redis fails.
SessionKept ==
    \A c \in Conn :
        session[c] # None /\ clean[c] /\ last[session[c].sid] # None
            => saw[c] = last[session[c].sid]

\* A response goes out with what its own flush filters have made of it: the cookie of its
\* session, or a new one if the session is gone, and none where no filter matches; the
\* chain that an earlier request left on the connection adds nothing.
FlushFiltersRun ==
    \A c \in Conn : phase[c] = "write" =>
        IF route[c] \in Filtered
        THEN /\ session[c] # None /\ answer[c] # None
             /\ session[c].valid <=> answer[c] = session[c].sid
             /\ answer[c] # jar \/ session[c].valid
        ELSE answer[c] = None

\* An SSI page that is flushed has all its includes, each in its own place, in whatever
\* order the sub-requests were answered.
IncludesInPlace ==
    \A c \in Conn : route[c] = "ssi" /\ resolves_[c] # <<>> /\ phase[c] # "ssi" =>
        resolves_[c] = [n \in 1 .. Includes |-> n]

\* A request is answered, or its connection goes: except if a flush filter throws, which
\* is then run again for ever, if a 404 runs into a flush chain that is used up, or if a
\* filter or a handler throws synchronously after a session was fetched (session.cpp, otherwise()
\* of SessionFilter::before), which nobody answers.
RequestAnswered ==
    \A c \in Conn : Busy(c) ~> (~Busy(c) \/ spun[c] \/ phase[c] \in {"stuck", "lost"})
=============================================================================
