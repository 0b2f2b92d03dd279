----------------------------- MODULE Databases -----------------------------
(***************************************************************************)
(* The databases that a program of this repository may use: redis over its *)
(* protocol (RedisClient), mysql over a library that blocks (MysqlTx), and *)
(* sqlite in the process (SqlitePool).  Each has a pool of connections,    *)
(* and all promise the same: a call is settled with what is its own, and   *)
(* an idle connection bears no trace of who had it before.                 *)
(*                                                                         *)
(* The names begin with Db where RedisBus, which uses a database too, has  *)
(* such a name: DatabaseProofs is about both.                              *)
(***************************************************************************)
EXTENDS Naturals, Sequences, FiniteSets

CONSTANTS
    Conn, NoConn,           \* of RedisClient and MysqlTx
    Cmd, Reply,             \* of RedisClient
    Call, Workers,          \* of MysqlTx
    Stm, Con, Capacity, MaxExec     \* of SqlitePool

VARIABLES
    database,               \* the one that the program uses
    \* RedisClient; queue, asked, parsed and passed are its waiting, inbox, got and stranded
    state, con, idle, invalid, queue, asked, stream, answer, buffer, open, body, parsed, crashed, passed,
    \* MysqlTx; unused, marked, inTx and stops are its idle, invalid, open and flaw
    kind, call, copies, unused, marked, waiting, up, inTx, pend, db, unsure, stranded, stops,
    \* SqlitePool
    life, program, self_, sqlite3_, posted, ran, execs, settled, used_, unused_, inside, broken, twice

redis == <<state, con, idle, invalid, queue, asked, stream, answer, buffer, open, body, parsed, crashed, passed>>
mysql == <<kind, call, copies, unused, marked, waiting, up, inTx, pend, db, unsure, stranded, stops>>
sqlite == <<life, program, self_, sqlite3_, posted, ran, execs, settled, used_, unused_, inside, broken, twice>>
dbVars == <<database, redis, mysql, sqlite>>

Redis == INSTANCE RedisClient WITH waiting <- queue, inbox <- asked, got <- parsed, stranded <- passed
Mysql == INSTANCE MysqlTx WITH idle <- unused, invalid <- marked, open <- inTx, flaw <- stops
Sqlite == INSTANCE SqlitePool

ASSUME DatabaseAssumption ==
    /\ NoConn \notin Conn
    /\ \A r \in Reply : r \in Seq(DOMAIN Redis!Announced) /\ Redis!OneValue(r)
    /\ Workers \in Nat \ {0}
    /\ Con \subseteq Nat /\ Capacity \in Nat

\* What the program does not use, in a state that is left alone
DbInit ==
    /\ database \in {"redis", "mysql", "sqlite"}
    /\ Redis!Init /\ Mysql!Init /\ Sqlite!Init
    /\ database # "mysql" => kind = [c \in Call |-> "tx"]

ByRedis(A) == database = "redis" /\ A /\ UNCHANGED <<database, mysql, sqlite>>
ByMysql(A) == database = "mysql" /\ A /\ UNCHANGED <<database, redis, sqlite>>
BySqlite(A) == database = "sqlite" /\ A /\ UNCHANGED <<database, redis, mysql>>

DbNext == ByRedis(Redis!Next) \/ ByMysql(Mysql!Next) \/ BySqlite(Sqlite!Next)

DbSpec == DbInit /\ [][DbNext]_dbVars

\* Each goes on as long as it can, see there.  No more is needed: no actor can act for ever,
\* so that each has its turn.
DbFairness ==
    /\ WF_dbVars(ByRedis(Redis!Goes))
    /\ WF_dbVars(ByMysql(Mysql!Goes))
    /\ WF_dbVars(BySqlite(Sqlite!Goes))

DbFairSpec == DbSpec /\ DbFairness

-----------------------------------------------------------------------------
(* Properties *)

DbTypeOK == database \in {"redis", "mysql", "sqlite"} /\ Redis!TypeOK /\ Mysql!TypeOK /\ Sqlite!TypeOK

\* redis: a command is resolved with its own reply, all of it and nothing else, however replies
\* are cut and whatever failed on the connection before; but for the line that ends an empty
\* string, when the reply ends with one: the code leaves it unread (redis.cpp:137-140).
ReplyOwn == Redis!ReplyOwn

\* mysql: tx() resolves if and only if what its function wrote is committed.
TxAtomic == Mysql!TxAtomic

\* A connection in a pool has no transaction, no statement that uses it and no task that will,
\* unless a statement of sqlite was called twice at a time (sqlite.cpp:183), and nothing unread
\* but for the lines that end empty strings (redis.cpp:137-140).
IdleIsClean == Redis!InStep /\ Mysql!IdleIsClean /\ Sqlite!Exclusive /\ Sqlite!TaskOwns

Unsettled ==
    \/ database = "redis" /\ Redis!Unsettled
    \/ database = "mysql" /\ Mysql!Unsettled
    \/ database = "sqlite" /\ Sqlite!Unsettled

\* Whenever calls are under way there comes a time when all are settled: on redis and mysql but
\* for a call that waited when a connection was freed or could not be made, which no pool
\* remembers (res.h:141-145, 162-167), on mysql but for a ROLLBACK that fails, and on sqlite but
\* for statements that run twice at a time.
Settles == Unsettled ~> ~Unsettled
=============================================================================
