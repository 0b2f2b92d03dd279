----------------------------- MODULE SqlitePool -----------------------------
(***************************************************************************)
(* SqlitePool and Statement (libraries/repro-sqlite/src/sqlite.cpp): a     *)
(* statement has a connection from its creation to its end, and keeps      *)
(* itself alive by self_ while a task of it is under way.  The task uses   *)
(* it by its address: the model stops where that is gone.                  *)
(***************************************************************************)
EXTENDS Naturals, FiniteSets

CONSTANTS
    Stm,                    \* calls of stm() and of query()
    Con,                    \* addresses of connections
    Capacity,               \* capacity_
    MaxExec                 \* bound: calls of exec() of one statement

VARIABLES
    life,                   \* of each statement
    program,                \* those that the program holds
    self_,                  \* those that hold themselves
    sqlite3_,               \* the connection of each: {} or a singleton
    posted, ran,            \* how many of its tasks are on their way there, and back
    execs, settled,         \* calls of exec(), and how many of their promises are settled
    used_, unused_,
    inside,                 \* the statement whose result is being handed to the program
    broken,                 \* a task has used a statement that is gone
    \* history
    twice                   \* statements that were called while a task of theirs was under way

vars == <<life, program, self_, sqlite3_, posted, ran, execs, settled, used_, unused_, inside, broken, twice>>

Init ==
    /\ life = [s \in Stm |-> "new"]
    /\ program = {} /\ self_ = {}
    /\ sqlite3_ = [s \in Stm |-> {}]
    /\ posted = [s \in Stm |-> 0] /\ ran = posted /\ execs = posted /\ settled = posted
    /\ used_ = {} /\ unused_ = {}
    /\ inside = {} /\ broken = FALSE /\ twice = {}

Lowest(S) == {k \in S : \A l \in S : k <= l}

\* Statement::create(): getConnection() reuses an idle connection, opens one, or throws.
Create(s) ==
    /\ ~broken /\ life[s] = "new"
    /\ \/ \E k \in IF unused_ # {} THEN Lowest(unused_) ELSE Con \ used_ :
            /\ used_' = used_ \union {k}
            /\ unused_' = unused_ \ {k}
            /\ sqlite3_' = [sqlite3_ EXCEPT ![s] = {k}]
            /\ life' = [life EXCEPT ![s] = "alive"]
            /\ program' = program \union {s}
       \/ /\ unused_ = {}
          /\ life' = [life EXCEPT ![s] = "refused"]
          /\ UNCHANGED <<used_, unused_, sqlite3_, program>>
    /\ UNCHANGED <<self_, posted, ran, execs, settled, inside, broken, twice>>

\* exec() posts the task.
Exec(s) ==
    /\ ~broken /\ s \in program /\ execs[s] < MaxExec
    /\ self_' = self_ \union {s}
    /\ posted' = [posted EXCEPT ![s] = @ + 1]
    /\ execs' = [execs EXCEPT ![s] = @ + 1]
    /\ twice' = IF settled[s] = execs[s] THEN twice ELSE twice \union {s}
    /\ UNCHANGED <<life, program, sqlite3_, ran, settled, used_, unused_, inside, broken>>

\* A worker runs the task, which uses the connection, and succeeds or fails.
Run(s) ==
    /\ ~broken /\ posted[s] > 0
    /\ posted' = [posted EXCEPT ![s] = @ - 1]
    /\ IF life[s] = "alive"
       THEN ran' = [ran EXCEPT ![s] = @ + 1] /\ UNCHANGED broken
       ELSE broken' = TRUE /\ UNCHANGED ran
    /\ UNCHANGED <<life, program, self_, sqlite3_, execs, settled, used_, unused_, inside, twice>>

\* The last reference to s goes, unless it is held: ~Statement(), returnConnection().  Too
\* many idle connections are closed, from the lowest address.
Ends(s, held) ==
    IF held
    THEN UNCHANGED <<life, sqlite3_, used_, unused_>>
    ELSE LET idle == unused_ \union sqlite3_[s]
         IN  /\ life' = [life EXCEPT ![s] = "gone"]
             /\ sqlite3_' = [sqlite3_ EXCEPT ![s] = {}]
             /\ used_' = used_ \ sqlite3_[s]
             /\ unused_' = IF Cardinality(idle) > Capacity THEN idle \ Lowest(idle) ELSE idle

\* A task is back on the loop.
Back(s) ==
    /\ ~broken /\ inside = {} /\ ran[s] > 0
    /\ ran' = [ran EXCEPT ![s] = @ - 1]
    /\ UNCHANGED <<program, posted, execs, twice>>

\* It went well: the promise is resolved while tmp holds the statement.
Resolve(s) ==
    /\ Back(s) /\ life[s] = "alive"
    /\ self_' = self_ \ {s}
    /\ settled' = [settled EXCEPT ![s] = @ + 1]
    /\ inside' = {s}
    /\ UNCHANGED <<life, sqlite3_, used_, unused_, broken>>

\* ... and the continuation is over.
Resolved(s) ==
    /\ ~broken /\ s \in inside
    /\ inside' = {}
    /\ Ends(s, s \in program \union self_)
    /\ UNCHANGED <<program, self_, posted, ran, execs, settled, broken, twice>>

\* It has failed: the statement goes first, then the promise is rejected.
Reject(s) ==
    /\ Back(s) /\ life[s] = "alive"
    /\ self_' = self_ \ {s}
    /\ settled' = [settled EXCEPT ![s] = @ + 1]
    /\ Ends(s, s \in program)
    /\ UNCHANGED <<inside, broken>>

\* The statement of the task is gone.
Breaks(s) ==
    /\ Back(s) /\ life[s] = "gone"
    /\ broken' = TRUE
    /\ UNCHANGED <<life, self_, sqlite3_, settled, used_, unused_, inside>>

\* The program lets go of a statement, as query() does at once.
Drop(s) ==
    /\ ~broken /\ s \in program
    /\ program' = program \ {s}
    /\ Ends(s, s \in self_ \union inside)
    /\ UNCHANGED <<self_, posted, ran, execs, settled, inside, broken, twice>>

Proceeds(s) == Run(s) \/ Resolve(s) \/ Resolved(s) \/ Reject(s) \/ Breaks(s)

Next == \E s \in Stm : Create(s) \/ Exec(s) \/ Proceeds(s) \/ Drop(s)

\* Workers run tasks, the loop its ticks: something of this happens while it can.
Goes == \E s \in Stm : Proceeds(s)

Spec == Init /\ [][Next]_vars

-----------------------------------------------------------------------------
(* Properties *)

TypeOK ==
    /\ life \in [Stm -> {"new", "refused", "alive", "gone"}]
    /\ program \subseteq Stm /\ self_ \subseteq Stm
    /\ sqlite3_ \in [Stm -> {{}} \union {{k} : k \in Con}]
    /\ \A f \in {posted, ran, execs, settled} : f \in [Stm -> 0 .. MaxExec]
    /\ used_ \subseteq Con /\ unused_ \subseteq Con /\ inside \subseteq Stm /\ twice \subseteq Stm

\* No two statements have the same connection, and what is idle or closed nobody has.
Exclusive ==
    /\ \A s, t \in Stm : s # t => sqlite3_[s] \intersect sqlite3_[t] = {}
    /\ used_ = UNION {sqlite3_[s] : s \in Stm}
    /\ used_ \intersect unused_ = {}
    /\ Cardinality(unused_) <= Capacity

\* While a task of a statement is under way the statement has its connection: but for one that
\* was called again before the first task was back, which resets self_ under the second.
TaskOwns ==
    /\ \A s \in Stm \ twice : posted[s] + ran[s] > 0 => life[s] = "alive" /\ sqlite3_[s] # {}
    /\ broken => twice # {}

\* A statement is under way.  The model stops where a task has used one that is gone, see
\* TaskOwns.
Unsettled == ~broken /\ \E s \in Stm : settled[s] # execs[s]
=============================================================================
