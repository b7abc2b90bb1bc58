----------------------------- MODULE Transactions -----------------------------
(***************************************************************************)
(* connection:txn of src/wtk/dbix.lua (140-148) over the txn_start,        *)
(* txn_commit and txn_rollback of the drivers in src/wtk/dbd, on one       *)
(* connection that several jobs of the loop use.                           *)
(*                                                                         *)
(* A job runs until its function yields, so calls of different jobs        *)
(* overlap only if functions yield inside txn (Shares).  The database is   *)
(* external: what BEGIN, COMMIT and ROLLBACK do inside and outside a       *)
(* transaction is that of SQLite and of MySQL, whose BEGIN commits the     *)
(* transaction that is open.                                               *)
(***************************************************************************)
EXTENDS Naturals, Sequences

CONSTANTS
  Jobs,         \* coroutines with the same connection
  Drivers,      \* the drivers the process may have connected with
  Nonblocking,  \* options.nonblocking of the connection
  Faults,       \* which of "BEGIN", "COMMIT" and "ROLLBACK" may be refused
  Depth,        \* bound: calls of txn inside one another
  Writes,       \* bound: statements that succeed
  Shares        \* functions given to txn yield to other jobs

ASSUME DriverAssumption == Drivers \subseteq {"sqlite3", "mysql", "postgres"}
ASSUME FlagAssumption == Nonblocking \in BOOLEAN /\ Shares \in BOOLEAN
ASSUME FaultAssumption == Faults \subseteq {"BEGIN", "COMMIT", "ROLLBACK"}
ASSUME BoundAssumption == Depth \in Nat /\ Writes \in Nat

VARIABLES
  driver,     \* the driver of the connection
  open,       \* the connection is inside a transaction
  pending,    \* the writes of that transaction
  committed,  \* the writes that are there for good
  next,       \* the number of writes so far, which are 1..next
  calls,      \* of a job: the calls of txn whose func is running, innermost first,
              \* each of which is the set of the writes that it has made
  ended       \* the calls that have returned or raised

vars == <<driver, open, pending, committed, next, calls, ended>>
database == <<open, pending, committed>>

Inside(j) == calls[j] # <<>>
MayRun(j) == Shares \/ \A k \in Jobs \ {j} : ~Inside(k)

Init ==
  /\ driver \in Drivers
  /\ open = FALSE
  /\ pending = {} /\ committed = {} /\ next = 0
  /\ calls = [j \in Jobs |-> <<>>]
  /\ ended = {}

-----------------------------------------------------------------------------
\* Mutant of Begin: the open transaction is rolled back.
BeginDropsPending ==
  \/ /\ "BEGIN" \in Faults \/ (driver = "sqlite3" /\ open)
     /\ UNCHANGED database
  \/ /\ ~(driver = "sqlite3" /\ open)
     /\ open' = TRUE /\ pending' = {} /\ UNCHANGED committed

\* BEGIN, or nil and a message: SQLite has no transaction inside another.
Begin ==
  \/ /\ "BEGIN" \in Faults \/ (driver = "sqlite3" /\ open)
     /\ UNCHANGED database
  \/ /\ ~(driver = "sqlite3" /\ open)
     /\ open' = TRUE /\ pending' = {} /\ committed' = committed \cup pending

Commit == open' = FALSE /\ pending' = {} /\ committed' = committed \cup pending

\* Mutant of Rollback: the transaction is closed and its writes are kept.
RollbackKeepsWrites == open' = FALSE /\ UNCHANGED <<pending, committed>>

Rollback == open' = FALSE /\ pending' = {} /\ UNCHANGED committed

\* nil and a message instead: SQLite is busy, or the MySQL client is out of sync
\* with the server, and the transaction is still open.
Refuses(statement) == statement \in Faults /\ open /\ UNCHANGED database

\* COMMIT refused may also have ended the transaction: the disk is full, or the
\* server has chosen it to resolve a conflict.
CommitRefused == Refuses("COMMIT") \/ ("COMMIT" \in Faults /\ open /\ Rollback)

-----------------------------------------------------------------------------
\* The innermost call of j ends; refused is history: its COMMIT or ROLLBACK was.
End(j, ok, refused) ==
  /\ ended' = ended \cup {[ok |-> ok, refused |-> refused, writes |-> Head(calls[j])]}
  /\ calls' = [calls EXCEPT ![j] = Tail(@)]
  /\ UNCHANGED <<driver, next>>

\* txn_start and the call of func; what txn_start returns is not looked at.
Start(j) ==
  /\ MayRun(j) /\ driver # "postgres" /\ Len(calls[j]) < Depth
  /\ Begin
  /\ calls' = [calls EXCEPT ![j] = <<{}>> \o @]
  /\ UNCHANGED <<driver, next, ended>>

\* f_postgres_txn_start pushes its statement above the options it was given, so
\* f_postgres_query takes the options, nil, for the statement and raises.
StartRaises(j) ==
  /\ MayRun(j) /\ driver = "postgres" /\ Len(calls[j]) < Depth
  /\ ended' = ended \cup {[ok |-> FALSE, refused |-> FALSE, writes |-> {}]}
  /\ UNCHANGED <<driver, database, next, calls>>

Written(s, w) == [i \in DOMAIN s |-> s[i] \cup {w}]

\* A statement of func, or one outside every call.
Execute(j) ==
  /\ MayRun(j) /\ next < Writes
  /\ next' = next + 1
  /\ IF open THEN pending' = pending \cup {next'} /\ UNCHANGED committed
             ELSE committed' = committed \cup {next'} /\ UNCHANGED pending
  /\ calls' = [calls EXCEPT ![j] = Written(@, next')]
  /\ UNCHANGED <<driver, open, ended>>

\* func returns: txn_commit, whose result is not looked at.  A nonblocking
\* SQLite connection that is told BUSY yields, which is an error below lua_call.
Return(j) ==
  /\ MayRun(j) /\ Inside(j)
  /\ \/ Commit /\ End(j, TRUE, FALSE)
     \/ CommitRefused /\ End(j, TRUE, TRUE)
     \/ driver = "sqlite3" /\ Nonblocking /\ Refuses("COMMIT") /\ End(j, FALSE, TRUE)

\* Mutant of Raise: an error is passed on without txn_rollback.
RaiseKeepsOpen(j) ==
  /\ MayRun(j) /\ Inside(j)
  /\ End(j, FALSE, FALSE) /\ UNCHANGED database

\* Mutant of Raise: what the database has is committed all the same.
RaiseCommits(j) ==
  /\ MayRun(j) /\ Inside(j)
  /\ Commit /\ End(j, FALSE, FALSE)

\* func raises, or a statement of it does: txn_rollback, whose result is not
\* looked at either, and the error goes on to the caller, which may be the func
\* of another call.
Raise(j) ==
  /\ MayRun(j) /\ Inside(j)
  /\ \/ Rollback /\ End(j, FALSE, FALSE)
     \/ Refuses("ROLLBACK") /\ End(j, FALSE, TRUE)

Next == \E j \in Jobs :
  Start(j) \/ StartRaises(j) \/ Execute(j) \/ Return(j) \/ Raise(j)

Spec == Init /\ [][Next]_vars

-----------------------------------------------------------------------------
Ids == 1..Writes
Ended == [ok : BOOLEAN, refused : BOOLEAN, writes : SUBSET Ids]

TypeOK ==
  /\ driver \in Drivers
  /\ open \in BOOLEAN
  /\ pending \subseteq Ids /\ committed \subseteq Ids /\ next \in 0..Writes
  /\ pending \cap committed = {} /\ (pending # {} => open)
  /\ calls \in [Jobs -> Seq(SUBSET Ids)]
  /\ ended \subseteq Ended

\* All or nothing: what a call of txn that returned has written is there for
\* good, and nothing of what one that raised has written ever is, even if the
\* database refused to end the transaction of another call before it.  A call
\* whose own COMMIT or ROLLBACK was refused may have either outcome, at once or
\* with the BEGIN or COMMIT of a later call, but never a part of it
\* (dbix.lua:140-148).
Atomic ==
  \A c \in ended :
    IF c.refused THEN c.writes \subseteq committed \/ c.writes \cap committed = {}
    ELSE IF c.ok THEN c.writes \subseteq committed
    ELSE c.writes \cap committed = {}

\* A connection on which no call of txn is running is not left inside a
\* transaction, however the calls have overlapped, unless the database refused
\* the COMMIT or the ROLLBACK of one, which txn does not look at
\* (dbix.lua:142-146).
LeavesNothingOpen ==
  open /\ (\A j \in Jobs : ~Inside(j)) => \E c \in ended : c.refused

\* Calls that overlap or nest lose nothing as long as none of them raises and no
\* COMMIT is refused: what has been written outlives the call that wrote it,
\* whichever call's COMMIT or BEGIN it was that made it stay (dbix.lua:141, 146).
NoErrorNoLoss ==
  (\A c \in ended : c.ok /\ ~c.refused) =>
    /\ 1..next \subseteq committed \cup pending
    /\ \A c \in ended : c.writes \subseteq committed
=============================================================================
