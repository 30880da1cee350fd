-------------------------- MODULE PgTransactions ---------------------------
(***************************************************************************)
(* Transactions of the PostgreSQL front end: executeQuery's handling of    *)
(* BEGIN, COMMIT, ROLLBACK and savepoints, which runs every statement with *)
(* pool.Exec or pool.Query, that is on whatever connection database/sql    *)
(* hands out; the pool; and the MySQL session behind each connection.      *)
(* A client sends its next command when the last one is answered.          *)
(*                                                                         *)
(* One step is the part of a handler before it needs a connection, the     *)
(* pool handing one out, or the statement with all that follows it up to   *)
(* ReadyForQuery.  A row is named by the order of its INSERT.  There is    *)
(* one savepoint name.  An operator X_Y is the definition X with a fault   *)
(* of the kind Y seeded into it; no specification uses it.                 *)
(***************************************************************************)
EXTENDS Naturals, Sequences, FiniteSets, SequencesExt

CONSTANTS
  Sessions,   (* client connections of the PostgreSQL front end            *)
  Conns,      (* names for MySQL connections: MaxOpenConns of them         *)
  Nobody,     (* no connection                                             *)
  MaxIdle,    (* SetMaxIdleConns                                           *)
  MaxRows,    (* bound: how many INSERTs are sent                          *)
  Commands,   (* bound: the commands the clients of this instance use      *)
  Faults,     (* what MySQL and the network may do: a subset of FaultKinds *)
  WithFlusher (* TRUE when a ClickHouse write buffer shares the pool       *)

(* Commands that executeQuery compares with a literal, and the same with a *)
(* semicolon or in the extended protocol, which it does not recognise.     *)
Recognised == {"begin", "commit", "rollback", "savepoint", "release"}
Passed == {"begin;", "commit;", "rollback;", "rollback to", "insert"}
FaultKinds == {"refuse", "lost", "expire"}

ASSUME PoolAssumption ==
  /\ IsFiniteSet(Sessions)
  /\ IsFiniteSet(Conns) /\ Conns # {} /\ Nobody \notin Conns
  /\ MaxIdle \in 1..Cardinality(Conns)

ASSUME InputAssumption ==
  /\ MaxRows \in Nat
  /\ Commands \subseteq Recognised \cup Passed
  /\ Faults \subseteq FaultKinds
  /\ WithFlusher \in BOOLEAN

VARIABLES
  inTransaction,     (* connState.inTransaction of each session            *)
  transactionFailed, (* connState.transactionFailed                        *)
  pc,                (* "ready", "want" a connection, or "exec"            *)
  cmd,               (* the command in progress                            *)
  row,               (* the row it inserts                                 *)
  holds,             (* the MySQL connection it runs on                    *)
  reply,             (* how the last command was answered                  *)
  status,            (* the status byte of the last ReadyForQuery          *)
  free,              (* database/sql's idle connections                    *)
  opened,            (* the open connections                               *)
  txn,               (* the transaction of each MySQL session              *)
  flusher,           (* the connection the buffer's transaction holds      *)
  db,                (* the rows committed in MySQL                        *)
  rows,              (* how many rows have been sent                       *)
  asked,             (* the transaction each client believes it is in      *)
  mixed,             (* clients that did not keep to one spelling          *)
  promised,          (* rows a client was told are committed               *)
  rolledBack         (* rows a client was told are rolled back             *)

sessionVars == <<inTransaction, transactionFailed>>
poolVars    == <<free, opened, txn, flusher>>
clientVars  == <<asked, mixed, promised, rolledBack>>
vars == <<inTransaction, transactionFailed, pc, cmd, row, holds, reply, status,
          free, opened, txn, flusher, db, rows, asked, mixed, promised,
          rolledBack>>

(* A MySQL transaction: its uncommitted rows and its savepoint.            *)
Closed == [open |-> FALSE, rows |-> {}, saved |-> FALSE, mark |-> {}]
Opened == [Closed EXCEPT !.open = TRUE]

(* A client's transaction; plain if it began it as the code knows BEGIN.   *)
NotAsked == [open |-> FALSE, plain |-> FALSE, failed |-> FALSE, rows |-> {}, mark |-> {}]

Init ==
  /\ inTransaction = [s \in Sessions |-> FALSE]
  /\ transactionFailed = [s \in Sessions |-> FALSE]
  /\ pc = [s \in Sessions |-> "ready"]
  /\ cmd = [s \in Sessions |-> "none"]
  /\ row = [s \in Sessions |-> 0]
  /\ holds = [s \in Sessions |-> Nobody]
  /\ reply = [s \in Sessions |-> "none"]
  /\ status = [s \in Sessions |-> "I"]
  /\ free = <<>>
  /\ opened = {}
  /\ txn = [c \in Conns |-> Closed]
  /\ flusher = Nobody
  /\ db = {}
  /\ rows = 0
  /\ asked = [s \in Sessions |-> NotAsked]
  /\ mixed = {}
  /\ promised = {}
  /\ rolledBack = {}

Status_ZeroByte(in, failed) == IF failed THEN "E" ELSE IF in THEN "T" ELSE "0"

(* getTransactionStatus.                                                   *)
Status(in, failed) == IF failed THEN "E" ELSE IF in THEN "T" ELSE "I"
-----------------------------------------------------------------------------
(* What a client believes once its command was answered, by PostgreSQL's   *)
(* rules: with CommandComplete or with ReadyForQuery alone it was done, an *)
(* error inside a transaction aborts that.  SAVEPOINT begins none.         *)
Understand(s, c, r, ok) ==
  LET a == asked[s]
      ends == c \in {"commit", "commit;", "rollback", "rollback;"}
      Become(v) == asked' = [asked EXCEPT ![s] = v]
  IN
  /\ IF ~ok THEN Become(IF ends THEN NotAsked ELSE [a EXCEPT !.failed = a.open])
     ELSE IF ends THEN Become(NotAsked)
     ELSE IF c \in {"begin", "begin;"} THEN
       Become(IF a.open THEN a ELSE [NotAsked EXCEPT !.open = TRUE, !.plain = c = "begin"])
     ELSE IF c = "savepoint" THEN Become([a EXCEPT !.mark = a.rows])
     ELSE IF c = "rollback to" THEN Become([a EXCEPT !.rows = a.mark, !.failed = FALSE])
     ELSE IF c = "insert" /\ a.open THEN Become([a EXCEPT !.rows = @ \cup {r}])
     ELSE UNCHANGED asked
  /\ promised' = promised \cup
       (IF ok /\ c \in {"commit", "commit;"} /\ ~a.failed THEN a.rows
        ELSE IF ok /\ c = "insert" /\ ~a.open THEN {r} ELSE {})
  /\ rolledBack' = rolledBack \cup
       (IF ok /\ c \in {"rollback", "rollback;"} THEN a.rows
        ELSE IF ok /\ c = "rollback to" THEN a.rows \ a.mark ELSE {})

(* Client s does not keep to one spelling: it ends a transaction, or       *)
(* begins one within it, by a command the code takes differently from the  *)
(* one it began with; or it uses SAVEPOINT outside one that it began as    *)
(* the code knows BEGIN.                                                   *)
Mixes(s, c) ==
  LET a == asked[s] IN
  \/ c \in {"begin", "commit", "rollback"} /\ a.open /\ ~a.plain
  \/ c \in {"commit;", "rollback;"} /\ a.plain
  \/ c = "begin;" /\ a.open
  \/ c = "savepoint" /\ ~a.plain

Record(s, c) == mixed' = mixed \cup {r \in {s} : Mixes(r, c)}

Swallowed_NotNestedBegin(s, c) == c \in {"commit", "rollback"} /\ ~inTransaction[s]

(* BEGIN inside a transaction, COMMIT and ROLLBACK outside one return nil: *)
(* ReadyForQuery without CommandComplete, and MySQL is not asked.          *)
Swallowed(s, c) ==
  \/ c = "begin" /\ inTransaction[s]
  \/ c \in {"commit", "rollback"} /\ ~inTransaction[s]

Swallow(s, c) ==
  /\ pc[s] = "ready"
  /\ Swallowed(s, c)
  /\ reply' = [reply EXCEPT ![s] = "silent"]
  /\ status' = [status EXCEPT ![s] = Status(inTransaction[s], transactionFailed[s])]
  /\ cmd' = [cmd EXCEPT ![s] = c]
  /\ Understand(s, c, row[s], TRUE) /\ Record(s, c)
  /\ UNCHANGED <<pc, row, holds, db, rows>>
  /\ UNCHANGED sessionVars /\ UNCHANGED poolVars

(* The handler up to pool.Exec.  BEGIN and SAVEPOINT set inTransaction     *)
(* before the statement has run.                                           *)
Start(s, c) ==
  /\ pc[s] = "ready"
  /\ ~Swallowed(s, c)
  /\ IF c = "insert"
     THEN /\ rows < MaxRows
          /\ rows' = rows + 1
          /\ row' = [row EXCEPT ![s] = rows + 1]
     ELSE UNCHANGED <<rows, row>>
  /\ inTransaction' = [inTransaction EXCEPT ![s] = @ \/ c \in {"begin", "savepoint"}]
  /\ transactionFailed' = [transactionFailed EXCEPT ![s] = @ /\ c # "begin"]
  /\ pc' = [pc EXCEPT ![s] = "want"]
  /\ cmd' = [cmd EXCEPT ![s] = c]
  /\ reply' = [reply EXCEPT ![s] = "none"]
  /\ Record(s, c)
  /\ UNCHANGED <<holds, status, db, asked, promised, rolledBack>>
  /\ UNCHANGED poolVars
-----------------------------------------------------------------------------
(* DB.conn: the connection released last is handed out first; a new one is *)
(* opened only when none is idle and MaxOpenConns allows it.               *)
Obtain(c) ==
  IF free # <<>>
  THEN c = Last(free) /\ free' = Front(free) /\ UNCHANGED opened
  ELSE c \notin opened /\ opened' = opened \cup {c} /\ UNCHANGED free

(* DB.putConn: idle again, or closed when MaxIdleConns are idle; MySQL     *)
(* rolls back what a closed connection left open.  A handler that already  *)
(* queues is handed the connection whatever MaxIdleConns says; the model   *)
(* keeps it in free until that handler takes it.  t is the transaction the *)
(* connection is returned with.                                            *)
Wanting == {s \in Sessions : pc[s] = "want"}

Keep(c, t) ==
  /\ Len(free) < MaxIdle + Cardinality(Wanting)
  /\ free' = Append(free, c)
  /\ txn' = [txn EXCEPT ![c] = t]
  /\ UNCHANGED opened

Discard(c) ==
  /\ opened' = opened \ {c}
  /\ txn' = [txn EXCEPT ![c] = Closed]

PutBack(c, t) ==
  \/ Keep(c, t)
  \/ Len(free) >= MaxIdle /\ Discard(c) /\ UNCHANGED free

Acquire(s) ==
  /\ pc[s] = "want"
  /\ \E c \in Conns :
       /\ Obtain(c)
       /\ holds' = [holds EXCEPT ![s] = c]
  /\ pc' = [pc EXCEPT ![s] = "exec"]
  /\ UNCHANGED <<cmd, row, reply, status, txn, flusher, db, rows>>
  /\ UNCHANGED sessionVars /\ UNCHANGED clientVars

(* An idle connection reaches ConnMaxLifetime or is cut by MySQL.          *)
Expire ==
  /\ "expire" \in Faults
  /\ \E i \in 1..Len(free) :
       /\ Discard(free[i])
       /\ free' = RemoveAt(free, i)
  /\ UNCHANGED <<pc, cmd, row, holds, reply, status, flusher, db, rows>>
  /\ UNCHANGED sessionVars /\ UNCHANGED clientVars
-----------------------------------------------------------------------------
(* MySQL: a statement that names a savepoint which is not there fails.     *)
NoSavepoint(c, t) == c \in {"release", "rollback to"} /\ ~t.saved

(* MySQL: the transaction after statement c, which inserts r.  BEGIN       *)
(* commits an open transaction; without one, an INSERT commits itself and  *)
(* a savepoint is gone at once.                                            *)
TxnAfter(c, t, r) ==
  CASE c \in {"begin", "begin;"} -> Opened
    [] c \in {"commit", "commit;", "rollback", "rollback;"} -> Closed
    [] c = "savepoint" /\ t.open -> [t EXCEPT !.saved = TRUE, !.mark = t.rows]
    [] c = "release" -> [t EXCEPT !.saved = FALSE, !.mark = {}]
    [] c = "rollback to" -> [t EXCEPT !.rows = t.mark]
    [] c = "insert" /\ t.open -> [t EXCEPT !.rows = @ \cup {r}]
    [] OTHER -> t

Committed(c, t, r) ==
  CASE c \in {"begin", "begin;", "commit", "commit;"} -> t.rows
    [] c = "insert" /\ ~t.open -> {r}
    [] OTHER -> {}

(* What the handler does to connState when Exec has returned: COMMIT       *)
(* clears transactionFailed on an error only, and the failure of any other *)
(* statement than BEGIN, SAVEPOINT and RELEASE is not recorded.            *)
Finish(s, c, ok) ==
  /\ inTransaction' = [inTransaction EXCEPT ![s] = @ /\ c \notin {"commit", "rollback"}]
  /\ transactionFailed' = [transactionFailed EXCEPT ![s] =
       \/ @ /\ c # "rollback" /\ (c = "commit" => ok)
       \/ ~ok /\ c \in {"begin", "savepoint", "release"}]

(* CommandComplete or ErrorResponse, then ReadyForQuery.                   *)
Answer(s, ok) ==
  /\ Finish(s, cmd[s], ok)
  /\ Understand(s, cmd[s], row[s], ok)
  /\ pc' = [pc EXCEPT ![s] = "ready"]
  /\ holds' = [holds EXCEPT ![s] = Nobody]
  /\ reply' = [reply EXCEPT ![s] = IF ok THEN "complete" ELSE "error"]
  /\ status' = [status EXCEPT ![s] = Status(inTransaction'[s], transactionFailed'[s])]
  /\ UNCHANGED <<cmd, row, rows, flusher, mixed>>

(* MySQL runs the statement on the connection the pool chose.              *)
Exec(s) ==
  LET c == holds[s]
      t == txn[c]
  IN
  /\ pc[s] = "exec"
  /\ ~NoSavepoint(cmd[s], t)
  /\ PutBack(c, TxnAfter(cmd[s], t, row[s]))
  /\ db' = db \cup Committed(cmd[s], t, row[s])
  /\ Answer(s, TRUE)

ExecRefused_ErrorIgnored(s) ==
  /\ pc[s] = "exec"
  /\ NoSavepoint(cmd[s], txn[holds[s]]) \/ (cmd[s] = "insert" /\ "refuse" \in Faults)
  /\ PutBack(holds[s], txn[holds[s]])
  /\ UNCHANGED db
  /\ Answer(s, TRUE)

ExecRefused_Retries(s) ==
  /\ pc[s] = "exec"
  /\ NoSavepoint(cmd[s], txn[holds[s]]) \/ (cmd[s] = "insert" /\ "refuse" \in Faults)
  /\ PutBack(holds[s], txn[holds[s]])
  /\ pc' = [pc EXCEPT ![s] = "want"]
  /\ holds' = [holds EXCEPT ![s] = Nobody]
  /\ UNCHANGED <<cmd, row, reply, status, flusher, db, rows>>
  /\ UNCHANGED sessionVars /\ UNCHANGED clientVars

(* MySQL refuses the statement; the transaction it belongs to stays open.  *)
ExecRefused(s) ==
  LET c == holds[s] IN
  /\ pc[s] = "exec"
  /\ NoSavepoint(cmd[s], txn[c]) \/ (cmd[s] = "insert" /\ "refuse" \in Faults)
  /\ PutBack(c, txn[c])
  /\ UNCHANGED db
  /\ Answer(s, FALSE)

(* The connection breaks under the statement: its effect is unknown, the   *)
(* rest of its transaction is rolled back, database/sql drops it.          *)
ExecLost(s) ==
  LET c == holds[s] IN
  /\ pc[s] = "exec"
  /\ "lost" \in Faults
  /\ Discard(c) /\ UNCHANGED free
  /\ db' \in {db, db \cup Committed(cmd[s], txn[c], row[s])}
  /\ Answer(s, FALSE)
-----------------------------------------------------------------------------
(* WriteBuffer.flushLocked on the same pool: its Begin is a START          *)
(* TRANSACTION on the connection it gets, its Commit or Rollback returns   *)
(* the connection.  Its own rows are left out.                             *)
FlushBegin ==
  /\ WithFlusher
  /\ flusher = Nobody
  /\ \E c \in Conns :
       /\ Obtain(c)
       /\ flusher' = c
       /\ db' = db \cup txn[c].rows
       /\ txn' = [txn EXCEPT ![c] = Opened]
  /\ UNCHANGED <<pc, cmd, row, holds, reply, status, rows>>
  /\ UNCHANGED sessionVars /\ UNCHANGED clientVars

FlushEnd_NoRollback ==
  /\ flusher # Nobody
  /\ flusher' = Nobody
  /\ UNCHANGED <<pc, cmd, row, holds, reply, status, db, rows, free, opened, txn>>
  /\ UNCHANGED sessionVars /\ UNCHANGED clientVars

FlushEnd ==
  /\ flusher # Nobody
  /\ PutBack(flusher, Closed)
  /\ flusher' = Nobody
  /\ UNCHANGED <<pc, cmd, row, holds, reply, status, db, rows>>
  /\ UNCHANGED sessionVars /\ UNCHANGED clientVars
-----------------------------------------------------------------------------
Complete(s) == Exec(s) \/ ExecRefused(s) \/ ExecLost(s)

Next ==
  \/ \E s \in Sessions :
       \/ \E c \in Commands : Swallow(s, c) \/ Start(s, c)
       \/ Acquire(s) \/ Complete(s)
  \/ Expire \/ FlushBegin \/ FlushEnd

Spec == Init /\ [][Next]_vars

(* A waiting handler is served first come first served, so it gets one of  *)
(* the connections that keep being released; a statement returns.          *)
Fairness ==
  /\ \A s \in Sessions : SF_vars(Acquire(s)) /\ WF_vars(Complete(s))
  /\ WF_vars(FlushEnd)

FairSpec == Spec /\ Fairness
-----------------------------------------------------------------------------
TypeOK ==
  /\ inTransaction \in [Sessions -> BOOLEAN]
  /\ transactionFailed \in [Sessions -> BOOLEAN]
  /\ pc \in [Sessions -> {"ready", "want", "exec"}]
  /\ cmd \in [Sessions -> Recognised \cup Passed \cup {"none"}]
  /\ row \in [Sessions -> Nat]
  /\ holds \in [Sessions -> Conns \cup {Nobody}]
  /\ reply \in [Sessions -> {"none", "silent", "complete", "error"}]
  /\ status \in [Sessions -> {"I", "T", "E"}]
  /\ free \in Seq(Conns)
  /\ opened \subseteq Conns
  /\ txn \in [Conns -> [open : BOOLEAN, rows : SUBSET Nat, saved : BOOLEAN,
                        mark : SUBSET Nat]]
  /\ flusher \in Conns \cup {Nobody}
  /\ db \subseteq Nat
  /\ rows \in Nat
  /\ asked \in [Sessions -> [open : BOOLEAN, plain : BOOLEAN, failed : BOOLEAN,
                             rows : SUBSET Nat, mark : SUBSET Nat]]
  /\ mixed \subseteq Sessions
  /\ promised \subseteq Nat /\ rolledBack \subseteq Nat

(* While every client keeps to one spelling of BEGIN, COMMIT and ROLLBACK, *)
(* a row whose INSERT or COMMIT was answered without an error is in MySQL  *)
(* for good (docs/PRODUCT.md:131, server.go:839-863, 1201-1208).           *)
AckedCommitDurable == mixed = {} => promised \subseteq db

(* And a row whose transaction, or whose part since the savepoint, was     *)
(* answered as rolled back is not in MySQL (docs/PRODUCT.md:131 and :134,  *)
(* server.go:839-902).                                                     *)
AckedRollbackGone == mixed = {} => rolledBack \cap db = {}

(* Connections are conserved: every open one is idle, runs one handler's   *)
(* statement or the buffer's transaction, and only one of these, whatever  *)
(* fails, expires or overflows the idle list (pool.go:33-35, 55-81).       *)
Holders(c) ==
  Cardinality({i \in 1..Len(free) : free[i] = c})
  + Cardinality({s \in Sessions : holds[s] = c})
  + (IF flusher = c THEN 1 ELSE 0)

PoolConserved ==
  /\ \A c \in Conns : Holders(c) = IF c \in opened THEN 1 ELSE 0
  /\ Len(free) <= MaxIdle + Cardinality(Wanting)

(* Every command is answered although handlers queue for connections       *)
(* (server.go:808-960: a handler holds at most one connection).            *)
EventuallyAnswered ==
  \A s \in Sessions : pc[s] = "want" ~> pc[s] = "ready"
=============================================================================
