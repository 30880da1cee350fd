---------------------------- MODULE WriteBuffer ----------------------------
(***************************************************************************)
(* The write buffer of one ClickHouse front end (HTTPServer or             *)
(* NativeServer): the request handlers that call Enqueue and answer the    *)
(* client, the flushLoop goroutine, the main goroutine that calls the      *)
(* front end's Close at shutdown, and the flush they share under wb.mu.    *)
(*                                                                         *)
(* A statement is named by the position at which Enqueue appended it; its  *)
(* text is abstracted.  One step of the model is one call to MySQL or one  *)
(* critical section without such a call.                                   *)
(*                                                                         *)
(* An operator X_Y is the definition X with a fault of the kind Y seeded   *)
(* into it; no specification uses it.                                      *)
(***************************************************************************)
EXTENDS Naturals, Sequences, FiniteSets

CONSTANTS
  Handlers,    (* the goroutines that serve client requests                *)
  Ticker,      (* the flushLoop goroutine                                  *)
  Closer,      (* the main goroutine at shutdown                           *)
  NoActor,     (* nobody holds wb.mu                                       *)
  MaxSize,     (* write_buffer_size                                        *)
  MaxStmts,    (* bound: how many INSERT requests arrive                   *)
  ClosesConns, (* TRUE for HTTPServer: Close drops the client connections  *)
  Faults       (* what may go wrong: a subset of FaultKinds                *)

FaultKinds == {"begin", "exec", "commit", "timeout", "crash"}

Actors == Handlers \cup {Ticker, Closer}

ASSUME ActorsAssumption ==
  /\ Ticker \notin Handlers
  /\ Closer \notin Handlers
  /\ Ticker # Closer
  /\ NoActor \notin Actors

(* make([]string, 0, maxSize) panics for a negative size, so none runs.    *)
ASSUME SizeAssumption == MaxSize \in Nat /\ MaxStmts \in Nat

ASSUME FaultAssumption == Faults \subseteq FaultKinds /\ ClosesConns \in BOOLEAN

VARIABLES
  pc,        (* where each actor is                                        *)
  mine,      (* the statement each handler appended last, 0 before         *)
  lock,      (* the holder of wb.mu                                        *)
  buffer,    (* wb.buffer                                                  *)
  phase,     (* where flushLocked is, "none" when nobody runs it           *)
  queries,   (* flushLocked's copy of the buffer                           *)
  pos,       (* the index of the next of them to execute                   *)
  expired,   (* flushLocked's 30 second context is done                    *)
  count,     (* how many statements have been appended                     *)
  db,        (* the statements MySQL has durably, in order                 *)
  dropped,   (* statements given up without any effect in MySQL            *)
  acked,     (* statements whose client was told of success                *)
  connsOpen, (* client connections still carry answers                     *)
  proc,      (* the process: "up", "poolClosed" or "exited"                *)
  closeMark  (* count when the shutdown flush took wb.mu                   *)

flushVars == <<lock, phase, queries, pos, expired>>
procVars  == <<connsOpen, proc, closeMark>>
vars == <<pc, mine, lock, buffer, phase, queries, pos, expired, count, db,
          dropped, acked, connsOpen, proc, closeMark>>

(* The states in which an actor is entitled to run.                        *)
Alive == proc # "exited"

Settled(s) == s \in dropped \/ \E i \in 1..Len(db) : db[i] = s

Elems(q) == {q[i] : i \in 1..Len(q)}
-----------------------------------------------------------------------------
Init ==
  /\ pc = [a \in Actors |-> IF a = Ticker THEN "wait" ELSE "idle"]
  /\ mine = [h \in Handlers |-> 0]
  /\ lock = NoActor
  /\ buffer = <<>>
  /\ phase = "none"
  /\ queries = <<>>
  /\ pos = 1
  /\ expired = FALSE
  /\ count = 0
  /\ db = <<>>
  /\ dropped = {}
  /\ acked = {}
  /\ connsOpen = TRUE
  /\ proc = "up"
  /\ closeMark = 0

(* Where an actor goes on when its Enqueue or Flush returns.               *)
Return(a) ==
  IF a = Ticker THEN "wait" ELSE IF a = Closer THEN "flushed" ELSE "ack"
-----------------------------------------------------------------------------
(* wb.mu.Lock returns, and the deferred wb.mu.Unlock.                      *)
Unlocked_NoMutex == TRUE
Unlocked == lock = NoActor

Unlock_Forgotten == UNCHANGED lock
Unlock == lock' = NoActor

(* When Enqueue flushes, and when flushLocked has nothing to do.           *)
Full_Late(n) == n > MaxSize
Full(n) == n >= MaxSize

NothingToFlush_UntilFull == Len(buffer) < MaxSize
NothingToFlush == buffer = <<>>

TakeBatch_KeepsBuffer(a, q) ==
  /\ lock' = a /\ pc' = [pc EXCEPT ![a] = "flushing"]
  /\ phase' = "begin" /\ queries' = q /\ pos' = 1 /\ expired' = FALSE
  /\ buffer' = q

TakeBatch_ZeroBased(a, q) ==
  /\ lock' = a /\ pc' = [pc EXCEPT ![a] = "flushing"]
  /\ phase' = "begin" /\ queries' = q /\ pos' = 0 /\ expired' = FALSE
  /\ buffer' = <<>>

(* The head of flushLocked: copy the buffer, empty it before anything is   *)
(* executed, start the 30 second context.  q is the buffer's content.      *)
TakeBatch(a, q) ==
  /\ lock' = a /\ pc' = [pc EXCEPT ![a] = "flushing"]
  /\ phase' = "begin" /\ queries' = q /\ pos' = 1 /\ expired' = FALSE
  /\ buffer' = <<>>

(* flushLocked returns and the deferred Unlock runs.                       *)
FlushReturns ==
  /\ Unlock
  /\ phase' = "none" /\ queries' = <<>> /\ pos' = 1 /\ expired' = FALSE
  /\ pc' = [pc EXCEPT ![lock] = Return(lock)]
  /\ UNCHANGED <<mine, buffer, count, acked>> /\ UNCHANGED procVars
-----------------------------------------------------------------------------
(* A client sends an INSERT; its handler calls Enqueue.                    *)
Request(h) ==
  /\ Alive /\ connsOpen
  /\ pc[h] = "idle"
  /\ count + Cardinality({g \in Handlers : pc[g] = "enqueue"}) < MaxStmts
  /\ pc' = [pc EXCEPT ![h] = "enqueue"]
  /\ UNCHANGED <<mine, buffer, count, db, dropped, acked>>
  /\ UNCHANGED flushVars /\ UNCHANGED procVars

(* Enqueue: append under wb.mu; at maxSize the caller flushes, still       *)
(* holding the lock.                                                       *)
Enqueue(h) ==
  /\ Alive
  /\ pc[h] = "enqueue"
  /\ Unlocked
  /\ count' = count + 1
  /\ mine' = [mine EXCEPT ![h] = count + 1]
  /\ IF Full(Len(buffer) + 1)
     THEN TakeBatch(h, Append(buffer, count + 1))
     ELSE /\ buffer' = Append(buffer, count + 1)
          /\ pc' = [pc EXCEPT ![h] = "ack"]
          /\ UNCHANGED flushVars
  /\ UNCHANGED <<db, dropped, acked>> /\ UNCHANGED procVars

(* The handler answers 200 or Progress; nobody hears it once the           *)
(* connections are closed.                                                 *)
Ack(h) ==
  /\ Alive
  /\ pc[h] = "ack"
  /\ pc' = [pc EXCEPT ![h] = "idle"]
  /\ acked' = IF connsOpen THEN acked \cup {mine[h]} ELSE acked
  /\ UNCHANGED <<mine, buffer, count, db, dropped>>
  /\ UNCHANGED flushVars /\ UNCHANGED procVars

(* The flushLoop goroutine receives a tick.                                *)
Tick ==
  /\ Alive
  /\ pc[Ticker] = "wait"
  /\ pc' = [pc EXCEPT ![Ticker] = "flush"]
  /\ UNCHANGED <<mine, buffer, count, db, dropped, acked>>
  /\ UNCHANGED flushVars /\ UNCHANGED procVars

(* Flush, called by flushLoop and by the front end's Close: lock, return   *)
(* at once when the buffer is empty, or start on the batch.                *)
Flush(a) ==
  /\ Alive
  /\ pc[a] = "flush"
  /\ Unlocked
  /\ IF NothingToFlush
     THEN /\ pc' = [pc EXCEPT ![a] = Return(a)]
          /\ UNCHANGED buffer /\ UNCHANGED flushVars
     ELSE TakeBatch(a, buffer)
  /\ closeMark' = IF a = Closer THEN count ELSE closeMark
  /\ UNCHANGED <<mine, count, db, dropped, acked, connsOpen, proc>>
-----------------------------------------------------------------------------
(* The 30 seconds of flushLocked's context run out.                        *)
Timeout ==
  /\ Alive
  /\ "timeout" \in Faults
  /\ phase # "none" /\ ~expired
  /\ expired' = TRUE
  /\ UNCHANGED <<pc, mine, lock, buffer, phase, queries, pos, count, db,
                 dropped, acked>>
  /\ UNCHANGED procVars

(* wb.pool.Begin succeeds or fails; the first opens the transaction, the   *)
(* second sends the batch down the statement-by-statement path.            *)
Begin ==
  /\ Alive
  /\ phase = "begin"
  /\ \/ /\ ~expired /\ proc = "up"
        /\ phase' = "tx"
     \/ /\ expired \/ proc = "poolClosed" \/ "begin" \in Faults
        /\ phase' = "single"
  /\ UNCHANGED <<pc, mine, lock, buffer, queries, pos, expired, count, db,
                 dropped, acked>>
  /\ UNCHANGED procVars

(* tx.ExecContext of the next statement succeeds inside the transaction.   *)
ExecTx ==
  /\ Alive
  /\ phase = "tx" /\ pos <= Len(queries) /\ ~expired
  /\ pos' = pos + 1
  /\ UNCHANGED <<pc, mine, lock, buffer, phase, queries, expired, count, db,
                 dropped, acked>>
  /\ UNCHANGED procVars

ExecTxFails_NoRollback ==
  /\ Alive
  /\ phase = "tx" /\ pos <= Len(queries)
  /\ expired \/ "exec" \in Faults
  /\ db' = db \o SubSeq(queries, 1, pos - 1)
  /\ dropped' = dropped \cup {queries[i] : i \in pos..Len(queries)}
  /\ FlushReturns

(* tx.ExecContext fails: rollback and return, the whole batch is gone.     *)
ExecTxFails ==
  /\ Alive
  /\ phase = "tx" /\ pos <= Len(queries)
  /\ expired \/ "exec" \in Faults
  /\ dropped' = dropped \cup Elems(queries)
  /\ UNCHANGED db
  /\ FlushReturns

(* tx.Commit takes effect.  MySQL may have committed although the answer   *)
(* was lost: the code logs an error then and does nothing else, so both    *)
(* outcomes are this step.                                                 *)
Commit ==
  /\ Alive
  /\ phase = "tx" /\ pos > Len(queries) /\ ~expired
  /\ db' = db \o queries
  /\ UNCHANGED dropped
  /\ FlushReturns

(* tx.Commit fails and MySQL rolls back; the error is logged, no retry.    *)
CommitFails ==
  /\ Alive
  /\ phase = "tx" /\ pos > Len(queries)
  /\ expired \/ "commit" \in Faults
  /\ dropped' = dropped \cup Elems(queries)
  /\ UNCHANGED db
  /\ FlushReturns

(* After a failed Begin: pool.Exec of the next statement, in autocommit.   *)
(* Its error is logged and the loop goes on.                               *)
ExecSingle ==
  /\ Alive
  /\ phase = "single" /\ pos <= Len(queries)
  /\ pos' = pos + 1
  /\ \/ /\ ~expired /\ proc = "up"
        /\ db' = Append(db, queries[pos])
        /\ UNCHANGED dropped
     \/ /\ expired \/ proc = "poolClosed" \/ "exec" \in Faults
        /\ dropped' = dropped \cup {queries[pos]}
        /\ UNCHANGED db
  /\ UNCHANGED <<pc, mine, lock, buffer, phase, queries, expired, count, acked>>
  /\ UNCHANGED procVars

SingleDone ==
  /\ Alive
  /\ phase = "single" /\ pos > Len(queries)
  /\ UNCHANGED <<db, dropped>>
  /\ FlushReturns
-----------------------------------------------------------------------------
(* SIGTERM: main reaches this front end's Close.                           *)
Signal ==
  /\ Alive
  /\ pc[Closer] = "idle"
  /\ pc' = [pc EXCEPT ![Closer] = "flush"]
  /\ UNCHANGED <<mine, buffer, count, db, dropped, acked>>
  /\ UNCHANGED flushVars /\ UNCHANGED procVars

(* The rest of Close.  HTTPServer closes its connections; NativeServer     *)
(* closes the listener only, its connections live until the process ends.  *)
ServerClose ==
  /\ Alive
  /\ pc[Closer] = "flushed"
  /\ pc' = [pc EXCEPT ![Closer] = "closed"]
  /\ connsOpen' = ~ClosesConns
  /\ UNCHANGED <<mine, buffer, count, db, dropped, acked, proc, closeMark>>
  /\ UNCHANGED flushVars

(* main returns: the deferred pool.Close, then the process is gone.        *)
PoolClose ==
  /\ pc[Closer] = "closed"
  /\ proc = "up"
  /\ proc' = "poolClosed"
  /\ UNCHANGED <<pc, mine, buffer, count, db, dropped, acked, connsOpen,
                 closeMark>>
  /\ UNCHANGED flushVars

Exit ==
  /\ proc = "poolClosed" \/ (proc = "up" /\ "crash" \in Faults)
  /\ proc' = "exited"
  /\ UNCHANGED <<pc, mine, buffer, count, db, dropped, acked, connsOpen,
                 closeMark>>
  /\ UNCHANGED flushVars
-----------------------------------------------------------------------------
FlushStep ==
  \/ Begin \/ ExecTx \/ ExecTxFails \/ Commit \/ CommitFails
  \/ ExecSingle \/ SingleDone

Next ==
  \/ \E h \in Handlers : Request(h) \/ Enqueue(h) \/ Ack(h)
  \/ \E a \in {Ticker, Closer} : Flush(a)
  \/ Tick \/ Timeout \/ FlushStep
  \/ Signal \/ ServerClose \/ PoolClose \/ Exit

Spec == Init /\ [][Next]_vars

(***************************************************************************)
(* Goroutines that can run do run, and every call to MySQL returns because *)
(* of the 30 second context: weak fairness of the flush, of the answer and *)
(* of the tick.  sync.Mutex hands the lock over to a waiter it has starved *)
(* for a millisecond, so a goroutine that waits for wb.mu gets it: strong  *)
(* fairness of the three actions that lock.  Requests, the signal, the     *)
(* exit and the faults need never happen.                                  *)
(***************************************************************************)
Fairness ==
  /\ \A h \in Handlers : SF_vars(Enqueue(h)) /\ WF_vars(Ack(h))
  /\ SF_vars(Flush(Ticker)) /\ SF_vars(Flush(Closer))
  /\ WF_vars(Tick) /\ WF_vars(FlushStep)

FairSpec == Spec /\ Fairness
-----------------------------------------------------------------------------
ActorsTypeOK ==
  /\ pc \in [Actors -> {"idle", "enqueue", "ack", "wait", "flush", "flushing",
                        "flushed", "closed"}]
  /\ mine \in [Handlers -> Nat]

FlushTypeOK ==
  /\ lock \in Actors \cup {NoActor}
  /\ buffer \in Seq(Nat)
  /\ phase \in {"none", "begin", "tx", "single"}
  /\ queries \in Seq(Nat)
  /\ pos \in Nat \ {0}

FateTypeOK ==
  /\ count \in Nat
  /\ db \in Seq(Nat)
  /\ dropped \subseteq Nat
  /\ acked \subseteq Nat

ProcTypeOK ==
  /\ proc \in {"up", "poolClosed", "exited"}
  /\ closeMark \in Nat

FlagsTypeOK == expired \in BOOLEAN /\ connsOpen \in BOOLEAN

TypeOK ==
  ActorsTypeOK /\ FlushTypeOK /\ FateTypeOK /\ ProcTypeOK /\ FlagsTypeOK

(* MySQL gets the statements in the order Enqueue appended them and none   *)
(* of them twice, whoever flushes and however the flushes interleave with  *)
(* Enqueue (buffer.go:39-109: the batch is taken and executed under wb.mu).*)
AppliedInOrder ==
  \A i, j \in 1..Len(db) : i < j => db[i] < db[j]

(* Between two critical sections fewer than maxSize statements are         *)
(* buffered: the buffer never outgrows write_buffer_size (buffer.go:39-48).*)
BufferBounded ==
  lock = NoActor => Len(buffer) < MaxSize \/ buffer = <<>>

(* No statement disappears between the buffer, the running flush and its   *)
(* two ends: every appended statement whose fate is open is still held by  *)
(* the buffer or by the flush that took it (buffer.go:75-77 empties the    *)
(* buffer before the statements are executed).                             *)
NothingForgotten ==
  \A s \in 1..count :
    Settled(s) \/ s \in Elems(buffer) \/ s \in Elems(queries)

(* Once Close's Flush has returned, everything appended before it took the *)
(* lock has been executed or given up, also what another goroutine was     *)
(* flushing when the signal came (http_server.go:64-67, 390-393).          *)
CloseDrains ==
  pc[Closer] \in {"flushed", "closed"} => \A s \in 1..closeMark : Settled(s)

(* Every appended statement is eventually executed or given up, unless the *)
(* process ends: the ticker reaches what no full buffer flushes            *)
(* (buffer.go:50-62).                                                      *)
EventuallySettled ==
  \A s \in 1..MaxStmts : s <= count ~> Settled(s) \/ ~Alive

(* A client that waits for its INSERT is answered although its handler may *)
(* have to wait for other flushes, or flush itself, first                  *)
(* (http_server.go:116-120 and 596-599).                                   *)
EventuallyAnswered ==
  \A h \in Handlers : pc[h] = "enqueue" ~> pc[h] = "idle" \/ ~Alive

(* The write buffer delivers like the abstract queue: from the head only,  *)
(* each statement to one end only (buffer.go:39-109).                      *)
Pending ==
  CASE phase = "none"   -> <<>>
    [] phase = "single" -> SubSeq(queries, pos, Len(queries))
    [] OTHER            -> queries

Delivery == INSTANCE DeliveryQueue
              WITH accepted <- count, queued <- Pending \o buffer, applied <- db

ImplementsDelivery == Delivery!Spec

(* An INSERT that was answered with success is in MySQL when the process   *)
(* has stopped: what wait_for_async_insert asks for (docs/PRODUCT.md:243). *)
AckedIsApplied ==
  ~Alive => \A s \in acked : s \in Elems(db)
=============================================================================
