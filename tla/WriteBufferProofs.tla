------------------------- MODULE WriteBufferProofs -------------------------
(***************************************************************************)
(* Proofs about WriteBuffer for every set of handlers, every buffer size   *)
(* and every combination of faults.  The last part proves that it          *)
(* implements DeliveryQueue: what the flush has yet to settle, followed by *)
(* the buffer, is the queue.                                               *)
(***************************************************************************)
EXTENDS WriteBuffer, Integers, SequenceTheorems, TLAPS

(* The last statement whose fate is decided: fates are decided in order.   *)
Base ==
  count - Len(buffer) - Len(queries) + (IF phase = "single" THEN pos - 1 ELSE 0)

(* wb.mu is held exactly while a flush runs, by the actor that runs it.    *)
LockInv ==
  /\ lock = NoActor <=> phase = "none"
  /\ \A a \in Actors : pc[a] = "flushing" => lock = a
  /\ phase = "none" => queries = <<>>
  /\ phase # "none" => buffer = <<>>
  /\ pos <= Len(queries) + 1
  /\ phase = "begin" => pos = 1

(* The batch and the buffer are the last statements appended, in order.    *)
QueueInv ==
  /\ Len(buffer) + Len(queries) <= count
  /\ \A i \in 1..Len(buffer) : buffer[i] = count - Len(buffer) + i
  /\ \A i \in 1..Len(queries) :
       queries[i] = count - Len(buffer) - Len(queries) + i

(* MySQL has statements up to Base only, in order; none of these is open.  *)
FateInv ==
  /\ \A i \in 1..Len(db) : db[i] <= Base
  /\ \A s \in 1..Base : Settled(s)

(* How far the shutdown flush has got.                                     *)
CloseInv ==
  /\ closeMark <= count - Len(buffer)
  /\ pc[Closer] \in {"flushed", "closed"} => closeMark <= Base

IInv ==
  /\ TypeOK /\ LockInv /\ QueueInv /\ FateInv /\ CloseInv
  /\ AppliedInOrder /\ BufferBounded
-----------------------------------------------------------------------------
(* The actors of the process.                                              *)
LEMMA ActorFacts ==
  Handlers \subseteq Actors /\ Ticker \in Actors /\ Closer \in Actors
  BY DEF Actors

(* What a batch and its elements are made of.                              *)
LEMMA DataFacts ==
  ASSUME TypeOK
  PROVE  /\ <<>> \in Seq(Nat)
         /\ count + 1 \in Nat
         /\ Append(buffer, count + 1) \in Seq(Nat)
         /\ db \o queries \in Seq(Nat)
         /\ Elems(queries) \subseteq Nat
         /\ pos <= Len(queries) =>
              queries[pos] \in Nat /\ Append(db, queries[pos]) \in Seq(Nat)
  BY DEF TypeOK, FlushTypeOK, FateTypeOK, Elems

(* The state of every actor, of the flush and of the process stays well    *)
(* typed in every step.                                                    *)
LEMMA TypeStep == TypeOK /\ [Next]_vars => TypeOK'
<1> SUFFICES ASSUME TypeOK, [Next]_vars PROVE TypeOK'
  OBVIOUS
<1> USE DataFacts, ActorFacts
<1>1. ASSUME NEW h \in Handlers, Request(h) PROVE TypeOK'
  BY <1>1 DEF TypeOK, ActorsTypeOK, FlushTypeOK, FateTypeOK, ProcTypeOK, FlagsTypeOK,
            Request, procVars, flushVars
<1>2. ASSUME NEW h \in Handlers, Enqueue(h) PROVE TypeOK'
  <2> USE <1>2 DEF TypeOK, Enqueue, Unlocked, Full, procVars, flushVars, TakeBatch
  <2>1. ActorsTypeOK'
    BY DEF ActorsTypeOK, FlushTypeOK
  <2>2. FlushTypeOK'
    <3>1. CASE TakeBatch(h, Append(buffer, count + 1))
      BY <3>1 DEF FlushTypeOK
    <3>2. CASE buffer' = Append(buffer, count + 1) /\ UNCHANGED flushVars
      BY <3>2 DEF FlushTypeOK
    <3>3. QED BY <3>1, <3>2
  <2>3. FateTypeOK'
    BY DEF FateTypeOK
  <2>4. ProcTypeOK'
    BY DEF ProcTypeOK
  <2>5. FlagsTypeOK'
    BY FaultAssumption DEF FlagsTypeOK
  <2>6. QED BY <2>1, <2>2, <2>3, <2>4, <2>5
<1>3. ASSUME NEW h \in Handlers, Ack(h) PROVE TypeOK'
  BY <1>3 DEF TypeOK, ActorsTypeOK, FlushTypeOK, FateTypeOK, ProcTypeOK, FlagsTypeOK,
            Ack, procVars, flushVars
<1>4. ASSUME NEW a \in {Ticker, Closer}, Flush(a) PROVE TypeOK'
  <2> USE <1>4 DEF TypeOK, Flush, Unlocked, NothingToFlush, flushVars, TakeBatch, Return
  <2>1. ActorsTypeOK'
    BY DEF ActorsTypeOK, FlushTypeOK
  <2>2. FlushTypeOK'
    <3>1. CASE TakeBatch(a, buffer)
      BY <3>1 DEF FlushTypeOK
    <3>2. CASE UNCHANGED buffer /\ UNCHANGED flushVars
      BY <3>2 DEF FlushTypeOK
    <3>3. QED BY <3>1, <3>2
  <2>3. FateTypeOK'
    BY DEF FateTypeOK
  <2>4. ProcTypeOK'
    BY DEF ProcTypeOK, FateTypeOK
  <2>5. FlagsTypeOK'
    BY FaultAssumption DEF FlagsTypeOK
  <2>6. QED BY <2>1, <2>2, <2>3, <2>4, <2>5
<1>5. CASE Tick
  BY <1>5 DEF TypeOK, ActorsTypeOK, FlushTypeOK, FateTypeOK, ProcTypeOK, FlagsTypeOK,
            Tick, procVars, flushVars
<1>6. CASE Timeout
  BY <1>6 DEF TypeOK, ActorsTypeOK, FlushTypeOK, FateTypeOK, ProcTypeOK, FlagsTypeOK,
            Timeout, procVars
<1>7. CASE Begin
  BY <1>7 DEF TypeOK, ActorsTypeOK, FlushTypeOK, FateTypeOK, ProcTypeOK, FlagsTypeOK,
            Begin, procVars
<1>8. CASE ExecTx
  BY <1>8 DEF TypeOK, ActorsTypeOK, FlushTypeOK, FateTypeOK, ProcTypeOK, FlagsTypeOK,
            ExecTx, procVars
<1>9. CASE ExecTxFails
  <2> USE <1>9 DEF TypeOK, ExecTxFails, FlushReturns, Unlock, Return, procVars
  <2>1. ActorsTypeOK'
    BY DEF ActorsTypeOK, FlushTypeOK
  <2>2. FlushTypeOK'
    BY DEF FlushTypeOK
  <2>3. FateTypeOK'
    BY DEF FateTypeOK
  <2>4. ProcTypeOK'
    BY DEF ProcTypeOK
  <2>5. FlagsTypeOK'
    BY FaultAssumption DEF FlagsTypeOK
  <2>6. QED BY <2>1, <2>2, <2>3, <2>4, <2>5
<1>10. CASE Commit
  <2> USE <1>10 DEF TypeOK, Commit, FlushReturns, Unlock, Return, procVars
  <2>1. ActorsTypeOK'
    BY DEF ActorsTypeOK, FlushTypeOK
  <2>2. FlushTypeOK'
    BY DEF FlushTypeOK
  <2>3. FateTypeOK'
    BY DEF FateTypeOK
  <2>4. ProcTypeOK'
    BY DEF ProcTypeOK
  <2>5. FlagsTypeOK'
    BY FaultAssumption DEF FlagsTypeOK
  <2>6. QED BY <2>1, <2>2, <2>3, <2>4, <2>5
<1>11. CASE CommitFails
  <2> USE <1>11 DEF TypeOK, CommitFails, FlushReturns, Unlock, Return, procVars
  <2>1. ActorsTypeOK'
    BY DEF ActorsTypeOK, FlushTypeOK
  <2>2. FlushTypeOK'
    BY DEF FlushTypeOK
  <2>3. FateTypeOK'
    BY DEF FateTypeOK
  <2>4. ProcTypeOK'
    BY DEF ProcTypeOK
  <2>5. FlagsTypeOK'
    BY FaultAssumption DEF FlagsTypeOK
  <2>6. QED BY <2>1, <2>2, <2>3, <2>4, <2>5
<1>12. CASE ExecSingle
  <2> USE <1>12 DEF TypeOK, ExecSingle, procVars
  <2>1. ActorsTypeOK'
    BY DEF ActorsTypeOK, FlushTypeOK
  <2>2. FlushTypeOK'
    BY DEF FlushTypeOK
  <2>3. FateTypeOK'
    BY DEF FateTypeOK
  <2>4. ProcTypeOK'
    BY DEF ProcTypeOK
  <2>5. FlagsTypeOK'
    BY FaultAssumption DEF FlagsTypeOK
  <2>6. QED BY <2>1, <2>2, <2>3, <2>4, <2>5
<1>13. CASE SingleDone
  <2> USE <1>13 DEF TypeOK, SingleDone, FlushReturns, Unlock, Return, procVars
  <2>1. ActorsTypeOK'
    BY DEF ActorsTypeOK, FlushTypeOK
  <2>2. FlushTypeOK'
    BY DEF FlushTypeOK
  <2>3. FateTypeOK'
    BY DEF FateTypeOK
  <2>4. ProcTypeOK'
    BY DEF ProcTypeOK
  <2>5. FlagsTypeOK'
    BY FaultAssumption DEF FlagsTypeOK
  <2>6. QED BY <2>1, <2>2, <2>3, <2>4, <2>5
<1>14. CASE Signal
  BY <1>14 DEF TypeOK, ActorsTypeOK, FlushTypeOK, FateTypeOK, ProcTypeOK, FlagsTypeOK,
            Signal, procVars, flushVars
<1>15. CASE ServerClose
  BY <1>15 DEF TypeOK, ActorsTypeOK, FlushTypeOK, FateTypeOK, ProcTypeOK, FlagsTypeOK,
            ServerClose, flushVars
<1>16. CASE PoolClose
  BY <1>16 DEF TypeOK, ActorsTypeOK, FlushTypeOK, FateTypeOK, ProcTypeOK, FlagsTypeOK,
            PoolClose, flushVars
<1>17. CASE Exit
  BY <1>17 DEF TypeOK, ActorsTypeOK, FlushTypeOK, FateTypeOK, ProcTypeOK, FlagsTypeOK,
            Exit, flushVars
<1>18. CASE UNCHANGED vars
  BY <1>18 DEF TypeOK, ActorsTypeOK, FlushTypeOK, FateTypeOK, ProcTypeOK, FlagsTypeOK, vars
<1>19. QED
  BY <1>1, <1>2, <1>3, <1>4, <1>5, <1>6, <1>7, <1>8, <1>9, <1>10, <1>11,
     <1>12, <1>13, <1>14, <1>15, <1>16, <1>17, <1>18 DEF Next, FlushStep

(* The initial state is well typed.                                        *)
LEMMA InitTypeOK == Init => TypeOK
<1> SUFFICES ASSUME Init PROVE TypeOK
  OBVIOUS
<1> USE DEF Init
<1>1. ActorsTypeOK BY DEF ActorsTypeOK
<1>2. FlushTypeOK BY DEF FlushTypeOK
<1>3. FateTypeOK BY DEF FateTypeOK
<1>4. ProcTypeOK BY DEF ProcTypeOK
<1>5. FlagsTypeOK BY DEF FlagsTypeOK
<1>6. QED BY <1>1, <1>2, <1>3, <1>4, <1>5 DEF TypeOK

(* Every reachable state of the write buffer is well typed.                *)
THEOREM TypeCorrect == Spec => []TypeOK
  BY InitTypeOK, TypeStep, PTL DEF Spec
-----------------------------------------------------------------------------
(* The steps that touch neither the buffer, nor the flush, nor MySQL.      *)
Quiet ==
  /\ UNCHANGED <<lock, buffer, phase, queries, pos, count, db, dropped, closeMark>>
  /\ \A a \in Actors : pc'[a] = "flushing" => pc[a] = "flushing"
  /\ pc'[Closer] \in {"flushed", "closed"} => pc[Closer] \in {"flushed", "closed"}

(* The steps that neither take the mutex nor run the flush.                *)
LEMMA QuietSteps ==
  ASSUME TypeOK,
         \/ \E h \in Handlers : Request(h) \/ Ack(h)
         \/ Tick \/ Timeout \/ Signal \/ ServerClose \/ PoolClose \/ Exit
         \/ UNCHANGED vars
  PROVE  Quiet
<1> USE ActorFacts DEF TypeOK, ActorsTypeOK, Quiet
<1>1. ASSUME NEW h \in Handlers, Request(h) PROVE Quiet
  BY <1>1, ActorsAssumption DEF Request, procVars, flushVars
<1>2. ASSUME NEW h \in Handlers, Ack(h) PROVE Quiet
  BY <1>2, ActorsAssumption DEF Ack, procVars, flushVars
<1>3. CASE Tick
  BY <1>3, ActorsAssumption DEF Tick, procVars, flushVars
<1>4. CASE Timeout
  BY <1>4 DEF Timeout, procVars
<1>5. CASE Signal
  BY <1>5 DEF Signal, procVars, flushVars
<1>6. CASE ServerClose
  BY <1>6 DEF ServerClose, flushVars
<1>7. CASE PoolClose
  BY <1>7 DEF PoolClose, flushVars
<1>8. CASE Exit
  BY <1>8 DEF Exit, flushVars
<1>9. CASE UNCHANGED vars
  BY <1>9 DEF vars
<1>10. QED
  BY <1>1, <1>2, <1>3, <1>4, <1>5, <1>6, <1>7, <1>8, <1>9

(* Every step is quiet, locks, or is a step of the flush.                  *)
LEMMA StepKinds ==
  ASSUME TypeOK, [Next]_vars
  PROVE  \/ Quiet
         \/ \E h \in Handlers : Enqueue(h)
         \/ \E a \in {Ticker, Closer} : Flush(a)
         \/ FlushStep
  BY QuietSteps DEF Next

(* Every step keeps the lock discipline: who holds the mutex is flushing,  *)
(* and nobody else is.                                                     *)
LEMMA LockStep ==
  ASSUME TypeOK, LockInv, [Next]_vars
  PROVE  LockInv'
<1> USE ActorFacts, ActorsAssumption DEF TypeOK, ActorsTypeOK, FlushTypeOK, LockInv
<1>1. CASE Quiet
  BY <1>1 DEF Quiet
<1>2. ASSUME NEW h \in Handlers, Enqueue(h) PROVE LockInv'
  <2>1. CASE TakeBatch(h, Append(buffer, count + 1))
    BY <1>2, <2>1 DEF Unlocked, Full, Enqueue, TakeBatch, FateTypeOK
  <2>2. CASE pc' = [pc EXCEPT ![h] = "ack"] /\ UNCHANGED flushVars
    BY <1>2, <2>2 DEF Unlocked, Full, Enqueue, flushVars
  <2>3. QED BY <1>2, <2>1, <2>2 DEF Unlocked, Full, Enqueue
<1>3. ASSUME NEW a \in {Ticker, Closer}, Flush(a) PROVE LockInv'
  <2>1. CASE TakeBatch(a, buffer)
    BY <1>3, <2>1 DEF Unlocked, NothingToFlush, Flush, TakeBatch
  <2>2. CASE /\ pc' = [pc EXCEPT ![a] = Return(a)]
             /\ UNCHANGED buffer /\ UNCHANGED flushVars
    BY <1>3, <2>2 DEF Unlocked, NothingToFlush, Flush, Return, flushVars
  <2>3. QED BY <1>3, <2>1, <2>2 DEF Unlocked, NothingToFlush, Flush
<1>4. CASE FlushStep
  <2>1. CASE Begin
    BY <2>1 DEF Begin
  <2>2. CASE ExecTx
    BY <2>2 DEF ExecTx
  <2>3. CASE ExecSingle
    BY <2>3 DEF ExecSingle
  <2>4. CASE FlushReturns
    BY <2>4 DEF FlushReturns, Unlock, Return
  <2>5. QED
    BY <1>4, <2>1, <2>2, <2>3, <2>4
    DEF FlushStep, ExecTxFails, Commit, CommitFails, SingleDone
<1>5. QED BY <1>1, <1>2, <1>3, <1>4, StepKinds

(* Appending the next statement keeps a run of consecutive statements.     *)
LEMMA AppendNumbered ==
  ASSUME NEW q \in Seq(Nat), NEW n \in Nat, Len(q) <= n,
         \A i \in 1..Len(q) : q[i] = n - Len(q) + i
  PROVE  LET r == Append(q, n + 1)
         IN  /\ r \in Seq(Nat) /\ Len(r) = Len(q) + 1
             /\ \A i \in 1..Len(r) : r[i] = (n + 1) - Len(r) + i
<1> DEFINE r == Append(q, n + 1)
<1>1. r \in Seq(Nat) /\ Len(r) = Len(q) + 1
  OBVIOUS
<1>2. ASSUME NEW i \in 1..Len(r) PROVE r[i] = (n + 1) - Len(r) + i
  <2>1. CASE i <= Len(q)
    <3>1. i \in 1..Len(q) /\ r[i] = q[i]
      BY <1>1, <2>1
    <3>2. q[i] = n - Len(q) + i
      BY <3>1
    <3>3. QED BY <1>1, <3>1, <3>2
  <2>2. CASE i > Len(q)
    <3>1. i = Len(q) + 1
      BY <1>1, <2>2
    <3>2. r[i] = n + 1
      BY <3>1
    <3>3. QED BY <1>1, <3>1, <3>2
  <2>3. QED BY <1>1, <2>1, <2>2
<1>3. QED BY <1>1, <1>2

(* The batch and the buffer stay the latest statements, in order.          *)
LEMMA QueueStep ==
  ASSUME TypeOK, LockInv, QueueInv, [Next]_vars
  PROVE  QueueInv'
<1> USE DEF TypeOK, FlushTypeOK, FateTypeOK, QueueInv
<1>1. CASE Quiet
  BY <1>1 DEF Quiet
<1>2. ASSUME NEW h \in Handlers, Enqueue(h) PROVE QueueInv'
  <2>0. phase = "none" /\ queries = <<>> /\ count' = count + 1
    BY <1>2 DEF Unlocked, Full, Enqueue, LockInv
  <2> DEFINE r == Append(buffer, count + 1)
  <2>1. /\ r \in Seq(Nat) /\ Len(r) = Len(buffer) + 1 /\ Len(buffer) <= count
        /\ \A i \in 1..Len(r) : r[i] = (count + 1) - Len(r) + i
    <3>1. /\ buffer \in Seq(Nat) /\ count \in Nat /\ Len(buffer) <= count
          /\ \A i \in 1..Len(buffer) : buffer[i] = count - Len(buffer) + i
      BY <2>0
    <3>2. QED BY ONLY <3>1, AppendNumbered
  <2> HIDE DEF r
  <2>2. CASE buffer' = <<>> /\ queries' = r
    <3>1. Len(buffer') = 0 /\ Len(queries') = Len(r)
      BY <2>2
    <3>2. ASSUME NEW i \in 1..Len(queries')
          PROVE  queries'[i] = count' - Len(buffer') - Len(queries') + i
      <4>1. i \in 1..Len(r) /\ queries'[i] = r[i]
        BY <2>2
      <4>2. r[i] = (count + 1) - Len(r) + i
        BY <2>1, <4>1
      <4>3. QED BY <2>0, <2>1, <3>1, <4>1, <4>2
    <3>3. \A i \in 1..Len(buffer') : FALSE
      BY <3>1
    <3>4. QED BY <2>0, <2>1, <3>1, <3>2, <3>3
  <2>3. CASE buffer' = r /\ queries' = <<>>
    <3>1. Len(queries') = 0 /\ Len(buffer') = Len(r)
      BY <2>3
    <3>2. ASSUME NEW i \in 1..Len(buffer')
          PROVE  buffer'[i] = count' - Len(buffer') + i
      BY <2>0, <2>1, <2>3, <3>1
    <3>3. \A i \in 1..Len(queries') : FALSE
      BY <3>1
    <3>4. QED BY <2>0, <2>1, <3>1, <3>2, <3>3
  <2>4. QED BY <1>2, <2>0, <2>2, <2>3 DEF r, Enqueue, TakeBatch, flushVars
<1>3. ASSUME NEW a \in {Ticker, Closer}, Flush(a) PROVE QueueInv'
  <2>0. phase = "none" /\ queries = <<>> /\ count' = count
    BY <1>3 DEF Unlocked, NothingToFlush, Flush, LockInv
  <2>1. CASE TakeBatch(a, buffer)
    BY <2>0, <2>1 DEF TakeBatch
  <2>2. CASE UNCHANGED buffer /\ UNCHANGED flushVars
    BY <2>0, <2>2 DEF flushVars
  <2>3. QED BY <1>3, <2>1, <2>2 DEF Unlocked, NothingToFlush, Flush
<1>4. CASE FlushStep
  <2>1. CASE Begin \/ ExecTx \/ ExecSingle
    BY <2>1 DEF Begin, ExecTx, ExecSingle
  <2>2. CASE FlushReturns
    BY <2>2 DEF FlushReturns, Unlock
  <2>3. QED
    BY <1>4, <2>1, <2>2
    DEF FlushStep, ExecTxFails, Commit, CommitFails, SingleDone
<1>5. QED BY <1>1, <1>2, <1>3, <1>4, StepKinds

(* What a step does to MySQL, to the dropped statements and to Base.       *)
LEMMA FateKinds ==
  ASSUME TypeOK, LockInv, QueueInv, [Next]_vars
  PROVE  \/ UNCHANGED <<db, dropped>> /\ Base' = Base
         \/ /\ db' = db \o queries /\ UNCHANGED dropped
            /\ phase = "tx" /\ Base' = Base + Len(queries)
         \/ /\ dropped' = dropped \cup Elems(queries) /\ UNCHANGED db
            /\ phase = "tx" /\ Base' = Base + Len(queries)
         \/ /\ \/ db' = Append(db, queries[pos]) /\ UNCHANGED dropped
               \/ dropped' = dropped \cup {queries[pos]} /\ UNCHANGED db
            /\ phase = "single" /\ pos <= Len(queries) /\ Base' = Base + 1
<1> USE DEF TypeOK, FlushTypeOK, FateTypeOK, LockInv, QueueInv, Base
<1>1. CASE Quiet
  BY <1>1 DEF Quiet
<1>2. ASSUME NEW h \in Handlers, Enqueue(h) PROVE UNCHANGED <<db, dropped>> /\ Base' = Base
  <2>0. phase = "none" /\ queries = <<>> /\ count' = count + 1 /\ UNCHANGED <<db, dropped>>
    BY <1>2 DEF Unlocked, Full, Enqueue
  <2>1. CASE TakeBatch(h, Append(buffer, count + 1))
    BY <2>0, <2>1 DEF TakeBatch
  <2>2. CASE buffer' = Append(buffer, count + 1) /\ UNCHANGED flushVars
    BY <2>0, <2>2 DEF flushVars
  <2>3. QED BY <1>2, <2>1, <2>2 DEF Unlocked, Full, Enqueue
<1>3. ASSUME NEW a \in {Ticker, Closer}, Flush(a) PROVE UNCHANGED <<db, dropped>> /\ Base' = Base
  <2>0. phase = "none" /\ queries = <<>> /\ count' = count /\ UNCHANGED <<db, dropped>>
    BY <1>3 DEF Unlocked, NothingToFlush, Flush
  <2>1. CASE TakeBatch(a, buffer)
    BY <2>0, <2>1 DEF TakeBatch
  <2>2. CASE UNCHANGED buffer /\ UNCHANGED flushVars
    BY <2>0, <2>2 DEF flushVars
  <2>3. QED BY <1>3, <2>1, <2>2 DEF Unlocked, NothingToFlush, Flush
<1>4a. CASE Begin
  <2>1. /\ UNCHANGED <<db, dropped, buffer, queries, pos, count>>
        /\ phase = "begin" /\ pos = 1
    BY <1>4a DEF Begin
  <2>2. CASE phase' = "tx"
    BY <2>1, <2>2
  <2>3. CASE phase' = "single"
    BY <2>1, <2>3
  <2>4. QED BY <1>4a, <2>2, <2>3 DEF Begin
<1>4. CASE ExecTx
  BY <1>4 DEF ExecTx
<1>5. CASE ExecTxFails
  BY <1>5 DEF ExecTxFails, FlushReturns, Unlock
<1>6. CASE Commit
  BY <1>6 DEF Commit, FlushReturns, Unlock
<1>7. CASE CommitFails
  BY <1>7 DEF CommitFails, FlushReturns, Unlock
<1>8. CASE ExecSingle
  BY <1>8 DEF ExecSingle
<1>9. CASE SingleDone
  <2>1. /\ phase = "single" /\ pos = Len(queries) + 1
        /\ phase' = "none" /\ queries' = <<>>
        /\ UNCHANGED <<db, dropped, buffer, count>>
    BY <1>9 DEF SingleDone, FlushReturns, Unlock
  <2>2. QED BY <2>1
<1>10. QED
  BY <1>1, <1>2, <1>3, <1>4a, <1>4, <1>5, <1>6, <1>7, <1>8, <1>9, StepKinds
  DEF FlushStep

(* MySQL keeps receiving statements in order, and every statement up to    *)
(* Base keeps its fate.                                                    *)
LEMMA FateStep ==
  ASSUME TypeOK, LockInv, QueueInv, FateInv, AppliedInOrder, [Next]_vars
  PROVE  FateInv' /\ AppliedInOrder'
<1> USE DEF TypeOK, FlushTypeOK, FateTypeOK, FateInv, AppliedInOrder, Settled
<1>0. Base \in Nat
  BY DEF Base, QueueInv, LockInv
<1>1. CASE UNCHANGED <<db, dropped>> /\ Base' = Base
  BY <1>0, <1>1
<1>2. ASSUME phase = "tx", Base' = Base + Len(queries)
      PROVE  \A i \in 1..Len(queries) : queries[i] = Base + i
  BY <1>2, <1>0 DEF Base, QueueInv, LockInv
<1>3. CASE /\ db' = db \o queries /\ UNCHANGED dropped
           /\ phase = "tx" /\ Base' = Base + Len(queries)
  <2>1. /\ Len(db') = Len(db) + Len(queries)
        /\ \A i \in 1..Len(db) : db'[i] = db[i]
        /\ \A i \in 1..Len(queries) : db'[Len(db) + i] = queries[i]
    BY <1>3
  <2>2. ASSUME NEW i \in 1..Len(db'), i > Len(db)
        PROVE  db'[i] = Base + (i - Len(db))
    <3>1. i - Len(db) \in 1..Len(queries) /\ i = Len(db) + (i - Len(db))
      BY <2>1, <2>2
    <3>2. db'[i] = queries[i - Len(db)]
      BY <2>1, <3>1
    <3>3. QED BY <1>2, <1>3, <3>1, <3>2
  <2>3. ASSUME NEW s \in 1..Base' PROVE Settled(s)'
    <3>1. CASE s <= Base
      <4>1. s \in 1..Base
        BY <1>0, <3>1
      <4>2. QED BY <1>3, <2>1, <4>1
    <3>2. CASE s > Base
      <4> DEFINE j == Len(db) + (s - Base)
      <4>1. j \in 1..Len(db') /\ j > Len(db) /\ j - Len(db) = s - Base
        BY <1>0, <1>3, <2>1, <3>2
      <4>2. db'[j] = Base + (j - Len(db))
        BY <2>2, <4>1
      <4>3. db'[j] = s
        BY <1>0, <4>1, <4>2
      <4>4. QED BY <4>1, <4>3
    <3>3. QED BY <1>0, <3>1, <3>2
  <2>4. ASSUME NEW i \in 1..Len(db') PROVE db'[i] <= Base'
    <3>1. CASE i <= Len(db)
      BY <1>0, <1>3, <2>1, <3>1
    <3>2. CASE i > Len(db)
      BY <1>0, <1>3, <2>1, <2>2, <3>2
    <3>3. QED BY <3>1, <3>2
  <2>5. ASSUME NEW i \in 1..Len(db'), NEW k \in 1..Len(db'), i < k
        PROVE  db'[i] < db'[k]
    <3>1. CASE k <= Len(db)
      <4>1. i \in 1..Len(db) /\ k \in 1..Len(db)
        BY <2>5, <3>1
      <4>2. QED BY <2>1, <2>5, <4>1
    <3>2. CASE k > Len(db) /\ i <= Len(db)
      <4>1. i \in 1..Len(db) /\ db'[i] = db[i] /\ db[i] <= Base /\ db[i] \in Nat
        BY <2>1, <3>2
      <4>2. db'[k] = Base + (k - Len(db)) /\ k - Len(db) > 0
        BY <2>2, <3>2
      <4>3. QED BY <1>0, <4>1, <4>2
    <3>3. CASE k > Len(db) /\ i > Len(db)
      BY <1>0, <2>2, <2>5, <3>3
    <3>4. QED BY <3>1, <3>2, <3>3
  <2>6. QED BY <2>3, <2>4, <2>5
<1>4. CASE /\ dropped' = dropped \cup Elems(queries) /\ UNCHANGED db
           /\ phase = "tx" /\ Base' = Base + Len(queries)
  <2>1. ASSUME NEW s \in 1..Base', s > Base PROVE s \in Elems(queries)
    <3>1. s - Base \in 1..Len(queries)
      BY <1>0, <1>4, <2>1
    <3>2. queries[s - Base] = Base + (s - Base)
      BY <1>2, <1>4, <3>1
    <3>3. QED BY <1>0, <3>1, <3>2 DEF Elems
  <2>2. QED BY <1>0, <1>4, <2>1
<1>5. CASE /\ \/ db' = Append(db, queries[pos]) /\ UNCHANGED dropped
              \/ dropped' = dropped \cup {queries[pos]} /\ UNCHANGED db
           /\ phase = "single" /\ pos <= Len(queries) /\ Base' = Base + 1
  <2>1. queries[pos] = Base + 1
    BY <1>5 DEF Base, QueueInv
  <2>2. CASE db' = Append(db, queries[pos]) /\ UNCHANGED dropped
    <3>1. /\ Len(db') = Len(db) + 1
          /\ db'[Len(db) + 1] = Base + 1
          /\ \A i \in 1..Len(db) : db'[i] = db[i]
      BY <2>1, <2>2
    <3>2. ASSUME NEW s \in 1..Base' PROVE Settled(s)'
      <4>1. CASE s = Base + 1
        BY <3>1, <4>1
      <4>2. CASE s \in 1..Base
        BY <2>2, <3>1, <4>2
      <4>3. QED BY <1>0, <1>5, <4>1, <4>2
    <3>3. ASSUME NEW i \in 1..Len(db')
          PROVE  \/ i \in 1..Len(db) /\ db'[i] = db[i] /\ db[i] <= Base /\ db[i] \in Nat
                 \/ i = Len(db) + 1 /\ db'[i] = Base + 1
      <4>1. CASE i = Len(db) + 1
        BY <3>1, <4>1
      <4>2. CASE i # Len(db) + 1
        <5>1. i \in 1..Len(db)
          BY <3>1, <4>2
        <5>2. QED BY <3>1, <5>1
      <4>3. QED BY <4>1, <4>2
    <3>4. ASSUME NEW i \in 1..Len(db') PROVE db'[i] <= Base'
      <4>1. CASE i \in 1..Len(db) /\ db'[i] = db[i] /\ db[i] <= Base /\ db[i] \in Nat
        BY <1>0, <1>5, <4>1
      <4>2. CASE i = Len(db) + 1 /\ db'[i] = Base + 1
        BY <1>0, <1>5, <4>2
      <4>3. QED BY <3>3, <4>1, <4>2
    <3>5. ASSUME NEW i \in 1..Len(db'), NEW k \in 1..Len(db'), i < k
          PROVE  db'[i] < db'[k]
      <4>1. i \in 1..Len(db) /\ db'[i] = db[i]
        BY <3>1, <3>3, <3>5
      <4>2. CASE k \in 1..Len(db)
        <5>1. db'[k] = db[k] /\ db[i] < db[k]
          BY <3>1, <3>5, <4>1, <4>2
        <5>2. QED BY <4>1, <5>1
      <4>3. CASE k = Len(db) + 1
        BY <1>0, <3>1, <4>1, <4>3
      <4>4. QED BY <3>3, <4>2, <4>3
    <3>6. QED BY <3>2, <3>4, <3>5
  <2>3. CASE dropped' = dropped \cup {queries[pos]} /\ UNCHANGED db
    BY <1>0, <1>5, <2>1, <2>3
  <2>4. QED BY <1>5, <2>2, <2>3
<1>6. QED BY <1>1, <1>3, <1>4, <1>5, FateKinds

(* The buffer stays below write_buffer_size between critical sections.     *)
LEMMA BoundStep ==
  ASSUME TypeOK, LockInv, BufferBounded, [Next]_vars
  PROVE  BufferBounded'
<1> USE SizeAssumption DEF TypeOK, FlushTypeOK, BufferBounded
<1>1. CASE Quiet
  BY <1>1 DEF Quiet
<1>2. ASSUME NEW h \in Handlers, Enqueue(h) PROVE BufferBounded'
  <2>1. CASE Len(buffer) + 1 >= MaxSize
    BY <1>2, <2>1 DEF Unlocked, Full, Enqueue, TakeBatch
  <2>2. CASE ~(Len(buffer) + 1 >= MaxSize)
    <3>1. buffer' = Append(buffer, count + 1)
      BY <1>2, <2>2 DEF Unlocked, Full, Enqueue
    <3>2. Len(buffer') = Len(buffer) + 1
      BY <3>1
    <3>3. QED BY <2>2, <3>2
  <2>3. QED BY <2>1, <2>2
<1>3. ASSUME NEW a \in {Ticker, Closer}, Flush(a) PROVE BufferBounded'
  BY <1>3 DEF Unlocked, NothingToFlush, Flush, TakeBatch
<1>4. CASE FlushStep
  <2>1. phase # "none" /\ UNCHANGED buffer
    BY <1>4 DEF FlushStep, Begin, ExecTx, ExecTxFails, Commit, CommitFails,
                ExecSingle, SingleDone, FlushReturns, Unlock
  <2>2. QED BY <2>1 DEF LockInv
<1>5. QED BY <1>1, <1>2, <1>3, <1>4, StepKinds

(* The shutdown flush decides the fate of everything below its mark.       *)
LEMMA CloseStep ==
  ASSUME TypeOK, LockInv, QueueInv, CloseInv, [Next]_vars
  PROVE  CloseInv'
<1> USE DEF TypeOK, FlushTypeOK, FateTypeOK, ProcTypeOK, ActorsTypeOK
<1>0. Base \in Nat /\ Base' \in Nat /\ Base <= count - Len(buffer)
  <2>1. Base \in Nat /\ Base <= count - Len(buffer)
    BY DEF Base, QueueInv, LockInv
  <2>2. QED BY <2>1, FateKinds
<1>1. CASE Quiet
  BY <1>1 DEF Quiet, CloseInv, Base
<1>2. ASSUME NEW h \in Handlers, Enqueue(h) PROVE CloseInv'
  <2>1. /\ closeMark' = closeMark /\ Base' = Base
        /\ closeMark <= count - Len(buffer)
    <3>1. UNCHANGED <<db, dropped>> /\ phase = "none" /\ closeMark' = closeMark
      BY <1>2 DEF Unlocked, Full, Enqueue, LockInv, procVars
    <3>2. Base' = Base
      <4>1. queries = <<>> /\ count' = count + 1
        BY <1>2, <3>1 DEF Unlocked, Full, Enqueue, LockInv
      <4>2. CASE TakeBatch(h, Append(buffer, count + 1))
        BY <3>1, <4>1, <4>2 DEF TakeBatch, Base
      <4>3. CASE buffer' = Append(buffer, count + 1) /\ UNCHANGED flushVars
        BY <3>1, <4>1, <4>3 DEF flushVars, Base
      <4>4. QED BY <1>2, <4>2, <4>3 DEF Unlocked, Full, Enqueue
    <3>3. QED BY <3>1, <3>2 DEF CloseInv
  <2>2. closeMark' <= count' - Len(buffer')
    <3>1. count' = count + 1
      BY <1>2 DEF Unlocked, Full, Enqueue
    <3>2. Len(buffer') = 0 \/ Len(buffer') = Len(buffer) + 1
      <4>1. CASE TakeBatch(h, Append(buffer, count + 1))
        BY <4>1 DEF TakeBatch
      <4>2. CASE buffer' = Append(buffer, count + 1)
        BY <4>2
      <4>3. QED BY <1>2, <4>1, <4>2 DEF Unlocked, Full, Enqueue
    <3>3. QED BY <2>1, <3>1, <3>2
  <2>3. pc'[Closer] = pc[Closer]
    <3>1. h # Closer
      BY ActorsAssumption
    <3>2. QED BY <1>2, <3>1, ActorFacts DEF Unlocked, Full, Enqueue, TakeBatch
  <2>4. QED BY <2>1, <2>2, <2>3 DEF CloseInv
<1>3. ASSUME NEW a \in {Ticker, Closer}, Flush(a) PROVE CloseInv'
  <2>1. /\ phase = "none" /\ queries = <<>> /\ count' = count
        /\ closeMark' = IF a = Closer THEN count ELSE closeMark
    BY <1>3 DEF Unlocked, NothingToFlush, Flush, LockInv
  <2>2. CASE buffer = <<>>
    <3>1. /\ pc' = [pc EXCEPT ![a] = Return(a)]
          /\ UNCHANGED <<buffer, lock, phase, queries, pos>>
      BY <1>3, <2>2 DEF Unlocked, NothingToFlush, Flush, flushVars
    <3>2. Base = count /\ Base' = count
      BY <2>1, <2>2, <3>1 DEF Base
    <3>3. closeMark <= count
      BY DEF CloseInv
    <3>4. QED BY <2>1, <2>2, <3>1, <3>2, <3>3 DEF CloseInv
  <2>3. CASE buffer # <<>>
    <3>1. TakeBatch(a, buffer)
      BY <1>3, <2>3 DEF Unlocked, NothingToFlush, Flush
    <3>2. buffer' = <<>> /\ Base' = Base
      BY <2>1, <3>1 DEF TakeBatch, Base
    <3>3. pc'[Closer] \in {"flushed", "closed"} =>
            a # Closer /\ pc[Closer] \in {"flushed", "closed"}
      BY <3>1, ActorFacts DEF TakeBatch
    <3>4. closeMark' <= count' - Len(buffer')
      BY <2>1, <3>2 DEF CloseInv
    <3>5. QED BY <2>1, <3>2, <3>3, <3>4 DEF CloseInv
  <2>4. QED BY <2>2, <2>3
<1>4. CASE Begin \/ ExecTx \/ ExecSingle
  <2>1. UNCHANGED <<pc, closeMark, count, buffer>>
    BY <1>4 DEF Begin, ExecTx, ExecSingle, procVars
  <2>2. Base' >= Base
    BY <1>4, <1>0, FateKinds
  <2>3. QED BY <1>0, <2>1, <2>2 DEF CloseInv
<1>5. CASE FlushReturns
  <2>1. UNCHANGED <<closeMark, count, buffer>> /\ Base' = count - Len(buffer)
    BY <1>5 DEF FlushReturns, procVars, Base
  <2>2. QED BY <2>1 DEF CloseInv
<1>6. QED
  BY <1>1, <1>2, <1>3, <1>4, <1>5, StepKinds
  DEF FlushStep, ExecTxFails, Commit, CommitFails, SingleDone
-----------------------------------------------------------------------------
(* The initial state satisfies the inductive invariant.                    *)
LEMMA InitIInv == Init => IInv
<1> SUFFICES ASSUME Init PROVE IInv
  OBVIOUS
<1>1. TypeOK
  BY InitTypeOK
<1>2. LockInv
  BY ActorsAssumption DEF Init, LockInv
<1>3. QueueInv /\ FateInv /\ AppliedInOrder /\ BufferBounded
  BY DEF Init, QueueInv, FateInv, AppliedInOrder, BufferBounded, Base
<1>4. CloseInv
  BY ActorFacts, ActorsAssumption DEF Init, CloseInv, Base
<1>5. QED BY <1>1, <1>2, <1>3, <1>4 DEF IInv

(* The strengthening that makes the four safety invariants inductive.      *)
THEOREM Inductive == Spec => []IInv
<1>1. IInv /\ [Next]_vars => IInv'
  BY TypeStep, LockStep, QueueStep, FateStep, CloseStep, BoundStep DEF IInv
<1>2. QED BY InitIInv, <1>1, PTL DEF Spec

(* MySQL gets every buffered INSERT at most once and in the order in which *)
(* Enqueue took them, for any number of handlers and under every fault.    *)
THEOREM InOrder == Spec => []AppliedInOrder
<1>1. IInv => AppliedInOrder
  BY DEF IInv
<1>2. QED BY Inductive, <1>1, PTL

(* The buffer never outgrows write_buffer_size.                            *)
THEOREM Bounded == Spec => []BufferBounded
<1>1. IInv => BufferBounded
  BY DEF IInv
<1>2. QED BY Inductive, <1>1, PTL

(* No appended statement is ever in none of the four places it may be in.  *)
THEOREM NoneForgotten == Spec => []NothingForgotten
<1>1. ASSUME IInv PROVE NothingForgotten
  <2> USE <1>1 DEF IInv, TypeOK, FlushTypeOK, FateTypeOK, LockInv, QueueInv
  <2>1. SUFFICES ASSUME NEW s \in 1..count, ~Settled(s)
                 PROVE  s \in Elems(buffer) \/ s \in Elems(queries)
    BY DEF NothingForgotten
  <2>2. s > count - Len(buffer) - Len(queries)
    BY <2>1 DEF FateInv, Base
  <2>3. CASE s > count - Len(buffer)
    <3> DEFINE i == s - (count - Len(buffer))
    <3>1. i \in 1..Len(buffer) /\ count - Len(buffer) + i = s
      BY <2>3
    <3> HIDE DEF i
    <3>2. buffer[i] = s
      BY <3>1
    <3>3. QED BY <3>1, <3>2 DEF Elems
  <2>4. CASE s <= count - Len(buffer)
    <3> DEFINE i == s - (count - Len(buffer) - Len(queries))
    <3>1. /\ i \in 1..Len(queries)
          /\ count - Len(buffer) - Len(queries) + i = s
      BY <2>2, <2>4
    <3> HIDE DEF i
    <3>2. queries[i] = s
      BY <3>1
    <3>3. QED BY <3>1, <3>2 DEF Elems
  <2>5. QED BY <2>3, <2>4
<1>2. QED BY Inductive, <1>1, PTL

(* Close returns only when all that was appended before it is settled.     *)
THEOREM Drained == Spec => []CloseDrains
<1>1. ASSUME IInv PROVE CloseDrains
  <2>1. SUFFICES ASSUME pc[Closer] \in {"flushed", "closed"}, NEW s \in 1..closeMark
                 PROVE  Settled(s)
    BY DEF CloseDrains
  <2>2. closeMark <= Base /\ Base \in Int
    BY <1>1, <2>1 DEF IInv, CloseInv, Base, TypeOK, FlushTypeOK, FateTypeOK
  <2>3. s \in 1..Base
    BY <1>1, <2>2 DEF IInv, TypeOK, ProcTypeOK
  <2>4. QED BY <1>1, <2>3 DEF IInv, FateInv
<1>2. QED BY Inductive, <1>1, PTL
-----------------------------------------------------------------------------
Queue == Pending \o buffer

Stutter == UNCHANGED <<count, Queue, db, dropped>>

(* No flush runs: the queue is the buffer.                                 *)
LEMMA QueueIsBuffer ==
  ASSUME IInv, phase = "none"
  PROVE  Queue = buffer /\ buffer \in Seq(Nat)
<1>1. buffer \in Seq(Nat)
  BY DEF IInv, TypeOK, FlushTypeOK
<1>2. Queue = <<>> \o buffer
  BY DEF Queue, Pending
<1> QED
  BY <1>1, <1>2, ConcatEmptySeq

(* A flush runs: the queue is what it has yet to settle.                   *)
LEMMA QueueIsPending ==
  ASSUME IInv, phase # "none"
  PROVE  Queue = Pending /\ Pending \in Seq(Nat)
<1>1. buffer = <<>>
  BY DEF IInv, LockInv
<1>2. Pending \in Seq(Nat)
  <2>1. /\ queries \in Seq(Nat) /\ pos \in Int /\ Len(queries) \in Int
        /\ \A i \in pos..Len(queries) : queries[i] \in Nat
    BY DEF IInv, TypeOK, FlushTypeOK
  <2>2. SubSeq(queries, pos, Len(queries)) \in Seq(Nat)
    BY <2>1, SubSeqProperties
  <2> QED
    BY <2>1, <2>2 DEF Pending
<1> QED
  BY <1>1, <1>2, ConcatEmptySeq DEF Queue

(* The same of the queue after a step, as far as each case needs it.       *)
LEMMA QueueAfter ==
  ASSUME IInv'
  PROVE  /\ phase' = "none" => Queue' = buffer'
         /\ phase' \in {"begin", "tx"} => Queue' = queries'
         /\ phase' = "single" => Queue' = SubSeq(queries', pos', Len(queries'))
<1>1. /\ buffer' \in Seq(Nat) /\ queries' \in Seq(Nat) /\ pos' \in Int
      /\ phase' # "none" => buffer' = <<>>
  BY DEF IInv, TypeOK, FlushTypeOK, LockInv
<1>2. ASSUME phase' = "none"
      PROVE  Queue' = buffer'
  <2>1. Queue' = <<>> \o buffer'
    BY <1>2 DEF Queue, Pending
  <2> QED
    BY <1>1, <2>1, ConcatEmptySeq
<1>3. ASSUME phase' # "none"
      PROVE  Queue' = Pending'
  <2>1. Queue' = Pending' \o <<>>
    BY <1>1, <1>3 DEF Queue
  <2>2. SubSeq(queries', pos', Len(queries')) \in Seq(Nat)
    <3>1. Len(queries') \in Int /\ \A i \in pos'..Len(queries') : queries'[i] \in Nat
      BY <1>1, pos' > 0 DEF IInv, TypeOK, FlushTypeOK
    <3> QED
      BY <1>1, <3>1, SubSeqProperties
  <2>3. Pending' \in Seq(Nat)
    BY <1>1, <2>2 DEF Pending
  <2> QED
    BY <2>1, <2>3, ConcatEmptySeq
<1> QED
  BY <1>2, <1>3 DEF Pending

(* The batch goes as a whole, or there was none.                           *)
LEMMA WholeBatch ==
  ASSUME IInv, IInv', phase = "tx", FlushReturns, UNCHANGED count,
         \/ db' = db \o queries /\ UNCHANGED dropped
         \/ dropped' = dropped \cup Elems(queries) /\ UNCHANGED db
  PROVE  Delivery!Next \/ Stutter
<1>1. /\ Queue = queries /\ queries \in Seq(Nat) /\ db \in Seq(Nat)
      /\ Len(queries) \in Nat
  BY QueueIsPending DEF IInv, TypeOK, FlushTypeOK, FateTypeOK, Pending
<1>2. phase' = "none" /\ UNCHANGED buffer /\ buffer = <<>>
  BY DEF FlushReturns, IInv, LockInv
<1>3. Queue' = <<>>
  BY <1>2, QueueAfter
<1>4. CASE queries = <<>>
  <2>1. Elems(queries) = {}
    BY <1>4 DEF Elems
  <2>2. db \o queries = db
    BY <1>1, <1>4, ConcatEmptySeq
  <2> QED
    BY <1>1, <1>3, <1>4, <2>1, <2>2 DEF Stutter
<1>5. CASE queries # <<>>
  <2>1. Len(Queue) \in 1..Len(Queue)
    BY <1>1, <1>5
  <2>2. SubSeq(Queue, 1, Len(Queue)) = queries
    BY <1>1, SubSeqFull
  <2>3. SubSeq(Queue, Len(Queue) + 1, Len(Queue)) = <<>>
    BY <1>1, SubSeqEmpty
  <2>4. Elems(queries) = Delivery!ToSet(queries)
    BY <1>1 DEF Elems, Delivery!ToSet
  <2>5. Delivery!Apply(Len(Queue)) \/ Delivery!Drop(Len(Queue))
    BY <1>1, <1>3, <2>2, <2>3, <2>4 DEF Delivery!Apply, Delivery!Drop, Queue
  <2> QED
    BY <2>1, <2>5 DEF Delivery!Next, Queue
<1> QED
  BY <1>4, <1>5

(* Statement by statement, the head of the queue goes.                     *)
LEMMA HeadOnly ==
  ASSUME IInv, IInv', ExecSingle
  PROVE  Delivery!Next
<1>1. /\ queries \in Seq(Nat) /\ Len(queries) \in Nat /\ db \in Seq(Nat)
      /\ pos \in 1..Len(queries)
  BY DEF ExecSingle, IInv, TypeOK, FlushTypeOK, FateTypeOK
<1>2. Queue = SubSeq(queries, pos, Len(queries))
  BY QueueIsPending DEF ExecSingle, Pending
<1>3. Queue' = SubSeq(queries, pos + 1, Len(queries))
  BY QueueAfter DEF ExecSingle
<1>4. Queue = <<queries[pos]>> \o Queue' /\ Queue' \in Seq(Nat)
  <2>1. Len(queries) \in pos..Len(queries)
    BY <1>1
  <2>2. SubSeq(queries, pos, Len(queries))
          = <<queries[pos]>> \o SubSeq(queries, pos + 1, Len(queries))
    BY <1>1, <2>1, SubSeqRecursiveFirst
  <2>3. \A i \in (pos + 1)..Len(queries) : queries[i] \in Nat
    BY <1>1
  <2>4. SubSeq(queries, pos + 1, Len(queries)) \in Seq(Nat)
    BY <1>1, <2>3, SubSeqProperties
  <2> QED
    BY <1>2, <1>3, <2>2, <2>4
<1>5. /\ Len(Queue) \in Nat /\ 1 \in 1..Len(Queue)
      /\ SubSeq(Queue, 1, 1) = <<queries[pos]>>
      /\ SubSeq(Queue, 2, Len(Queue)) = Queue'
  <2>1. queries[pos] \in Nat
    BY <1>1
  <2> DEFINE x == queries[pos]
             q == Queue'
  <2>2. x \in Nat /\ q \in Seq(Nat) /\ Queue = <<x>> \o q
    BY <1>4, <2>1
  <2> HIDE DEF x, q
  <2>3. /\ Queue \in Seq(Nat) /\ Queue # <<>> /\ Queue[1] = x /\ Len(Queue) = Len(q) + 1
        /\ \A i \in 1..Len(q) : Queue[i + 1] = q[i]
    BY <2>2
  <2>4. Len(Queue) \in Nat /\ 1 \in 1..Len(Queue) /\ Len(q) \in Nat
    BY <2>2, <2>3
  <2>5. Tail(Queue) = q /\ Head(Queue) = x
    BY <2>2, <2>3
  <2>6. SubSeq(Queue, 2, Len(Queue)) = q
    BY <2>3, <2>5, TailIsSubSeq
  <2>7. SubSeq(Queue, 1, 1) = <<x>>
    <3>1. SubSeq(Queue, 1, 1) = <<x>> \o SubSeq(Queue, 2, 1)
      BY <2>3, <2>4, SubSeqRecursiveFirst
    <3>2. SubSeq(Queue, 2, 1) = <<>>
      BY SubSeqEmpty
    <3>3. <<x>> \in Seq(Nat)
      BY <2>2
    <3> QED
      BY <3>1, <3>2, <3>3, ConcatEmptySeq
  <2> QED
    BY <2>4, <2>6, <2>7 DEF x, q
<1>6. Delivery!ToSet(<<queries[pos]>>) = {queries[pos]}
  BY DEF Delivery!ToSet
<1>7. Append(db, queries[pos]) = db \o <<queries[pos]>>
  BY <1>1, AppendIsConcat
<1>8. Delivery!Apply(1) \/ Delivery!Drop(1)
  <2>1. Queue' = SubSeq(Queue, 1 + 1, Len(Queue)) /\ UNCHANGED count
    BY <1>5 DEF ExecSingle
  <2>2. CASE db' = db \o SubSeq(Queue, 1, 1) /\ UNCHANGED dropped
    BY <2>1, <2>2 DEF Delivery!Apply, Queue
  <2>3. CASE dropped' = dropped \cup Delivery!ToSet(SubSeq(Queue, 1, 1)) /\ UNCHANGED db
    BY <2>1, <2>3 DEF Delivery!Drop, Queue
  <2> QED
    BY <1>5, <1>6, <1>7, <2>2, <2>3 DEF ExecSingle
<1> QED
  BY <1>5, <1>8 DEF Delivery!Next, Queue

(* Every step of the write buffer is a step of the queue, or none.         *)
LEMMA DeliveryStep ==
  ASSUME IInv, IInv', [Next]_vars
  PROVE  Delivery!Next \/ Stutter
<1>1. CASE Quiet
  BY <1>1 DEF Quiet, Stutter, Queue, Pending
<1>2. ASSUME NEW h \in Handlers, Enqueue(h)
      PROVE  Delivery!Next
  <2>1. phase = "none" /\ count' = count + 1 /\ UNCHANGED <<db, dropped>>
    BY <1>2 DEF Enqueue, Unlocked, IInv, LockInv
  <2>2. Queue = buffer
    BY <2>1, QueueIsBuffer
  <2>3. Queue' = Append(buffer, count + 1)
    <3>1. CASE Full(Len(buffer) + 1)
      BY <1>2, <3>1, QueueAfter DEF Enqueue, TakeBatch
    <3>2. CASE ~Full(Len(buffer) + 1)
      BY <1>2, <2>1, <3>2, QueueAfter DEF Enqueue, flushVars
    <3> QED
      BY <3>1, <3>2
  <2> QED
    BY <2>1, <2>2, <2>3 DEF Delivery!Next, Delivery!Accept, Queue
<1>3. ASSUME NEW a \in {Ticker, Closer}, Flush(a)
      PROVE  Stutter
  <2>1. phase = "none" /\ UNCHANGED <<count, db, dropped>>
    BY <1>3 DEF Flush, Unlocked, IInv, LockInv
  <2>2. Queue = buffer
    BY <2>1, QueueIsBuffer
  <2>3. Queue' = buffer
    BY <1>3, <2>1, QueueAfter DEF Flush, TakeBatch, flushVars
  <2> QED
    BY <2>1, <2>2, <2>3 DEF Stutter
<1>4. CASE Begin
  <2>1. phase = "begin" /\ phase' \in {"tx", "single"}
        /\ UNCHANGED <<queries, pos, count, db, dropped>>
    BY <1>4 DEF Begin
  <2>2. Queue = queries /\ queries \in Seq(Nat) /\ pos = 1
    BY <2>1, QueueIsPending DEF Pending, IInv, LockInv, TypeOK, FlushTypeOK
  <2>3. SubSeq(queries, 1, Len(queries)) = queries
    BY <2>2, SubSeqFull
  <2>4. Queue' = queries
    BY <2>1, <2>2, <2>3, QueueAfter
  <2> QED
    BY <2>1, <2>2, <2>4 DEF Stutter
<1>5. CASE ExecTx
  BY <1>5 DEF ExecTx, Stutter, Queue, Pending
<1>6. CASE ExecTxFails \/ Commit \/ CommitFails
  <2>1. /\ phase = "tx" /\ FlushReturns /\ UNCHANGED count
        /\ \/ db' = db \o queries /\ UNCHANGED dropped
           \/ dropped' = dropped \cup Elems(queries) /\ UNCHANGED db
    BY <1>6 DEF ExecTxFails, Commit, CommitFails, FlushReturns
  <2> QED
    BY <2>1, WholeBatch
<1>7. CASE ExecSingle
  BY <1>7, HeadOnly
<1>8. CASE SingleDone
  <2>1. /\ phase = "single" /\ pos > Len(queries) /\ phase' = "none"
        /\ buffer = <<>> /\ UNCHANGED <<buffer, count, db, dropped>>
    BY <1>8 DEF SingleDone, FlushReturns, IInv, LockInv
  <2>2. Queue = SubSeq(queries, pos, Len(queries))
    BY <2>1, QueueIsPending DEF Pending
  <2>3. SubSeq(queries, pos, Len(queries)) = <<>>
    BY <2>1, SubSeqEmpty DEF IInv, TypeOK, FlushTypeOK
  <2>4. Queue' = <<>>
    BY <2>1, QueueAfter
  <2> QED
    BY <2>1, <2>2, <2>3, <2>4 DEF Stutter
<1> QED
  BY StepKinds, <1>1, <1>2, <1>3, <1>4, <1>5, <1>6, <1>7, <1>8 DEF IInv, FlushStep

(* The write buffer is a delivery queue: INSERTs leave it from its head    *)
(* only and each to one end only, whoever flushes, whatever fails, and     *)
(* wherever the process ends (buffer.go:39-109).                           *)
THEOREM Implements == Spec => ImplementsDelivery
<1>1. Init => Delivery!Init
  <2> SUFFICES ASSUME Init
               PROVE  Delivery!Init
    OBVIOUS
  <2>1. Pending = <<>> /\ buffer = <<>>
    BY DEF Init, Pending
  <2>2. Pending \o buffer = <<>>
    BY <2>1
  <2> QED
    BY <2>2 DEF Init, Delivery!Init
<1>2. IInv /\ IInv' /\ [Next]_vars => [Delivery!Next]_(Delivery!vars)
  BY DeliveryStep DEF Stutter, Queue, Delivery!vars
<1> QED
  BY <1>1, <1>2, Inductive, PTL DEF Spec, ImplementsDelivery, Delivery!Spec
=============================================================================
