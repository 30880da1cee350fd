------------------------ MODULE PgTransactionsProofs ------------------------
(***************************************************************************)
(* Proofs about PgTransactions: types and the conservation of connections  *)
(* for every number of clients and connections and every combination of    *)
(* faults; and that a client that has the pool to itself gets the          *)
(* transactions it asked for, as long as no connection breaks.             *)
(***************************************************************************)
EXTENDS PgTransactions, FiniteSetTheorems, SequenceTheorems, TLAPS

Idle == {free[i] : i \in 1..Len(free)}

(* No connection is idle twice.                                            *)
IdleOnce == \A i, j \in 1..Len(free) : free[i] = free[j] => i = j

Held(c) == (\E s \in Sessions : holds[s] = c) \/ flusher = c

(* A connection is open because it is idle, or because one handler or the  *)
(* buffer holds it.                                                        *)
HoldInv ==
  /\ IdleOnce
  /\ \A c \in Conns : c \in opened <=> c \in Idle \/ Held(c)
  /\ \A c \in Conns : Held(c) => c \notin Idle
  /\ \A s \in Sessions : pc[s] = "exec" <=> holds[s] # Nobody
  /\ \A s \in Sessions : holds[s] # Nobody =>
       holds[s] # flusher /\ \A r \in Sessions : holds[r] = holds[s] => r = s

QueueInv == Len(free) <= MaxIdle + Cardinality(Wanting)

PoolInv == TypeOK /\ HoldInv /\ QueueInv

-----------------------------------------------------------------------------
(* What the pool's operations do to the list of idle connections.          *)
LEMMA LastFront ==
  ASSUME NEW S, NEW q \in Seq(S), q # <<>>
  PROVE  /\ Len(q) \in Nat /\ Len(q) > 0
         /\ Last(q) \in S /\ Last(q) = q[Len(q)]
         /\ Front(q) \in Seq(S) /\ Len(Front(q)) = Len(q) - 1
         /\ \A i \in 1..(Len(q) - 1) : Front(q)[i] = q[i]
<1>1. Len(q) \in Nat /\ Len(q) > 0
  OBVIOUS
<1>2. Last(q) = q[Len(q)] /\ Last(q) \in S
  BY <1>1 DEF Last
<1>3. PICK n \in Nat : n = Len(q) - 1
  BY <1>1
<1>4. SubSeq(q, 1, n) \in Seq(S) /\ Len(SubSeq(q, 1, n)) = n
  BY <1>1, <1>3
<1>5. \A i \in 1..n : SubSeq(q, 1, n)[i] = q[i]
  BY <1>1, <1>3
<1> QED
  BY <1>1, <1>2, <1>3, <1>4, <1>5 DEF Front

LEMMA Removed ==
  ASSUME NEW S, NEW q \in Seq(S), NEW i \in 1..Len(q)
  PROVE  /\ RemoveAt(q, i) \in Seq(S) /\ Len(RemoveAt(q, i)) = Len(q) - 1
         /\ \A j \in 1..(Len(q) - 1) :
              RemoveAt(q, i)[j] = IF j < i THEN q[j] ELSE q[j + 1]
<1> DEFINE a == SubSeq(q, 1, i - 1)
           b == SubSeq(q, i + 1, Len(q))
<1>1. Len(q) \in Nat /\ i \in Nat /\ i <= Len(q) /\ i >= 1
  OBVIOUS
<1>2. a \in Seq(S) /\ Len(a) = i - 1 /\ \A j \in 1..(i - 1) : a[j] = q[j]
  BY <1>1
<1>3. b \in Seq(S) /\ Len(b) = Len(q) - i /\ \A j \in 1..(Len(q) - i) : b[j] = q[i + j]
  BY <1>1
<1>4. RemoveAt(q, i) = a \o b
  BY DEF RemoveAt
<1> HIDE DEF a, b
<1>5. /\ a \o b \in Seq(S) /\ Len(a \o b) = Len(q) - 1
      /\ \A j \in 1..(Len(q) - 1) :
           (a \o b)[j] = IF j <= i - 1 THEN a[j] ELSE b[j - (i - 1)]
  <2>1. /\ a \o b \in Seq(S) /\ Len(a \o b) = Len(a) + Len(b)
        /\ \A j \in 1..(Len(a) + Len(b)) :
             (a \o b)[j] = IF j <= Len(a) THEN a[j] ELSE b[j - Len(a)]
    BY <1>2, <1>3, ConcatProperties, Zenon
  <2>2. Len(a) + Len(b) = Len(q) - 1
    BY <1>1, <1>2, <1>3
  <2> QED
    BY <2>1, <2>2, <1>2
<1>6. \A j \in 1..(Len(q) - 1) : (a \o b)[j] = IF j < i THEN q[j] ELSE q[j + 1]
  <2> SUFFICES ASSUME NEW j \in 1..(Len(q) - 1)
               PROVE  (a \o b)[j] = IF j < i THEN q[j] ELSE q[j + 1]
    OBVIOUS
  <2>1. CASE j < i
    BY <2>1, <1>1, <1>2, <1>5
  <2>2. CASE ~(j < i)
    <3>1. j - (i - 1) \in 1..(Len(q) - i) /\ i + (j - (i - 1)) = j + 1
      BY <2>2, <1>1
    <3>2. b[j - (i - 1)] = q[j + 1]
      BY <3>1, <1>3
    <3>3. ~(j <= i - 1)
      BY <2>2, <1>1
    <3> QED
      BY <2>2, <3>2, <3>3, <1>5
  <2> QED
    BY <2>1, <2>2
<1> QED
  BY <1>4, <1>5, <1>6

USE PoolAssumption, InputAssumption

(* A connection that the pool hands out was idle or is new; it is not idle *)
(* any more.                                                               *)
LEMMA Obtained ==
  ASSUME TypeOK, HoldInv, NEW c \in Conns, Obtain(c)
  PROVE  /\ free' \in Seq(Conns) /\ opened' = opened \cup {c}
         /\ IdleOnce' /\ Idle' = Idle \ {c} /\ ~Held(c)
         /\ IF free = <<>> THEN free' = <<>> ELSE Len(free') = Len(free) - 1
<1>0. free \in Seq(Conns) /\ Len(free) \in Nat
  BY DEF TypeOK
<1>1. CASE free = <<>>
  <2>1. free' = <<>> /\ opened' = opened \cup {c} /\ c \notin opened
    BY <1>1 DEF Obtain
  <2>2. Len(free) = 0 /\ Len(free') = 0
    BY <1>1, <2>1
  <2>3. Idle = {} /\ Idle' = {} /\ IdleOnce'
    BY <2>2 DEF Idle, IdleOnce
  <2>4. ~Held(c)
    BY <2>1 DEF HoldInv
  <2>5. free' \in Seq(Conns)
    BY <2>1
  <2> QED
    BY <1>1, <2>1, <2>3, <2>4, <2>5
<1>2. CASE free # <<>>
  <2>1. c = free[Len(free)] /\ free' = Front(free) /\ UNCHANGED opened /\ Len(free) > 0
    BY <1>0, <1>2, LastFront DEF Obtain
  <2>2. /\ free' \in Seq(Conns) /\ Len(free') = Len(free) - 1
        /\ \A i \in 1..(Len(free) - 1) : free'[i] = free[i]
    BY <1>0, <1>2, <2>1, LastFront
  <2>3. c \in Idle
    BY <1>0, <2>1 DEF Idle
  <2>4. \A i \in 1..(Len(free) - 1) : free[i] # c
    BY <1>0, <2>1 DEF HoldInv, IdleOnce
  <2>5. IdleOnce'
    BY <1>0, <2>2 DEF HoldInv, IdleOnce
  <2>6. Idle' = Idle \ {c}
    <3>1. \A i \in 1..(Len(free) - 1) : i \in 1..Len(free') /\ i \in 1..Len(free)
      BY <1>0, <2>2
    <3>2. \A i \in 1..Len(free) : i \in 1..(Len(free) - 1) \/ free[i] = c
      BY <1>0, <2>1
    <3>3. ASSUME NEW d \in Idle', d \notin Idle \ {c}
          PROVE  FALSE
      <4>1. PICK i \in 1..Len(free') : d = free'[i]
        BY DEF Idle
      <4>2. i \in 1..(Len(free) - 1) /\ d = free[i]
        BY <1>0, <2>2, <4>1
      <4> QED
        BY <3>1, <3>3, <4>2, <2>4 DEF Idle
    <3>4. ASSUME NEW d \in Idle, d # c
          PROVE  d \in Idle'
      <4>1. PICK i \in 1..Len(free) : d = free[i]
        BY DEF Idle
      <4>2. i \in 1..Len(free') /\ d = free'[i]
        BY <3>1, <3>2, <3>4, <4>1, <2>2
      <4> QED
        BY <4>2 DEF Idle
    <3> QED
      BY <3>3, <3>4
  <2>7. c \in opened /\ ~Held(c)
    BY <2>3 DEF HoldInv
  <2> QED
    BY <1>2, <2>1, <2>2, <2>5, <2>6, <2>7
<1> QED
  BY <1>1, <1>2

(* A connection that is not idle is made idle or closed.                   *)
LEMMA Returned ==
  ASSUME TypeOK, HoldInv, NEW c \in Conns, c \notin Idle, NEW t, PutBack(c, t)
  PROVE  /\ free' \in Seq(Conns) /\ IdleOnce'
         /\ \/ Idle' = Idle \cup {c} /\ opened' = opened
               /\ txn' = [txn EXCEPT ![c] = t]
               /\ Len(free') = Len(free) + 1 /\ Len(free') <= MaxIdle + Cardinality(Wanting)
            \/ Idle' = Idle /\ opened' = opened \ {c}
               /\ txn' = [txn EXCEPT ![c] = Closed]
               /\ Len(free') = Len(free)
<1>0. free \in Seq(Conns) /\ Len(free) \in Nat
  BY DEF TypeOK
<1>1. CASE Keep(c, t)
  <2>1. /\ free' \in Seq(Conns) /\ Len(free') = Len(free) + 1
        /\ \A i \in 1..Len(free) : free'[i] = free[i]
        /\ free'[Len(free) + 1] = c
    BY <1>0, <1>1 DEF Keep
  <2>2. \A i \in 1..Len(free) : free[i] # c
    BY DEF Idle
  <2>3. \A i \in 1..Len(free') : i \in 1..Len(free) \/ i = Len(free) + 1
    BY <1>0, <2>1
  <2>4. IdleOnce'
    BY <1>0, <2>1, <2>2, <2>3 DEF HoldInv, IdleOnce
  <2>5. Idle' = Idle \cup {c}
    <3>1. ASSUME NEW d \in Idle'
          PROVE  d \in Idle \cup {c}
      BY <2>1, <2>3 DEF Idle
    <3>2. ASSUME NEW d \in Idle
          PROVE  d \in Idle'
      <4>1. PICK i \in 1..Len(free) : d = free[i]
        BY DEF Idle
      <4>2. i \in 1..Len(free') /\ free'[i] = d
        BY <1>0, <2>1, <4>1
      <4> QED
        BY <4>2 DEF Idle
    <3>3. c \in Idle'
      <4>1. Len(free) + 1 \in 1..Len(free')
        BY <1>0, <2>1
      <4> QED
        BY <2>1, <4>1 DEF Idle
    <3> QED
      BY <3>1, <3>2, <3>3
  <2>6. Len(free') <= MaxIdle + Cardinality(Wanting)
    <3>1. Cardinality(Wanting) \in Nat /\ MaxIdle \in Nat
      <4>1. IsFiniteSet(Wanting)
        BY FS_Subset DEF Wanting
      <4>2. Cardinality(Conns) \in Nat
        BY FS_CardinalityType
      <4> QED
        BY <4>1, <4>2, FS_CardinalityType
    <3> QED
      BY <1>0, <1>1, <2>1, <3>1 DEF Keep
  <2> QED
    BY <1>1, <2>1, <2>4, <2>5, <2>6 DEF Keep
<1>2. CASE Discard(c) /\ UNCHANGED free
  BY <1>0, <1>2 DEF Discard, Idle, IdleOnce, HoldInv
<1> QED
  BY <1>1, <1>2 DEF PutBack
-----------------------------------------------------------------------------
(* The steps, without the quantifiers of Next.                             *)
LEMMA StepKinds ==
  ASSUME [Next]_vars
  PROVE  \/ \E s \in Sessions, c \in Commands : Swallow(s, c) \/ Start(s, c)
         \/ \E s \in Sessions : Acquire(s)
         \/ \E s \in Sessions : Exec(s) \/ ExecRefused(s) \/ ExecLost(s)
         \/ Expire \/ FlushBegin \/ FlushEnd
         \/ UNCHANGED vars
  BY DEF Next, Complete

Transactions == [open : BOOLEAN, rows : SUBSET Nat, saved : BOOLEAN, mark : SUBSET Nat]
Requests == [open : BOOLEAN, plain : BOOLEAN, failed : BOOLEAN, rows : SUBSET Nat,
             mark : SUBSET Nat]
Texts == Recognised \cup Passed \cup {"none"}

(* A statement turns a transaction into a transaction.                     *)
LEMMA TxnTyped ==
  ASSUME NEW t \in Transactions, NEW c \in Texts, NEW r \in Nat
  PROVE  TxnAfter(c, t, r) \in Transactions /\ Committed(c, t, r) \subseteq Nat
<1>1. Closed \in Transactions /\ Opened \in Transactions
  BY DEF Closed, Opened, Transactions
<1>2. /\ [t EXCEPT !.saved = TRUE, !.mark = t.rows] \in Transactions
      /\ [t EXCEPT !.saved = FALSE, !.mark = {}] \in Transactions
      /\ [t EXCEPT !.rows = t.mark] \in Transactions
      /\ [t EXCEPT !.rows = @ \cup {r}] \in Transactions
  BY DEF Transactions
<1>3. TxnAfter(c, t, r) \in Transactions
  BY <1>1, <1>2 DEF TxnAfter
<1>4. Committed(c, t, r) \subseteq Nat
  BY DEF Committed, Transactions
<1> QED
  BY <1>3, <1>4

(* What a client understands keeps its type.                               *)
LEMMA UnderstandTyped ==
  ASSUME TypeOK, NEW s \in Sessions, NEW c \in Texts, NEW r \in Nat, NEW ok \in BOOLEAN,
         Understand(s, c, r, ok)
  PROVE  /\ asked' \in [Sessions -> Requests]
         /\ promised' \subseteq Nat /\ rolledBack' \subseteq Nat
<1>1. asked \in [Sessions -> Requests] /\ asked[s] \in Requests
  BY DEF TypeOK, Requests
<1>2. /\ NotAsked \in Requests
      /\ [NotAsked EXCEPT !.open = TRUE, !.plain = c = "begin"] \in Requests
      /\ [asked[s] EXCEPT !.failed = asked[s].open] \in Requests
      /\ [asked[s] EXCEPT !.mark = asked[s].rows] \in Requests
      /\ [asked[s] EXCEPT !.rows = asked[s].mark, !.failed = FALSE] \in Requests
      /\ [asked[s] EXCEPT !.rows = @ \cup {r}] \in Requests
  BY <1>1 DEF NotAsked, Requests
<1>3. \E v \in Requests : asked' = [asked EXCEPT ![s] = v]
  <2>1. asked' = asked => asked' = [asked EXCEPT ![s] = asked[s]]
    BY <1>1
  <2> QED
    BY <1>1, <1>2, <2>1 DEF Understand
<1>4. asked[s].rows \subseteq Nat
  BY <1>1 DEF Requests
<1>5. asked' \in [Sessions -> Requests]
  BY <1>1, <1>3
<1>6. promised \subseteq Nat /\ rolledBack \subseteq Nat /\ {r} \subseteq Nat
  BY DEF TypeOK
<1>7. promised' \subseteq Nat
  <2>1. promised' \in {promised, promised \cup asked[s].rows, promised \cup {r}}
    BY DEF Understand
  <2> QED
    BY <2>1, <1>4, <1>6
<1>8. rolledBack' \subseteq Nat
  <2>1. rolledBack' \in {rolledBack, rolledBack \cup asked[s].rows,
                        rolledBack \cup (asked[s].rows \ asked[s].mark)}
    BY DEF Understand
  <2> QED
    BY <2>1, <1>4, <1>6
<1> QED
  BY <1>5, <1>7, <1>8

(* The end of a handler keeps types, apart from the pool's and MySQL's.    *)
LEMMA AnswerTyped ==
  ASSUME TypeOK, NEW s \in Sessions, NEW ok \in BOOLEAN, Answer(s, ok)
  PROVE  /\ inTransaction' \in [Sessions -> BOOLEAN]
         /\ transactionFailed' \in [Sessions -> BOOLEAN]
         /\ pc' \in [Sessions -> {"ready", "want", "exec"}]
         /\ holds' \in [Sessions -> Conns \cup {Nobody}]
         /\ reply' \in [Sessions -> {"none", "silent", "complete", "error"}]
         /\ status' \in [Sessions -> {"I", "T", "E"}]
         /\ asked' \in [Sessions -> Requests]
         /\ promised' \subseteq Nat /\ rolledBack' \subseteq Nat
         /\ UNCHANGED <<cmd, row, rows, flusher, mixed>>
<1>1. cmd[s] \in Texts /\ row[s] \in Nat
  BY DEF TypeOK, Texts
<1>2. /\ asked' \in [Sessions -> Requests]
      /\ promised' \subseteq Nat /\ rolledBack' \subseteq Nat
  BY <1>1, UnderstandTyped DEF Answer
<1>3. /\ inTransaction' \in [Sessions -> BOOLEAN]
      /\ transactionFailed' \in [Sessions -> BOOLEAN]
  BY DEF Answer, Finish, TypeOK
<1>4. status' \in [Sessions -> {"I", "T", "E"}]
  BY DEF Answer, Status, TypeOK
<1>5. /\ pc' \in [Sessions -> {"ready", "want", "exec"}]
      /\ holds' \in [Sessions -> Conns \cup {Nobody}]
      /\ reply' \in [Sessions -> {"none", "silent", "complete", "error"}]
      /\ UNCHANGED <<cmd, row, rows, flusher, mixed>>
  BY DEF Answer, TypeOK
<1> QED
  BY <1>2, <1>3, <1>4, <1>5

(* The part of the types that is about the pool and MySQL.                 *)
PoolTyped ==
  /\ free \in Seq(Conns) /\ opened \subseteq Conns
  /\ txn \in [Conns -> Transactions]
  /\ db \subseteq Nat

LEMMA PutBackTyped ==
  ASSUME TypeOK, HoldInv, NEW c \in Conns, c \notin Idle, NEW t \in Transactions,
         PutBack(c, t)
  PROVE  /\ free' \in Seq(Conns) /\ opened' \subseteq Conns
         /\ txn' \in [Conns -> Transactions]
<1>1. Closed \in Transactions
  BY DEF Closed, Transactions
<1>2. txn \in [Conns -> Transactions] /\ opened \subseteq Conns
  BY DEF TypeOK, Transactions
<1> QED
  BY <1>1, <1>2, Returned

(* The connection of a handler that runs a statement.                      *)
LEMMA HeldConn ==
  ASSUME PoolInv, NEW s \in Sessions, pc[s] = "exec"
  PROVE  /\ holds[s] \in Conns /\ holds[s] \notin Idle /\ holds[s] # flusher
         /\ txn[holds[s]] \in Transactions /\ cmd[s] \in Texts /\ row[s] \in Nat
         /\ TxnAfter(cmd[s], txn[holds[s]], row[s]) \in Transactions
         /\ Committed(cmd[s], txn[holds[s]], row[s]) \subseteq Nat
<1>1. holds[s] \in Conns /\ holds[s] \notin Idle /\ holds[s] # flusher
  BY DEF PoolInv, TypeOK, HoldInv, Held
<1>2. txn[holds[s]] \in Transactions /\ cmd[s] \in Texts /\ row[s] \in Nat
  BY <1>1 DEF PoolInv, TypeOK, Transactions, Texts
<1> QED
  BY <1>1, <1>2, TxnTyped

(* Every step keeps the types.                                             *)
LEMMA TypeStep ==
  ASSUME PoolInv, [Next]_vars
  PROVE  TypeOK'
<1> USE DEF PoolInv
<1>1. ASSUME NEW s \in Sessions, NEW c \in Commands, Swallow(s, c)
      PROVE  TypeOK'
  <2>1. status' \in [Sessions -> {"I", "T", "E"}]
    BY <1>1 DEF Swallow, Status, TypeOK
  <2>2. /\ reply' \in [Sessions -> {"none", "silent", "complete", "error"}]
        /\ cmd' \in [Sessions -> Recognised \cup Passed \cup {"none"}]
    BY <1>1 DEF Swallow, TypeOK
  <2>3. c \in Texts /\ row[s] \in Nat /\ TypeOK
    BY DEF TypeOK, Texts
  <2>4. /\ asked' \in [Sessions -> Requests]
        /\ promised' \subseteq Nat /\ rolledBack' \subseteq Nat
    BY <1>1, <2>3, UnderstandTyped DEF Swallow
  <2>5. mixed' \subseteq Sessions
    BY <1>1 DEF Swallow, Record, TypeOK
  <2> QED
    BY <1>1, <2>1, <2>2, <2>4, <2>5 DEF Swallow, TypeOK, sessionVars, poolVars, Requests
<1>2. ASSUME NEW s \in Sessions, NEW c \in Commands, Start(s, c)
      PROVE  TypeOK'
  <2>1. /\ inTransaction' \in [Sessions -> BOOLEAN]
        /\ transactionFailed' \in [Sessions -> BOOLEAN]
    BY <1>2 DEF Start, TypeOK
  <2>2. rows' \in Nat /\ row' \in [Sessions -> Nat]
    <3>1. row \in [Sessions -> Nat] /\ rows \in Nat /\ rows + 1 \in Nat
      BY DEF TypeOK
    <3>2. \/ row' = [row EXCEPT ![s] = rows + 1] /\ rows' = rows + 1
          \/ row' = row /\ rows' = rows
      BY <1>2 DEF Start
    <3> QED
      BY <3>1, <3>2
  <2>3. /\ pc' \in [Sessions -> {"ready", "want", "exec"}]
        /\ cmd' \in [Sessions -> Recognised \cup Passed \cup {"none"}]
        /\ reply' \in [Sessions -> {"none", "silent", "complete", "error"}]
    BY <1>2 DEF Start, TypeOK
  <2>4. mixed' \subseteq Sessions
    BY <1>2 DEF Start, Record, TypeOK
  <2> QED
    BY <1>2, <2>1, <2>2, <2>3, <2>4 DEF Start, TypeOK, poolVars
<1>3. ASSUME NEW s \in Sessions, Acquire(s)
      PROVE  TypeOK'
  <2>1. PICK c \in Conns : Obtain(c) /\ holds' = [holds EXCEPT ![s] = c]
    BY <1>3 DEF Acquire
  <2>2. free' \in Seq(Conns) /\ opened' \subseteq Conns
    BY <2>1, Obtained DEF TypeOK
  <2>3. /\ holds' \in [Sessions -> Conns \cup {Nobody}]
        /\ pc' \in [Sessions -> {"ready", "want", "exec"}]
    BY <1>3, <2>1 DEF Acquire, TypeOK
  <2> QED
    BY <1>3, <2>2, <2>3 DEF Acquire, TypeOK, sessionVars, clientVars
<1>4. ASSUME NEW s \in Sessions, Exec(s) \/ ExecRefused(s) \/ ExecLost(s)
      PROVE  TypeOK'
  <2>1. pc[s] = "exec" /\ \E ok \in BOOLEAN : Answer(s, ok)
    BY <1>4 DEF Exec, ExecRefused, ExecLost
  <2>2. PoolTyped'
    <3>1. free \in Seq(Conns) /\ opened \subseteq Conns /\ txn \in [Conns -> Transactions]
          /\ db \subseteq Nat /\ Closed \in Transactions
      BY DEF TypeOK, Transactions, Closed
    <3>2. CASE Exec(s)
      BY <2>1, <3>1, <3>2, HeldConn, PutBackTyped DEF Exec, PoolTyped
    <3>3. CASE ExecRefused(s)
      BY <2>1, <3>1, <3>3, HeldConn, PutBackTyped DEF ExecRefused, PoolTyped
    <3>4. CASE ExecLost(s)
      BY <2>1, <3>1, <3>4, HeldConn DEF ExecLost, Discard, PoolTyped
    <3> QED
      BY <1>4, <3>2, <3>3, <3>4
  <2>3. /\ inTransaction' \in [Sessions -> BOOLEAN]
        /\ transactionFailed' \in [Sessions -> BOOLEAN]
        /\ pc' \in [Sessions -> {"ready", "want", "exec"}]
        /\ holds' \in [Sessions -> Conns \cup {Nobody}]
        /\ reply' \in [Sessions -> {"none", "silent", "complete", "error"}]
        /\ status' \in [Sessions -> {"I", "T", "E"}]
        /\ asked' \in [Sessions -> Requests]
        /\ promised' \subseteq Nat /\ rolledBack' \subseteq Nat
        /\ UNCHANGED <<cmd, row, rows, flusher, mixed>>
    BY <2>1, AnswerTyped
  <2> QED
    BY <2>2, <2>3 DEF PoolTyped, TypeOK, Transactions, Requests
<1>5. CASE Expire
  <2>1. PICK i \in 1..Len(free) : Discard(free[i]) /\ free' = RemoveAt(free, i)
    BY <1>5 DEF Expire
  <2>2. free' \in Seq(Conns)
    BY <2>1, Removed DEF TypeOK
  <2>3. opened' \subseteq Conns /\ txn' \in [Conns -> Transactions]
    BY <2>1 DEF Discard, Closed, Transactions, TypeOK
  <2> QED
    BY <1>5, <2>2, <2>3 DEF Expire, TypeOK, Transactions, sessionVars, clientVars
<1>6. CASE FlushBegin
  <2>1. PICK c \in Conns : /\ Obtain(c) /\ flusher' = c /\ db' = db \cup txn[c].rows
                           /\ txn' = [txn EXCEPT ![c] = Opened]
    BY <1>6 DEF FlushBegin
  <2>2. free' \in Seq(Conns) /\ opened' \subseteq Conns
    BY <2>1, Obtained DEF TypeOK
  <2>3. Opened \in Transactions /\ txn \in [Conns -> Transactions]
    BY DEF Opened, Closed, Transactions, TypeOK
  <2>4. txn' \in [Conns -> Transactions] /\ db' \subseteq Nat
    BY <2>1, <2>3 DEF TypeOK, Transactions
  <2> QED
    BY <1>6, <2>1, <2>2, <2>4 DEF FlushBegin, TypeOK, Transactions, sessionVars, clientVars
<1>7. CASE FlushEnd
  <2>1. flusher \in Conns /\ flusher \notin Idle /\ PutBack(flusher, Closed)
    BY <1>7 DEF FlushEnd, TypeOK, HoldInv, Held
  <2>2. Closed \in Transactions
    BY DEF Closed, Transactions
  <2>3. /\ free' \in Seq(Conns) /\ opened' \subseteq Conns
        /\ txn' \in [Conns -> Transactions]
    BY <2>1, <2>2, PutBackTyped
  <2> QED
    BY <1>7, <2>3 DEF FlushEnd, TypeOK, Transactions, sessionVars, clientVars
<1>8. CASE UNCHANGED vars
  BY <1>8 DEF vars, TypeOK
<1> QED
  BY StepKinds, <1>1, <1>2, <1>3, <1>4, <1>5, <1>6, <1>7, <1>8
-----------------------------------------------------------------------------
(* An idle connection that is closed is not idle any more.                 *)
LEMMA Expired ==
  ASSUME TypeOK, HoldInv, NEW i \in 1..Len(free), free' = RemoveAt(free, i)
  PROVE  /\ IdleOnce' /\ Idle' = Idle \ {free[i]} /\ Len(free') = Len(free) - 1
         /\ free[i] \in Idle
<1>0. /\ free \in Seq(Conns) /\ Len(free) \in Nat /\ i \in Nat /\ i >= 1 /\ i <= Len(free)
  BY DEF TypeOK
<1>1. /\ Len(free') = Len(free) - 1
      /\ \A j \in 1..(Len(free) - 1) : free'[j] = IF j < i THEN free[j] ELSE free[j + 1]
  BY <1>0, Removed
<1> DEFINE At(j) == IF j < i THEN j ELSE j + 1
<1>2. \A j \in 1..(Len(free) - 1) :
        free'[j] = free[At(j)] /\ At(j) \in 1..Len(free) /\ At(j) # i
  BY <1>0, <1>1
<1>3. \A j, k \in 1..(Len(free) - 1) : At(j) = At(k) => j = k
  BY <1>0
<1>4. \A k \in 1..Len(free) : k # i => \E j \in 1..(Len(free) - 1) : At(j) = k
  <2> SUFFICES ASSUME NEW k \in 1..Len(free), k # i
               PROVE  \E j \in 1..(Len(free) - 1) : At(j) = k
    OBVIOUS
  <2>1. CASE k < i
    <3>1. k \in 1..(Len(free) - 1) /\ At(k) = k
      BY <2>1, <1>0
    <3> QED
      BY <3>1
  <2>2. CASE k > i
    <3>1. k - 1 \in 1..(Len(free) - 1) /\ At(k - 1) = k
      BY <2>2, <1>0
    <3> QED
      BY <3>1
  <2> QED
    BY <2>1, <2>2, <1>0
<1> HIDE DEF At
<1>5. \A j, k \in 1..Len(free) : free[j] = free[k] => j = k
  BY DEF HoldInv, IdleOnce
<1>6. IdleOnce'
  BY <1>1, <1>2, <1>3, <1>5 DEF IdleOnce
<1>7. free[i] \in Idle
  BY DEF Idle
<1>8. \A d \in Idle' : d \in Idle /\ d # free[i]
  BY <1>1, <1>2, <1>5 DEF Idle
<1>9. \A d \in Idle : d # free[i] => d \in Idle'
  <2> SUFFICES ASSUME NEW d \in Idle, d # free[i]
               PROVE  d \in Idle'
    OBVIOUS
  <2>1. PICK k \in 1..Len(free) : d = free[k]
    BY DEF Idle
  <2>2. PICK j \in 1..(Len(free) - 1) : At(j) = k
    BY <2>1, <1>4
  <2>3. j \in 1..Len(free') /\ d = free'[j]
    BY <2>1, <2>2, <1>1, <1>2
  <2> QED
    BY <2>3 DEF Idle
<1> QED
  BY <1>1, <1>6, <1>7, <1>8, <1>9

(* Every step keeps who holds the connections.                             *)
LEMMA HoldStep ==
  ASSUME PoolInv, [Next]_vars
  PROVE  HoldInv'
<1> USE DEF PoolInv
<1>1. ASSUME NEW s \in Sessions, NEW c \in Commands, Swallow(s, c) \/ Start(s, c)
      PROVE  HoldInv'
  <2>1. UNCHANGED <<holds, free, opened, flusher>>
    BY <1>1 DEF Swallow, Start, poolVars
  <2>2. \A r \in Sessions : pc'[r] = "exec" <=> pc[r] = "exec"
    BY <1>1 DEF Swallow, Start, TypeOK
  <2> QED
    BY <2>1, <2>2 DEF HoldInv, IdleOnce, Idle, Held
<1>2. ASSUME NEW s \in Sessions, Acquire(s)
      PROVE  HoldInv'
  <2>1. PICK c \in Conns : Obtain(c) /\ holds' = [holds EXCEPT ![s] = c]
    BY <1>2 DEF Acquire
  <2>2. IdleOnce' /\ Idle' = Idle \ {c} /\ opened' = opened \cup {c} /\ ~Held(c)
    BY <2>1, Obtained
  <2>3. /\ holds[s] = Nobody /\ holds'[s] = c /\ UNCHANGED flusher
        /\ \A r \in Sessions \ {s} : holds'[r] = holds[r] /\ pc'[r] = pc[r]
        /\ pc'[s] = "exec"
    BY <1>2, <2>1 DEF Acquire, TypeOK, HoldInv
  <2>4. \A d \in Conns : Held(d)' <=> Held(d) \/ d = c
    BY <2>3 DEF Held
  <2>5. \A d \in Conns : d \in opened' <=> d \in Idle' \/ Held(d)'
    BY <2>2, <2>4 DEF HoldInv
  <2>6. \A d \in Conns : Held(d)' => d \notin Idle'
    BY <2>2, <2>4 DEF HoldInv
  <2>7. \A r \in Sessions : pc'[r] = "exec" <=> holds'[r] # Nobody
    BY <2>3 DEF HoldInv
  <2>8. \A r \in Sessions : holds'[r] # Nobody =>
          holds'[r] # flusher' /\ \A q \in Sessions : holds'[q] = holds'[r] => q = r
    BY <2>2, <2>3 DEF HoldInv, Held
  <2> QED
    BY <2>2, <2>5, <2>6, <2>7, <2>8 DEF HoldInv
<1>3. ASSUME NEW s \in Sessions, Exec(s) \/ ExecRefused(s) \/ ExecLost(s)
      PROVE  HoldInv'
  <2>1. pc[s] = "exec" /\ \E ok \in BOOLEAN : Answer(s, ok)
    BY <1>3 DEF Exec, ExecRefused, ExecLost
  <2>2. PICK c \in Conns : c = holds[s] /\ c \notin Idle /\ c # flusher
    BY <2>1, HeldConn
  <2>3. /\ IdleOnce'
        /\ \/ Idle' = Idle \cup {c} /\ opened' = opened
           \/ Idle' = Idle /\ opened' = opened \ {c}
    <3>1. ASSUME NEW t, PutBack(c, t)
          PROVE  /\ IdleOnce'
                 /\ \/ Idle' = Idle \cup {c} /\ opened' = opened
                    \/ Idle' = Idle /\ opened' = opened \ {c}
      BY <2>2, <3>1, Returned
    <3>2. CASE ExecLost(s)
      BY <2>2, <3>2 DEF ExecLost, Discard, Idle, IdleOnce, HoldInv
    <3> QED
      BY <1>3, <2>2, <3>1, <3>2 DEF Exec, ExecRefused
  <2>4. /\ holds'[s] = Nobody /\ pc'[s] = "ready" /\ UNCHANGED flusher
        /\ \A r \in Sessions \ {s} : holds'[r] = holds[r] /\ pc'[r] = pc[r]
    BY <2>1 DEF Answer, TypeOK
  <2>5. \A d \in Conns : Held(d)' <=> Held(d) /\ d # c
    <3>1. \A r \in Sessions : holds[r] = c => r = s
      BY <2>2 DEF HoldInv
    <3> QED
      BY <2>2, <2>4, <3>1 DEF Held
  <2>6. c \in opened /\ Held(c)
    BY <2>2 DEF HoldInv, Held
  <2>7. \A d \in Conns : d \in opened' <=> d \in Idle' \/ Held(d)'
    BY <2>2, <2>3, <2>5, <2>6 DEF HoldInv
  <2>8. \A d \in Conns : Held(d)' => d \notin Idle'
    BY <2>3, <2>5 DEF HoldInv
  <2>9. /\ \A r \in Sessions : pc'[r] = "exec" <=> holds'[r] # Nobody
        /\ \A r \in Sessions : holds'[r] # Nobody =>
             holds'[r] # flusher' /\ \A q \in Sessions : holds'[q] = holds'[r] => q = r
    BY <2>4 DEF HoldInv
  <2> QED
    BY <2>3, <2>7, <2>8, <2>9 DEF HoldInv
<1>4. CASE Expire
  <2>1. PICK i \in 1..Len(free) : Discard(free[i]) /\ free' = RemoveAt(free, i)
    BY <1>4 DEF Expire
  <2>2. /\ IdleOnce' /\ Idle' = Idle \ {free[i]} /\ free[i] \in Idle
        /\ opened' = opened \ {free[i]}
    BY <2>1, Expired DEF Discard
  <2>3. UNCHANGED <<holds, pc, flusher>>
    BY <1>4 DEF Expire
  <2> QED
    BY <2>2, <2>3 DEF HoldInv, Held
<1>5. CASE FlushBegin
  <2>1. PICK c \in Conns : Obtain(c) /\ flusher' = c
    BY <1>5 DEF FlushBegin
  <2>2. IdleOnce' /\ Idle' = Idle \ {c} /\ opened' = opened \cup {c} /\ ~Held(c)
    BY <2>1, Obtained
  <2>3. UNCHANGED <<holds, pc>> /\ flusher = Nobody
    BY <1>5 DEF FlushBegin
  <2>4. \A d \in Conns : Held(d)' <=> Held(d) \/ d = c
    BY <2>1, <2>3 DEF Held
  <2> QED
    BY <2>1, <2>2, <2>3, <2>4 DEF HoldInv, Held
<1>6. CASE FlushEnd
  <2>1. /\ flusher \in Conns /\ flusher \notin Idle /\ PutBack(flusher, Closed)
        /\ flusher' = Nobody /\ UNCHANGED <<holds, pc>>
    BY <1>6 DEF FlushEnd, TypeOK, HoldInv, Held
  <2>2. /\ IdleOnce'
        /\ \/ Idle' = Idle \cup {flusher} /\ opened' = opened
           \/ Idle' = Idle /\ opened' = opened \ {flusher}
    BY <2>1, Returned
  <2>3. \A d \in Conns : Held(d)' <=> Held(d) /\ d # flusher
    BY <2>1 DEF Held, HoldInv
  <2>4. flusher \in opened
    BY <2>1 DEF HoldInv, Held
  <2> QED
    BY <2>1, <2>2, <2>3, <2>4 DEF HoldInv
<1>7. CASE UNCHANGED vars
  BY <1>7 DEF vars, HoldInv, IdleOnce, Idle, Held
<1> QED
  BY StepKinds, <1>1, <1>2, <1>3, <1>4, <1>5, <1>6, <1>7
-----------------------------------------------------------------------------
LEMMA Counts ==
  /\ IsFiniteSet(Wanting) /\ Cardinality(Wanting) \in Nat
  /\ MaxIdle \in Nat
<1>1. IsFiniteSet(Wanting)
  BY FS_Subset DEF Wanting
<1>2. Cardinality(Conns) \in Nat
  BY FS_CardinalityType
<1> QED
  BY <1>1, <1>2, FS_CardinalityType

(* Every step keeps the idle list within MaxIdleConns and the queue: a     *)
(* handler that leaves the queue takes a connection out of the list.       *)
LEMMA QueueStep ==
  ASSUME PoolInv, [Next]_vars
  PROVE  QueueInv'
<1> USE DEF PoolInv
<1>0. Len(free) \in Nat
  BY DEF TypeOK
<1>1. ASSUME NEW s \in Sessions, NEW c \in Commands, Swallow(s, c)
      PROVE  QueueInv'
  BY <1>1 DEF Swallow, QueueInv, Wanting, poolVars
<1>2. ASSUME NEW s \in Sessions, NEW c \in Commands, Start(s, c)
      PROVE  QueueInv'
  <2>1. Wanting' = Wanting \cup {s} /\ s \notin Wanting
    BY <1>2 DEF Start, Wanting, TypeOK
  <2>2. Cardinality(Wanting') = Cardinality(Wanting) + 1
    BY <2>1, Counts, FS_AddElement
  <2>3. UNCHANGED free
    BY <1>2 DEF Start, poolVars
  <2> QED
    BY <1>0, <2>2, <2>3, Counts DEF QueueInv
<1>3. ASSUME NEW s \in Sessions, Acquire(s)
      PROVE  QueueInv'
  <2>1. Wanting' = Wanting \ {s} /\ s \in Wanting
    BY <1>3 DEF Acquire, Wanting, TypeOK
  <2>2. Cardinality(Wanting') = Cardinality(Wanting) - 1
    BY <2>1, Counts, FS_RemoveElement
  <2>3. Cardinality(Wanting') \in Nat
    BY <2>1, Counts, FS_RemoveElement, FS_CardinalityType
  <2>4. IF free = <<>> THEN free' = <<>> ELSE Len(free') = Len(free) - 1
    BY <1>3, Obtained DEF Acquire
  <2>5. free = <<>> => Len(free') = 0
    BY <2>4
  <2> QED
    BY <1>0, <2>2, <2>3, <2>4, <2>5, Counts DEF QueueInv
<1>4. ASSUME NEW s \in Sessions, Exec(s) \/ ExecRefused(s) \/ ExecLost(s)
      PROVE  QueueInv'
  <2>1. pc[s] = "exec" /\ \E ok \in BOOLEAN : Answer(s, ok)
    BY <1>4 DEF Exec, ExecRefused, ExecLost
  <2>2. PICK c \in Conns : c = holds[s] /\ c \notin Idle
    BY <2>1, HeldConn
  <2>3. Wanting' = Wanting
    BY <2>1 DEF Answer, Wanting, TypeOK
  <2>4. Len(free') = Len(free) \/ Len(free') <= MaxIdle + Cardinality(Wanting)
    <3>1. ASSUME NEW t, PutBack(c, t)
          PROVE  Len(free') = Len(free) \/ Len(free') <= MaxIdle + Cardinality(Wanting)
      BY <2>2, <3>1, Returned
    <3> QED
      BY <1>4, <2>2, <3>1 DEF Exec, ExecRefused, ExecLost
  <2> QED
    BY <2>3, <2>4 DEF QueueInv
<1>5. CASE Expire
  <2>1. Len(free') = Len(free) - 1
    BY <1>5, Expired DEF Expire
  <2>2. UNCHANGED pc
    BY <1>5 DEF Expire
  <2> QED
    BY <1>0, <2>1, <2>2, Counts DEF QueueInv, Wanting
<1>6. CASE FlushBegin
  <2>1. IF free = <<>> THEN free' = <<>> ELSE Len(free') = Len(free) - 1
    BY <1>6, Obtained DEF FlushBegin
  <2>2. free = <<>> => Len(free') = 0
    BY <2>1
  <2>3. Wanting' = Wanting
    BY <1>6 DEF FlushBegin, Wanting
  <2> QED
    BY <1>0, <2>1, <2>2, <2>3, Counts DEF QueueInv
<1>7. CASE FlushEnd
  <2>1. flusher \in Conns /\ flusher \notin Idle /\ PutBack(flusher, Closed)
    BY <1>7 DEF FlushEnd, TypeOK, HoldInv, Held
  <2>2. Len(free') = Len(free) \/ Len(free') <= MaxIdle + Cardinality(Wanting)
    BY <2>1, Returned
  <2>3. Wanting' = Wanting
    BY <1>7 DEF FlushEnd, Wanting
  <2> QED
    BY <2>2, <2>3 DEF QueueInv
<1>8. CASE UNCHANGED vars
  BY <1>8 DEF vars, QueueInv, Wanting
<1> QED
  BY StepKinds, <1>1, <1>2, <1>3, <1>4, <1>5, <1>6, <1>7, <1>8

LEMMA Initially ==
  ASSUME Init
  PROVE  PoolInv
<1>1. Len(free) = 0 /\ free \in Seq(Conns)
  BY DEF Init
<1>2. TypeOK
  BY <1>1 DEF Init, TypeOK, Closed, NotAsked
<1>3. Idle = {} /\ IdleOnce
  BY <1>1 DEF Idle, IdleOnce
<1>4. HoldInv
  BY <1>3 DEF Init, HoldInv, Held
<1>5. QueueInv
  BY <1>1, Counts DEF QueueInv
<1> QED
  BY <1>2, <1>4, <1>5 DEF PoolInv

LEMMA Inductive == Spec => []PoolInv
<1>1. Init => PoolInv
  BY Initially
<1>2. PoolInv /\ [Next]_vars => PoolInv'
  BY TypeStep, HoldStep, QueueStep DEF PoolInv
<1> QED
  BY <1>1, <1>2, PTL DEF Spec

(* Every variable keeps its type.                                          *)
THEOREM TypeCorrect == Spec => []TypeOK
<1>1. PoolInv => TypeOK
  BY DEF PoolInv
<1> QED
  BY <1>1, Inductive, PTL

(* Each set that Holders counts has at most one element, and one of them   *)
(* has one exactly when the connection is open.                            *)
LEMMA HoldersOfOne ==
  ASSUME PoolInv, NEW c \in Conns
  PROVE  Holders(c) = IF c \in opened THEN 1 ELSE 0
<1> DEFINE A == {i \in 1..Len(free) : free[i] = c}
           B == {s \in Sessions : holds[s] = c}
<1>0. Holders(c) = Cardinality(A) + Cardinality(B) + (IF flusher = c THEN 1 ELSE 0)
  BY DEF Holders
<1>1. Cardinality({}) = 0 /\ \A x : Cardinality({x}) = 1
  BY FS_EmptySet, FS_Singleton
<1> HIDE DEF A, B
<1>2. CASE c \in Idle
  <2>1. PICK i \in 1..Len(free) : free[i] = c
    BY <1>2 DEF Idle
  <2>2. A = {i}
    <3>1. \A j \in 1..Len(free) : free[j] = c => j = i
      BY <2>1 DEF PoolInv, HoldInv, IdleOnce
    <3>2. i \in A
      BY <2>1 DEF A
    <3>3. \A j \in A : j = i
      BY <3>1 DEF A
    <3> QED
      BY <3>2, <3>3
  <2>3. B = {} /\ flusher # c /\ c \in opened
    BY <1>2 DEF B, PoolInv, HoldInv, Held
  <2>4. Cardinality(A) = 1 /\ Cardinality(B) = 0
    BY <1>1, <2>2, <2>3
  <2> QED
    BY <1>0, <2>3, <2>4
<1>3. CASE c \notin Idle
  <2>1. A = {}
    BY <1>3 DEF A, Idle
  <2>2. CASE flusher = c
    <3>1. B = {} /\ c \in opened
      BY <2>2 DEF B, PoolInv, HoldInv, Held
    <3> QED
      BY <1>0, <1>1, <2>1, <2>2, <3>1
  <2>3. CASE \E s \in Sessions : holds[s] = c
    <3>1. PICK s \in Sessions : holds[s] = c
      BY <2>3
    <3>2. B = {s} /\ flusher # c /\ c \in opened
      BY <3>1 DEF B, PoolInv, HoldInv, Held
    <3> QED
      BY <1>0, <1>1, <2>1, <3>2
  <2>4. CASE ~Held(c)
    <3>1. B = {} /\ flusher # c /\ c \notin opened
      BY <1>3, <2>4 DEF B, PoolInv, HoldInv, Held
    <3> QED
      BY <1>0, <1>1, <2>1, <3>1
  <2> QED
    BY <2>2, <2>3, <2>4 DEF Held
<1> QED
  BY <1>2, <1>3

(* No connection is lost and none is used by two, for every number of      *)
(* clients, with and without a write buffer beside them, whatever fails    *)
(* (pool.go:33-35, 55-81).                                                 *)
THEOREM Conserved == Spec => []PoolConserved
<1>1. PoolInv => PoolConserved
  BY HoldersOfOne DEF PoolInv, QueueInv, PoolConserved
<1> QED
  BY <1>1, Inductive, PTL
-----------------------------------------------------------------------------
(* One client without a write buffer beside it, whose connections do not   *)
(* break or expire; it sends what it likes.                                *)
AloneOnPool ==
  /\ \A r, s \in Sessions : r = s
  /\ ~WithFlusher /\ Faults \subseteq {"refuse"}

(* There is one connection, or none yet.                                   *)
OneConn ==
  /\ flusher = Nobody
  /\ \A c, d \in opened : c = d
  /\ \A c \in Conns \ opened : txn[c] = Closed

(* The client's transaction a, as it believes it to be, is MySQL's t.      *)
Agree(a, t) ==
  /\ a.open = t.open /\ a.rows = t.rows
  /\ a.plain => t.open
  /\ ~t.open => t.rows = {}
  /\ t.saved => t.open /\ a.mark = t.mark /\ t.mark \subseteq t.rows
  /\ \A r \in t.rows : r <= rows /\ r \notin db /\ r \notin rolledBack

(* The code's flag is the client's, but for a BEGIN that is under way.     *)
Flag(s) == inTransaction[s] <=>
             asked[s].plain \/ (pc[s] # "ready" /\ cmd[s] = "begin")

(* A command in progress keeps to the client's spelling and BEGIN runs     *)
(* only outside a transaction; the row of an INSERT is new.                *)
Pending(s) ==
  pc[s] # "ready" =>
    /\ cmd[s] \in Commands /\ ~Mixes(s, cmd[s])
    /\ cmd[s] = "begin" => ~asked[s].open
    /\ cmd[s] = "insert" =>
         /\ row[s] <= rows /\ row[s] \notin asked[s].rows
         /\ row[s] \notin db /\ row[s] \notin rolledBack

Kept ==
  /\ \A r \in db \cup rolledBack : r <= rows
  /\ promised \subseteq db /\ rolledBack \cap db = {}

(* What holds as long as the client keeps to one spelling.                 *)
Told ==
  /\ \A s \in Sessions, c \in Conns : opened \subseteq {c} => Agree(asked[s], txn[c])
  /\ \A s \in Sessions : Flag(s) /\ Pending(s)
  /\ Kept

AloneInv == OneConn /\ (mixed = {} => Told)

(* While the client's statement runs, its connection is the only one and   *)
(* the idle list is empty: the connection will be kept.                    *)
LEMMA TheConnection ==
  ASSUME AloneOnPool, PoolInv, OneConn, NEW s \in Sessions, pc[s] = "exec"
  PROVE  /\ opened = {holds[s]}
         /\ \A t : PutBack(holds[s], t) =>
              opened' = opened /\ txn' = [txn EXCEPT ![holds[s]] = t]
<1>1. holds[s] \in Conns /\ holds[s] \in opened /\ holds[s] \notin Idle
  BY HeldConn DEF PoolInv, HoldInv, Held
<1>2. opened = {holds[s]}
  BY <1>1 DEF OneConn
<1>3. Idle = {}
  <2>1. \A d \in Idle : d \in Conns
    BY DEF Idle, PoolInv, TypeOK
  <2> QED
    BY <1>1, <1>2, <2>1 DEF PoolInv, HoldInv
<1>4. Len(free) = 0
  <2>1. Len(free) \in Nat
    BY DEF PoolInv, TypeOK
  <2>2. 1 \notin 1..Len(free)
    BY <1>3 DEF Idle
  <2> QED
    BY <2>1, <2>2
<1>5. MaxIdle > 0
  <2>1. Cardinality(Conns) \in Nat
    BY FS_CardinalityType
  <2> QED
    BY <2>1
<1>6. \A t : PutBack(holds[s], t) =>
        opened' = opened /\ txn' = [txn EXCEPT ![holds[s]] = t]
  BY <1>4, <1>5 DEF PutBack, Keep
<1> QED
  BY <1>2, <1>6

(* A handler that takes a connection takes the one there is, or the first. *)
LEMMA TakesTheOne ==
  ASSUME AloneOnPool, PoolInv, OneConn, NEW s \in Sessions, pc[s] = "want",
         NEW c \in Conns, Obtain(c)
  PROVE  opened \subseteq {c} /\ opened' = {c}
<1>1. opened' = opened \cup {c} /\ ~Held(c)
  BY Obtained DEF PoolInv
<1>2. CASE free = <<>>
  <2>1. Idle = {}
    BY <1>2 DEF Idle
  <2>2. holds[s] = Nobody
    BY DEF PoolInv, HoldInv
  <2>3. \A d \in Conns : ~Held(d)
    BY <2>2 DEF AloneOnPool, OneConn, Held
  <2> QED
    BY <1>1, <2>1, <2>3 DEF PoolInv, HoldInv, TypeOK
<1>3. CASE free # <<>>
  <2>1. c \in Idle
    BY <1>3, LastFront DEF Obtain, Idle, PoolInv, TypeOK
  <2>2. c \in opened
    BY <2>1 DEF PoolInv, HoldInv
  <2> QED
    BY <1>1, <2>2 DEF OneConn
<1> QED
  BY <1>2, <1>3

LEMMA NoBreaks ==
  ASSUME AloneOnPool, OneConn
  PROVE  ~Expire /\ ~FlushBegin /\ ~FlushEnd /\ \A s \in Sessions : ~ExecLost(s)
  BY DEF AloneOnPool, OneConn, ExecLost, Expire, FlushBegin, FlushEnd

LEMMA OneConnStep ==
  ASSUME AloneOnPool, PoolInv, OneConn, [Next]_vars
  PROVE  OneConn'
<1>1. ASSUME NEW s \in Sessions, NEW k \in Commands, Swallow(s, k) \/ Start(s, k)
      PROVE  OneConn'
  BY <1>1 DEF Swallow, Start, OneConn, poolVars
<1>2. ASSUME NEW s \in Sessions, Acquire(s)
      PROVE  OneConn'
  <2>1. PICK c \in Conns : Obtain(c)
    BY <1>2 DEF Acquire
  <2>2. opened \subseteq {c} /\ opened' = {c} /\ UNCHANGED <<txn, flusher>>
    BY <1>2, <2>1, TakesTheOne DEF Acquire
  <2> QED
    BY <2>2 DEF OneConn
<1>3. ASSUME NEW s \in Sessions, Exec(s) \/ ExecRefused(s)
      PROVE  OneConn'
  <2>1. pc[s] = "exec" /\ UNCHANGED flusher
    BY <1>3 DEF Exec, ExecRefused, Answer
  <2>2. PICK c \in Conns : c = holds[s]
    BY <2>1, HeldConn
  <2>3. \E t : PutBack(c, t)
    BY <1>3, <2>2 DEF Exec, ExecRefused
  <2>4. \E t : opened' = opened /\ txn' = [txn EXCEPT ![c] = t] /\ opened = {c}
    BY <2>1, <2>2, <2>3, TheConnection
  <2>5. \A d \in Conns \ {c} : txn'[d] = txn[d]
    BY <2>4 DEF PoolInv, TypeOK
  <2> QED
    BY <2>1, <2>4, <2>5 DEF OneConn
<1>4. CASE UNCHANGED vars
  BY <1>4 DEF vars, OneConn
<1> QED
  BY StepKinds, NoBreaks, <1>1, <1>2, <1>3, <1>4

LEMMA ClosedIsEmpty ==
  /\ Closed.open = FALSE /\ Closed.saved = FALSE /\ Closed.rows = {}
  /\ NotAsked.open = FALSE /\ NotAsked.rows = {} /\ NotAsked.plain = FALSE
  BY DEF Closed, NotAsked

(* What an answer leaves behind: u is MySQL's transaction now.             *)
Agreed(s, u) == Agree(asked[s], u) /\ Kept

(* A statement that succeeds does to MySQL's transaction t what the client *)
(* takes it to do, command by command, and the code's flag follows.        *)
LEMMA Succeeds ==
  ASSUME NEW s \in Sessions, NEW k \in Texts, NEW t \in Transactions,
         NEW r \in Nat, NEW u, u = TxnAfter(k, t, r),
         TypeOK, Agreed(s, t), ~NoSavepoint(k, t), ~Mixes(s, k),
         k = "begin" => ~asked[s].open,
         inTransaction[s] <=> asked[s].plain \/ k = "begin",
         k = "insert" => r <= rows /\ r \notin t.rows /\ r \notin db /\ r \notin rolledBack,
         Finish(s, k, TRUE), Understand(s, k, r, TRUE),
         db' = db \cup Committed(k, t, r), rows' = rows
  PROVE  Agreed(s, u)' /\ (inTransaction'[s] <=> asked'[s].plain)
<1> DEFINE a == asked[s]
<1>0. a \in Requests /\ asked \in [Sessions -> Requests]
  BY DEF TypeOK, Requests
<1>1. inTransaction'[s] <=> inTransaction[s] /\ k \notin {"commit", "rollback"}
  BY DEF Finish, TypeOK
<1>2. /\ a.open = t.open /\ a.rows = t.rows /\ (a.plain => t.open)
      /\ (~t.open => t.rows = {})
      /\ (t.saved => t.open /\ a.mark = t.mark /\ t.mark \subseteq t.rows)
      /\ \A n \in t.rows : n <= rows /\ n \notin db /\ n \notin rolledBack
      /\ \A n \in db \cup rolledBack : n <= rows
      /\ promised \subseteq db /\ rolledBack \cap db = {}
  BY DEF Agreed, Agree, Kept
<1>3. CASE k \in {"begin", "begin;"}
  <2>0. ~a.open /\ ~a.plain
    BY <1>2, <1>3 DEF Mixes
  <2>1. u = Opened /\ db' = db
    BY <1>2, <1>3, <2>0 DEF TxnAfter, Committed
  <2>2. asked'[s] = [NotAsked EXCEPT !.open = TRUE, !.plain = k = "begin"]
        /\ promised' = promised /\ rolledBack' = rolledBack
    BY <1>0, <1>3, <2>0 DEF Understand
  <2>3. /\ asked'[s].open = TRUE /\ asked'[s].rows = {} /\ (asked'[s].plain <=> k = "begin")
        /\ u.open = TRUE /\ u.rows = {} /\ u.saved = FALSE
    BY <2>1, <2>2 DEF Opened, Closed, NotAsked
  <2>4. Agree(asked[s], u)'
    BY <2>3 DEF Agree
  <2>5. inTransaction'[s] <=> asked'[s].plain
    BY <1>1, <1>3, <2>0, <2>3
  <2> QED
    BY <1>2, <2>1, <2>2, <2>4, <2>5 DEF Agreed, Kept
<1>4. CASE k \in {"commit", "commit;"}
  <2>1. u = Closed /\ db' = db \cup t.rows
    BY <1>4 DEF TxnAfter, Committed
  <2>2. /\ asked'[s] = NotAsked /\ rolledBack' = rolledBack
        /\ promised' \subseteq promised \cup a.rows
    BY <1>0, <1>4 DEF Understand
  <2>3. /\ u.open = FALSE /\ u.saved = FALSE /\ u.rows = {}
        /\ asked'[s].open = FALSE /\ asked'[s].rows = {} /\ asked'[s].plain = FALSE
    BY <2>1, <2>2, ClosedIsEmpty
  <2>4. Agree(asked[s], u)'
    BY <2>3 DEF Agree
  <2>5. \A n \in db' \cup rolledBack' : n <= rows'
    BY <1>2, <2>1, <2>2
  <2>6. promised' \subseteq db' /\ rolledBack' \cap db' = {}
    BY <1>2, <2>1, <2>2
  <2>7. inTransaction'[s] <=> asked'[s].plain
    BY <1>1, <1>4, <2>3 DEF Mixes
  <2> QED
    BY <2>4, <2>5, <2>6, <2>7 DEF Agreed, Kept
<1>5. CASE k \in {"rollback", "rollback;"}
  <2>1. u = Closed /\ db' = db
    BY <1>5 DEF TxnAfter, Committed
  <2>2. /\ asked'[s] = NotAsked /\ rolledBack' = rolledBack \cup a.rows
        /\ promised' = promised
    BY <1>0, <1>5 DEF Understand
  <2>3. /\ u.open = FALSE /\ u.saved = FALSE /\ u.rows = {}
        /\ asked'[s].open = FALSE /\ asked'[s].rows = {} /\ asked'[s].plain = FALSE
    BY <2>1, <2>2, ClosedIsEmpty
  <2>4. Agree(asked[s], u)'
    BY <2>3 DEF Agree
  <2>5. \A n \in db' \cup rolledBack' : n <= rows'
    BY <1>2, <2>1, <2>2
  <2>6. promised' \subseteq db' /\ rolledBack' \cap db' = {}
    BY <1>2, <2>1, <2>2
  <2>7. inTransaction'[s] <=> asked'[s].plain
    BY <1>1, <1>5, <2>3 DEF Mixes
  <2> QED
    BY <2>4, <2>5, <2>6, <2>7 DEF Agreed, Kept
<1>6. CASE k \notin {"begin", "begin;", "commit", "commit;", "rollback", "rollback;"}
  <2>1. asked'[s].plain = a.plain => (inTransaction'[s] <=> asked'[s].plain)
    BY <1>1, <1>6
  <2>2. CASE k = "savepoint"
    <3>1. u = (IF t.open THEN [t EXCEPT !.saved = TRUE, !.mark = t.rows] ELSE t) /\ db' = db
      BY <2>2 DEF TxnAfter, Committed
    <3>2. /\ asked'[s] = [a EXCEPT !.mark = a.rows] /\ rolledBack' = rolledBack
          /\ promised' = promised
      BY <1>0, <2>2 DEF Understand
    <3>3. /\ asked'[s].open = a.open /\ asked'[s].rows = a.rows /\ asked'[s].mark = a.rows
          /\ asked'[s].plain = a.plain
      BY <1>0, <3>2 DEF Requests
    <3>4. /\ u.open = t.open /\ u.rows = t.rows
          /\ (u.saved => u.open /\ u.mark = t.rows)
      <4>1. CASE t.open
        BY <3>1, <4>1 DEF Transactions
      <4>2. CASE ~t.open
        BY <1>2, <3>1, <4>2 DEF Transactions
      <4> QED
        BY <4>1, <4>2
    <3> QED
      BY <1>2, <2>1, <3>1, <3>2, <3>3, <3>4 DEF Agreed, Agree, Kept
  <2>3. CASE k = "release"
    <3>1. u = [t EXCEPT !.saved = FALSE, !.mark = {}] /\ db' = db
      BY <2>3 DEF TxnAfter, Committed
    <3>2. /\ asked'[s] = a /\ rolledBack' = rolledBack /\ promised' = promised
      BY <1>0, <2>3 DEF Understand
    <3>3. u.open = t.open /\ u.rows = t.rows /\ ~u.saved
      BY <3>1 DEF Transactions
    <3> QED
      BY <1>2, <2>1, <3>1, <3>2, <3>3 DEF Agreed, Agree, Kept
  <2>4. CASE k = "rollback to"
    <3>1. u = [t EXCEPT !.rows = t.mark] /\ db' = db /\ t.saved
      BY <2>4 DEF TxnAfter, Committed, NoSavepoint
    <3>2. /\ asked'[s] = [a EXCEPT !.rows = a.mark, !.failed = FALSE]
          /\ rolledBack' = rolledBack \cup (a.rows \ a.mark) /\ promised' = promised
      BY <1>0, <2>4 DEF Understand
    <3>3. /\ asked'[s].open = a.open /\ asked'[s].rows = a.mark /\ asked'[s].mark = a.mark
          /\ asked'[s].plain = a.plain
          /\ u.open = t.open /\ u.rows = t.mark /\ u.mark = t.mark /\ u.saved
      BY <1>0, <3>1, <3>2 DEF Transactions, Requests
    <3> QED
      BY <1>2, <2>1, <3>1, <3>2, <3>3 DEF Agreed, Agree, Kept
  <2>5. CASE k = "insert" /\ t.open
    <3>1. u = [t EXCEPT !.rows = @ \cup {r}] /\ db' = db
      BY <2>5 DEF TxnAfter, Committed
    <3>2. /\ asked'[s] = [a EXCEPT !.rows = @ \cup {r}] /\ rolledBack' = rolledBack
          /\ promised' = promised
      BY <1>0, <1>2, <2>5 DEF Understand
    <3>3. /\ asked'[s].open = a.open /\ asked'[s].rows = a.rows \cup {r}
          /\ asked'[s].mark = a.mark /\ asked'[s].plain = a.plain
          /\ u.open = t.open /\ u.rows = t.rows \cup {r} /\ u.mark = t.mark
          /\ u.saved = t.saved
      BY <1>0, <3>1, <3>2 DEF Transactions, Requests
    <3> QED
      BY <1>2, <2>1, <2>5, <3>1, <3>2, <3>3 DEF Agreed, Agree, Kept
  <2>6. CASE k = "insert" /\ ~t.open
    <3>1. u = t /\ db' = db \cup {r}
      BY <2>6 DEF TxnAfter, Committed
    <3>2. asked'[s] = a /\ rolledBack' = rolledBack /\ promised' = promised \cup {r}
      BY <1>0, <1>2, <2>6 DEF Understand
    <3> QED
      BY <1>2, <2>1, <2>6, <3>1, <3>2 DEF Agreed, Agree, Kept
  <2>7. CASE k = "none"
    <3>1. u = t /\ db' = db
      BY <2>7 DEF TxnAfter, Committed
    <3>2. asked'[s] = a /\ rolledBack' = rolledBack /\ promised' = promised
      BY <1>0, <2>7 DEF Understand
    <3> QED
      BY <1>2, <2>1, <3>1, <3>2 DEF Agreed, Agree, Kept
  <2> QED
    BY <1>6, <2>2, <2>3, <2>4, <2>5, <2>6, <2>7 DEF Texts, Recognised, Passed
<1> QED
  BY <1>3, <1>4, <1>5, <1>6

(* A statement that is refused changes nothing, and the client takes back  *)
(* nothing that it was told.                                               *)
LEMMA Refuses ==
  ASSUME NEW s \in Sessions, NEW k \in {"insert", "release", "rollback to"},
         NEW t \in Transactions, NEW r \in Nat, TypeOK, Agreed(s, t),
         inTransaction[s] <=> asked[s].plain,
         Finish(s, k, FALSE), Understand(s, k, r, FALSE), UNCHANGED <<db, rows>>
  PROVE  Agreed(s, t)' /\ (inTransaction'[s] <=> asked'[s].plain)
<1>0. asked[s] \in Requests /\ asked \in [Sessions -> Requests]
  BY DEF TypeOK, Requests
<1>1. inTransaction'[s] <=> inTransaction[s]
  BY DEF Finish, TypeOK
<1>2. /\ asked'[s].open = asked[s].open /\ asked'[s].rows = asked[s].rows
      /\ asked'[s].mark = asked[s].mark /\ asked'[s].plain = asked[s].plain
  <2>1. asked' = [asked EXCEPT ![s] = [asked[s] EXCEPT !.failed = asked[s].open]]
    BY DEF Understand
  <2>2. asked'[s] = [asked[s] EXCEPT !.failed = asked[s].open]
    BY <1>0, <2>1
  <2> QED
    BY <1>0, <2>2 DEF Requests
<1>3. rolledBack' = rolledBack /\ promised' = promised
  BY DEF Understand
<1> QED
  BY <1>1, <1>2, <1>3 DEF Agreed, Agree, Kept

LEMMA ThereIsOne ==
  ASSUME PoolInv, OneConn
  PROVE  \E c \in Conns : opened \subseteq {c}
<1>1. opened \subseteq Conns /\ \A c, d \in opened : c = d
  BY DEF PoolInv, TypeOK, OneConn
<1>2. CASE opened = {}
  BY <1>2
<1>3. CASE opened # {}
  BY <1>1, <1>3
<1> QED
  BY <1>2, <1>3

(* A command that is swallowed finds the client where it is left: BEGIN in *)
(* a transaction, COMMIT and ROLLBACK outside one.                         *)
LEMMA Swallows ==
  ASSUME AloneOnPool, PoolInv, OneConn, Told, NEW s \in Sessions, NEW k \in Commands,
         Swallow(s, k), ~Mixes(s, k)
  PROVE  Told'
<1>0. asked[s] \in Requests /\ asked \in [Sessions -> Requests]
  BY DEF PoolInv, TypeOK, Requests
<1>1. /\ pc[s] = "ready" /\ Swallowed(s, k) /\ Understand(s, k, row[s], TRUE)
      /\ UNCHANGED <<inTransaction, txn, opened, db, rows, pc, row>>
  BY DEF Swallow, sessionVars, poolVars
<1>2. inTransaction[s] <=> asked[s].plain
  BY <1>1 DEF Told, Flag
<1>3. PICK c \in Conns : opened \subseteq {c}
  BY ThereIsOne
<1>4. /\ asked[s].open = txn[c].open /\ asked[s].rows = txn[c].rows
      /\ (asked[s].plain => txn[c].open) /\ (~txn[c].open => txn[c].rows = {})
  BY <1>3 DEF Told, Agree
<1>5. /\ asked'[s] \in {asked[s], NotAsked}
      /\ asked'[s] = NotAsked => ~asked[s].open /\ ~asked[s].plain /\ asked[s].rows = {}
      /\ UNCHANGED <<promised, rolledBack>>
  <2>1. CASE k = "begin"
    <3>1. asked[s].open
      BY <1>1, <1>2, <1>4, <2>1 DEF Swallowed
    <3>2. asked' = [asked EXCEPT ![s] = asked[s]]
          /\ promised' = promised \cup {} /\ rolledBack' = rolledBack \cup {}
      BY <1>1, <2>1, <3>1 DEF Understand
    <3>3. asked'[s] = asked[s]
      BY <1>0, <3>2
    <3>4. asked[s] # NotAsked
      BY <3>1, ClosedIsEmpty
    <3> QED
      BY <3>2, <3>3, <3>4
  <2>2. CASE k \in {"commit", "rollback"}
    <3>1. ~asked[s].plain
      BY <1>1, <1>2, <2>2 DEF Swallowed
    <3>2. ~asked[s].open
      BY <2>2, <3>1 DEF Mixes
    <3>3. asked[s].rows = {}
      BY <1>4, <3>2
    <3>4. asked' = [asked EXCEPT ![s] = NotAsked]
      BY <1>1, <2>2 DEF Understand
    <3>5. promised' = promised /\ rolledBack' = rolledBack
      BY <1>1, <2>2, <3>3 DEF Understand
    <3>6. asked'[s] = NotAsked
      BY <1>0, <3>4
    <3> QED
      BY <3>1, <3>2, <3>3, <3>5, <3>6
  <2> QED
    BY <1>1, <2>1, <2>2 DEF Swallowed
<1>6. asked'[s].open = asked[s].open /\ asked'[s].plain = asked[s].plain
      /\ asked'[s].rows = asked[s].rows /\ (asked[s].open => asked'[s] = asked[s])
  <2>1. asked[s].open \in BOOLEAN /\ asked[s].plain \in BOOLEAN
    BY <1>0 DEF Requests
  <2> QED
    BY <1>5, <2>1, ClosedIsEmpty
<1>7. ASSUME NEW d \in Conns, opened \subseteq {d}
      PROVE  Agree(asked'[s], txn[d])
  <2>1. Agree(asked[s], txn[d])
    BY <1>7 DEF Told
  <2> QED
    BY <1>6, <2>1 DEF Agree
<1>8. \A d \in Conns : opened' \subseteq {d} => Agree(asked[s], txn[d])'
  BY <1>1, <1>5, <1>7 DEF Agree
<1>9. Flag(s)' /\ Pending(s)'
  BY <1>1, <1>2, <1>6 DEF Flag, Pending
<1>10. Kept'
  BY <1>1, <1>5 DEF Told, Kept
<1> QED
  BY <1>8, <1>9, <1>10 DEF Told, AloneOnPool

LEMMA Starts ==
  ASSUME AloneOnPool, PoolInv, OneConn, Told, NEW s \in Sessions, NEW k \in Commands,
         Start(s, k), ~Mixes(s, k)
  PROVE  Told'
<1>1. /\ pc[s] = "ready" /\ ~Swallowed(s, k) /\ pc'[s] # "ready" /\ cmd'[s] = k
      /\ UNCHANGED <<asked, txn, opened, db, promised, rolledBack>>
      /\ (inTransaction'[s] <=> inTransaction[s] \/ k \in {"begin", "savepoint"})
  BY DEF Start, poolVars, PoolInv, TypeOK
<1>2. inTransaction[s] <=> asked[s].plain
  BY <1>1 DEF Told, Flag
<1>3. /\ rows \in Nat /\ rows' \in Nat /\ rows <= rows'
      /\ k = "insert" => row'[s] = rows + 1 /\ rows' = rows + 1
  BY DEF Start, PoolInv, TypeOK
<1>4. PICK c \in Conns : opened \subseteq {c}
  BY ThereIsOne
<1>5. Agree(asked[s], txn[c]) /\ Kept
  BY <1>4 DEF Told
<1>6. \A n \in asked[s].rows \cup db \cup rolledBack : n \in Nat /\ n <= rows
  BY <1>5 DEF Agree, Kept, PoolInv, TypeOK
<1>7. k = "begin" => ~asked[s].open
  BY <1>1, <1>2 DEF Swallowed, Mixes
<1>8. Pending(s)'
  <2>1. k = "insert" => /\ row'[s] <= rows' /\ row'[s] \notin asked[s].rows
                        /\ row'[s] \notin db /\ row'[s] \notin rolledBack
    BY <1>3, <1>6
  <2>2. ~Mixes(s, cmd[s])'
    BY <1>1 DEF Mixes
  <2> QED
    BY <1>1, <1>7, <2>1, <2>2 DEF Pending
<1>9. Flag(s)'
  BY <1>1, <1>2 DEF Flag, Mixes
<1>10. \A d \in Conns : opened' \subseteq {d} => Agree(asked[s], txn[d])'
  <2> SUFFICES ASSUME NEW d \in Conns, opened \subseteq {d}
               PROVE  Agree(asked[s], txn[d])'
    BY <1>1
  <2>1. Agree(asked[s], txn[d])
    BY DEF Told
  <2>2. \A n \in txn[d].rows : n <= rows'
    BY <1>3, <2>1 DEF Agree, PoolInv, TypeOK
  <2> QED
    BY <1>1, <2>1, <2>2 DEF Agree
<1>11. Kept'
  BY <1>1, <1>3, <1>5, <1>6 DEF Kept
<1> QED
  BY <1>8, <1>9, <1>10, <1>11 DEF Told, AloneOnPool

LEMMA Answers ==
  ASSUME AloneOnPool, PoolInv, OneConn, Told, NEW s \in Sessions,
         Exec(s) \/ ExecRefused(s)
  PROVE  Told'
<1>1. pc[s] = "exec" /\ pc'[s] = "ready" /\ UNCHANGED <<rows, cmd, row>>
  BY DEF Exec, ExecRefused, Answer, PoolInv, TypeOK
<1>2. PICK c \in Conns : c = holds[s]
  BY <1>1, HeldConn
<1>3. /\ opened = {c} /\ Agreed(s, txn[c])
      /\ \A t : PutBack(c, t) => opened' = opened /\ txn' = [txn EXCEPT ![c] = t]
  BY <1>1, <1>2, TheConnection DEF Told, Agreed
<1>4. /\ txn[c] \in Transactions /\ cmd[s] \in Texts /\ row[s] \in Nat
      /\ txn \in [Conns -> Transactions]
      /\ TxnAfter(cmd[s], txn[c], row[s]) \in Transactions
  <2>1. txn \in [Conns -> Transactions] /\ cmd[s] \in Texts /\ row[s] \in Nat
    BY DEF PoolInv, TypeOK, Transactions, Texts
  <2>2. txn[c] \in Transactions
    BY <1>2, <2>1
  <2> QED
    BY <2>1, <2>2, TxnTyped
<1>5. /\ ~Mixes(s, cmd[s]) /\ (cmd[s] = "begin" => ~asked[s].open)
      /\ (inTransaction[s] <=> asked[s].plain \/ cmd[s] = "begin")
      /\ cmd[s] = "insert" =>
           /\ row[s] <= rows /\ row[s] \notin txn[c].rows
           /\ row[s] \notin db /\ row[s] \notin rolledBack
  <2>1. Pending(s) /\ Flag(s) /\ asked[s].rows = txn[c].rows
    BY <1>3 DEF Told, Agreed, Agree
  <2> QED
    BY <1>1, <2>1 DEF Pending, Flag
<1>6. \E u \in Transactions :
        /\ opened' = opened /\ txn' = [txn EXCEPT ![c] = u] /\ Agreed(s, u)'
        /\ inTransaction'[s] <=> asked'[s].plain
  <2>1. CASE Exec(s)
    <3>1. PICK u \in Transactions : u = TxnAfter(cmd[s], txn[c], row[s])
      BY <1>4
    <3>2. opened' = opened /\ txn' = [txn EXCEPT ![c] = u]
      BY <1>2, <1>3, <2>1, <3>1 DEF Exec
    <3>3. /\ ~NoSavepoint(cmd[s], txn[c]) /\ db' = db \cup Committed(cmd[s], txn[c], row[s])
          /\ Finish(s, cmd[s], TRUE) /\ Understand(s, cmd[s], row[s], TRUE)
      BY <1>2, <2>1 DEF Exec, Answer
    <3>4. Agreed(s, u)' /\ (inTransaction'[s] <=> asked'[s].plain)
      BY <1>1, <1>3, <1>4, <1>5, <3>1, <3>3, Succeeds DEF PoolInv
    <3> QED
      BY <3>2, <3>4
  <2>2. CASE ExecRefused(s)
    <3>1. PICK u \in Transactions : u = txn[c]
      BY <1>4
    <3>2. opened' = opened /\ txn' = [txn EXCEPT ![c] = u]
      BY <1>2, <1>3, <2>2, <3>1 DEF ExecRefused
    <3>3. /\ cmd[s] \in {"insert", "release", "rollback to"} /\ UNCHANGED <<db, rows>>
          /\ Finish(s, cmd[s], FALSE) /\ Understand(s, cmd[s], row[s], FALSE)
      BY <1>1, <1>2, <2>2 DEF ExecRefused, Answer, NoSavepoint
    <3>4. Agreed(s, u)' /\ (inTransaction'[s] <=> asked'[s].plain)
      BY <1>3, <1>4, <1>5, <3>1, <3>3, Refuses DEF PoolInv
    <3> QED
      BY <3>2, <3>4
  <2> QED
    BY <2>1, <2>2
<1>7. PICK u \in Transactions :
        /\ opened' = {c} /\ txn' = [txn EXCEPT ![c] = u] /\ Agreed(s, u)'
        /\ inTransaction'[s] <=> asked'[s].plain
  BY <1>3, <1>6
<1>8. Flag(s)' /\ Pending(s)'
  BY <1>1, <1>7 DEF Flag, Pending
<1>9. \A d \in Conns : opened' \subseteq {d} => Agree(asked[s], txn[d])'
  <2> SUFFICES Agree(asked[s], txn[c])'
    BY <1>7
  <2>1. txn'[c] = u
    BY <1>4, <1>7
  <2> QED
    BY <1>7, <2>1 DEF Agreed, Agree
<1> QED
  BY <1>7, <1>8, <1>9 DEF Told, Agreed, AloneOnPool

(* A client that has not mixed had not mixed before.                       *)
LEMMA MixedStays ==
  ASSUME [Next]_vars, mixed' = {}
  PROVE  /\ mixed = {}
         /\ \A s \in Sessions, c \in Commands : Swallow(s, c) \/ Start(s, c) => ~Mixes(s, c)
<1>1. ASSUME NEW s \in Sessions, NEW c \in Commands, Record(s, c)
      PROVE  mixed = {} /\ ~Mixes(s, c)
  BY <1>1 DEF Record
<1>2. mixed = {}
  BY StepKinds, <1>1 DEF Swallow, Start, Acquire, Exec, ExecRefused, ExecLost, Answer,
     Expire, FlushBegin, FlushEnd, clientVars, vars
<1> QED
  BY <1>1, <1>2 DEF Swallow, Start

LEMMA ToldStep ==
  ASSUME AloneOnPool, PoolInv, OneConn, Told, [Next]_vars, mixed' = {}
  PROVE  Told'
<1>1. ASSUME NEW s \in Sessions, NEW k \in Commands, Swallow(s, k) \/ Start(s, k)
      PROVE  Told'
  BY <1>1, MixedStays, Swallows, Starts
<1>2. ASSUME NEW s \in Sessions, Acquire(s)
      PROVE  Told'
  <2>1. /\ UNCHANGED <<inTransaction, asked, txn, db, rows, promised, rolledBack, cmd, row>>
        /\ pc[s] = "want" /\ pc'[s] = "exec"
    BY <1>2 DEF Acquire, sessionVars, clientVars, PoolInv, TypeOK
  <2>2. PICK c \in Conns : Obtain(c)
    BY <1>2 DEF Acquire
  <2>3. opened \subseteq {c} /\ opened' = {c}
    BY <2>1, <2>2, TakesTheOne
  <2>4. Agree(asked[s], txn[c]) /\ Flag(s) /\ Pending(s) /\ Kept
    BY <2>3 DEF Told
  <2>5. \A d \in Conns : opened' \subseteq {d} => Agree(asked[s], txn[d])'
    BY <2>1, <2>3, <2>4 DEF Agree
  <2>6. Flag(s)' /\ Pending(s)'
    BY <2>1, <2>4 DEF Flag, Pending, Mixes
  <2>7. Kept'
    BY <2>1, <2>4 DEF Kept
  <2> QED
    BY <2>5, <2>6, <2>7 DEF Told, AloneOnPool
<1>3. ASSUME NEW s \in Sessions, Exec(s) \/ ExecRefused(s)
      PROVE  Told'
  BY <1>3, Answers
<1>4. CASE UNCHANGED vars
  <2>1. \A s \in Sessions : (Mixes(s, cmd[s]) <=> Mixes(s, cmd[s])')
    BY <1>4 DEF vars, Mixes
  <2>2. \A s \in Sessions : (Flag(s) /\ Pending(s))'
    BY <1>4, <2>1 DEF vars, Told, Flag, Pending
  <2>3. \A s \in Sessions, c \in Conns : (opened \subseteq {c} => Agree(asked[s], txn[c]))'
    BY <1>4 DEF vars, Told, Agree
  <2> QED
    BY <1>4, <2>2, <2>3 DEF vars, Told, Kept
<1> QED
  BY StepKinds, NoBreaks, <1>1, <1>2, <1>3, <1>4

LEMMA AloneInductive ==
  ASSUME AloneOnPool
  PROVE  Spec => []AloneInv
<1>1. Init => AloneInv
  <2> SUFFICES ASSUME Init
               PROVE  AloneInv
    OBVIOUS
  <2>1. \A s \in Sessions, c \in Conns : Agree(asked[s], txn[c])
    BY DEF Init, Agree, Closed, NotAsked
  <2>2. \A s \in Sessions : Flag(s) /\ Pending(s)
    BY DEF Init, Flag, Pending, NotAsked
  <2>3. Kept /\ OneConn
    BY DEF Init, Kept, OneConn
  <2> QED
    BY <2>1, <2>2, <2>3 DEF AloneInv, Told
<1>2. PoolInv /\ AloneInv /\ [Next]_vars => AloneInv'
  BY OneConnStep, MixedStays, ToldStep DEF AloneInv
<1> QED
  BY <1>1, <1>2, Inductive, PTL DEF Spec

(* A client that has the pool to itself and keeps to one spelling finds in *)
(* MySQL whatever it was told is committed, a COMMIT among it that was     *)
(* answered with ReadyForQuery alone, with any number of connections and   *)
(* however its statements are refused (docs/PRODUCT.md:131,                *)
(* server.go:839-863).                                                     *)
THEOREM CommitsKept ==
  ASSUME AloneOnPool
  PROVE  Spec => []AckedCommitDurable
<1>1. AloneInv => AckedCommitDurable
  BY DEF AloneInv, Told, Kept, AckedCommitDurable
<1> QED
  BY <1>1, AloneInductive, PTL

(* And nothing of what it was told is rolled back, to the savepoint or     *)
(* altogether, after whatever BEGIN it was answered, swallowed ones        *)
(* included (docs/PRODUCT.md:131 and :134, server.go:839-902).             *)
THEOREM RollbacksGone ==
  ASSUME AloneOnPool
  PROVE  Spec => []AckedRollbackGone
<1>1. AloneInv => AckedRollbackGone
  BY DEF AloneInv, Told, Kept, AckedRollbackGone
<1> QED
  BY <1>1, AloneInductive, PTL
=============================================================================
