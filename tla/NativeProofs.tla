---------------------------- MODULE NativeProofs ----------------------------
(***************************************************************************)
(* What the native server reads and answers, for every client and every    *)
(* place at which its connection breaks.                                   *)
(*                                                                         *)
(*  - A number that was written is read again, from a stream that holds it *)
(*    as a whole; from one that ends within it nothing is (VarIntAt).  The *)
(*    same follows for texts, for the fields of a packet (FieldsRead), and *)
(*    for a whole query with its second text (QueryReaches).               *)
(*  - Aligned is the inductive invariant: what waits to be read is what    *)
(*    was sent and is not handled, or the beginning of it.  Advance has    *)
(*    the step: a packet is taken up to its last byte, or the stream ended *)
(*    within it and nothing is left.                                       *)
(*  - Executed and Answered follow from it, each with the fold that its    *)
(*    property is stated with, unrolled by one packet (AskedMore and       *)
(*    ReadMore).                                                           *)
(*                                                                         *)
(* Sequences are joined by Cat, which the provers see as a symbol.         *)
(***************************************************************************)
EXTENDS NativeProtocol, StreamLemmas

(* The least member of a set of numbers.                                   *)
LEMMA MinIs ==
  ASSUME NEW S, S \subseteq Nat, S # {}
  PROVE  Min(S) \in S /\ \A n \in S : Min(S) <= n
<1>1. PICK n \in S : \A m \in 0..(n - 1) : m \notin S
  BY Least
<1>2. \A m \in S : n <= m
  <2> SUFFICES ASSUME NEW m \in S, ~ (n <= m) PROVE FALSE
    OBVIOUS
  <2>1. m \in 0..(n - 1)
    OBVIOUS
  <2> QED
    BY <1>1, <2>1
<1>3. \E x \in S : \A y \in S : x <= y
  BY <1>2
<1> QED
  BY <1>3, Zenon DEF Min

(* q holds v behind as many as k groups.                                   *)
Shifts(q, v, k) == q = [i \in 0..k |-> IF i = 0 THEN v ELSE q[i - 1] \div 128]

LEMMA ShiftsExtended ==
  ASSUME NEW v, NEW q, NEW k \in Nat, Shifts(q, v, k)
  PROVE  \E r : Shifts(r, v, k + 1)
<1> DEFINE x == q[k] \div 128
           r == [i \in 0..(k + 1) |-> IF i = k + 1 THEN x ELSE q[i]]
<1>1. ASSUME NEW i \in 0..(k + 1)
      PROVE  r[i] = IF i = 0 THEN v ELSE r[i - 1] \div 128
  <2>1. CASE i = k + 1
    BY <2>1
  <2>2. CASE i # k + 1
    <3>1. i \in 0..k /\ r[i] = q[i] /\ (i # 0 => r[i - 1] = q[i - 1])
      BY <2>2
    <3>2. q[i] = IF i = 0 THEN v ELSE q[i - 1] \div 128
      BY <3>1 DEF Shifts
    <3> QED
      BY <3>1, <3>2
  <2> QED
    BY <2>1, <2>2
<1>2. r = [i \in 0..(k + 1) |-> r[i]]
  OBVIOUS
<1> HIDE DEF r
<1>3. Shifts(r, v, k + 1)
  BY <1>1, <1>2 DEF Shifts
<1> QED
  BY <1>3

LEMMA ShiftsExist ==
  ASSUME NEW v, NEW m \in Nat
  PROVE  \E q : Shifts(q, v, m)
<1> DEFINE Good == {k \in 0..m : \E q : Shifts(q, v, k)}
<1>1. 0 \in Good
  <2> DEFINE q == [i \in 0..0 |-> v]
  <2>1. Shifts(q, v, 0)
    BY DEF Shifts
  <2> HIDE DEF q
  <2> QED
    BY <2>1
<1>2. \A k \in 0..(m - 1) : k \in Good => k + 1 \in Good
  BY ShiftsExtended
<1>3. \A k \in 0..m : k \in Good
  <2> HIDE DEF Good
  <2> QED
    BY <1>1, <1>2, UpTo
<1> QED
  BY <1>3

LEMMA ShiftsSteps ==
  ASSUME NEW v, NEW q, NEW k \in Nat, Shifts(q, v, k)
  PROVE  q[0] = v /\ \A i \in 0..(k - 1) : q[i + 1] = q[i] \div 128
<1>1. q[0] = v
  BY DEF Shifts
<1>2. ASSUME NEW i \in 0..(k - 1) PROVE q[i + 1] = q[i] \div 128
  <2>1. i + 1 \in 0..k /\ i + 1 # 0 /\ (i + 1) - 1 = i
    OBVIOUS
  <2>2. q[i + 1] = IF i + 1 = 0 THEN v ELSE q[(i + 1) - 1] \div 128
    BY <2>1 DEF Shifts
  <2> QED
    BY <2>1, <2>2
<1> QED
  BY <1>1, <1>2

LEMMA ShiftsUnique ==
  ASSUME NEW v \in Nat, NEW q, NEW r, NEW k \in Nat, NEW l \in Nat, k <= l,
         Shifts(q, v, k), Shifts(r, v, l)
  PROVE  \A i \in 0..k : q[i] = r[i] /\ q[i] \in Nat
<1> DEFINE Good == {i \in 0..k : q[i] = r[i] /\ q[i] \in Nat}
<1>0. /\ q[0] = v /\ \A i \in 0..(k - 1) : q[i + 1] = q[i] \div 128
      /\ r[0] = v /\ \A i \in 0..(l - 1) : r[i + 1] = r[i] \div 128
  BY ShiftsSteps
<1>1. 0 \in Good
  BY <1>0
<1>2. ASSUME NEW i \in 0..(k - 1), i \in Good
      PROVE  i + 1 \in Good
  <2>1. i \in 0..(l - 1) /\ i + 1 \in 0..k
    OBVIOUS
  <2>2. PICK x \in Nat : x = q[i] /\ x = r[i]
    BY <1>2
  <2>3. x \div 128 \in Nat
    OBVIOUS
  <2>4. q[i + 1] = x \div 128 /\ r[i + 1] = x \div 128
    BY <1>0, <2>1, <2>2
  <2> QED
    BY <2>1, <2>3, <2>4
<1>3. \A i \in 0..k : i \in Good
  <2> HIDE DEF Good
  <2> QED
    BY <1>1, <1>2, UpTo
<1> QED
  BY <1>3

(* What Shifted computes.                                                  *)
LEMMA ShiftedIs ==
  ASSUME NEW v \in Nat, NEW k \in Nat
  PROVE  \E q : Shifts(q, v, k) /\ Shifted(v, k) = q[k]
<1> DEFINE q == CHOOSE q : Shifts(q, v, k)
<1>1. Shifts(q, v, k)
  BY ShiftsExist
<1>2. Shifted(v, k) = q[k]
  BY Zenon DEF Shifted, Shifts
<1> QED
  BY <1>1, <1>2

LEMMA ShiftedSteps ==
  ASSUME NEW v \in Nat, NEW k \in Nat
  PROVE  /\ Shifted(v, 0) = v /\ Shifted(v, k) \in Nat
         /\ Shifted(v, k + 1) = Shifted(v, k) \div 128
<1>1. PICK q : Shifts(q, v, k) /\ Shifted(v, k) = q[k]
  BY ShiftedIs
<1>2. PICK r : Shifts(r, v, k + 1) /\ Shifted(v, k + 1) = r[k + 1]
  BY ShiftedIs
<1>3. PICK s : Shifts(s, v, 0) /\ Shifted(v, 0) = s[0]
  BY ShiftedIs
<1>4. Shifted(v, 0) = v
  BY <1>3, ShiftsSteps
<1>5. \A i \in 0..k : q[i] = r[i] /\ q[i] \in Nat
  BY <1>1, <1>2, ShiftsUnique
<1>6. r[k + 1] = r[k] \div 128
  <2>1. k \in 0..((k + 1) - 1)
    OBVIOUS
  <2> QED
    BY <1>2, <2>1, ShiftsSteps
<1> QED
  BY <1>1, <1>2, <1>4, <1>5, <1>6

LEMMA Groups ==
  ASSUME NEW n \in Nat
  PROVE  /\ n \div 128 \in Nat /\ n % 128 \in 0..127
         /\ n = (n % 128) + 128 * (n \div 128)
  OBVIOUS
-----------------------------------------------------------------------------
(* The bytes s are those of the integer v: its groups, all but the last    *)
(* one marked.                                                             *)
Encodes(s, v, n) ==
  /\ v \in Nat /\ n \in 1..MaxVarInt
  /\ s \in Seq(Byte) /\ Len(s) = n
  /\ Shifted(v, n - 1) < 128 /\ (n = MaxVarInt => Shifted(v, n - 1) < TopGroup)
  /\ s[n] = Shifted(v, n - 1)
  /\ \A i \in 1..(n - 1) : s[i] = (Shifted(v, i - 1) % 128) + 128

LEMMA VarIntIs ==
  ASSUME NEW v \in Uints
  PROVE  \E n \in Nat : Encodes(WriteVarInt(v), v, n)
<1>0. /\ v \in Nat /\ Shifted(v, MaxVarInt - 1) < TopGroup
      /\ MaxVarInt \in Nat /\ MaxVarInt >= 1 /\ TopGroup \in Nat /\ TopGroup <= 128
  BY VarIntAssumption DEF Uints
<1>a. ASSUME NEW i \in 1..MaxVarInt PROVE Shifted(v, i - 1) \in Nat
  <2>1. i - 1 \in Nat
    BY <1>0
  <2> QED
    BY <1>0, <2>1, ShiftedSteps
<1> DEFINE S == {k \in 1..MaxVarInt : Shifted(v, k - 1) < 128}
<1>1. S \subseteq Nat /\ MaxVarInt \in S
  <2>1. MaxVarInt - 1 \in Nat /\ MaxVarInt \in 1..MaxVarInt
    BY <1>0
  <2>2. PICK x \in Nat : x = Shifted(v, MaxVarInt - 1)
    BY <1>0, <2>1, ShiftedSteps
  <2> QED
    BY <1>0, <2>1, <2>2
<1>2. PICK n \in S : n = Min(S) /\ \A k \in S : n <= k
  <2> HIDE DEF S
  <2> QED
    BY <1>1, MinIs
<1>3. n \in 1..MaxVarInt /\ Shifted(v, n - 1) < 128
  OBVIOUS
<1>4. PICK s : s = WriteVarInt(v)
  OBVIOUS
<1>5. s = [i \in 1..n |-> IF i = n THEN Shifted(v, i - 1) ELSE (Shifted(v, i - 1) % 128) + 128]
  BY <1>2, <1>4, Zenon DEF WriteVarInt
<1>6. s = [i \in 1..n |-> s[i]]
  BY <1>5
<1>7. s[n] = Shifted(v, n - 1)
  BY <1>3, <1>5
<1>8. \A i \in 1..(n - 1) : s[i] = (Shifted(v, i - 1) % 128) + 128
  <2> SUFFICES ASSUME NEW i \in 1..(n - 1) PROVE s[i] = (Shifted(v, i - 1) % 128) + 128
    OBVIOUS
  <2>1. i \in 1..n /\ i # n
    BY <1>3
  <2> QED
    BY <1>5, <2>1
<1>9. ASSUME NEW i \in 1..n PROVE s[i] \in Byte
  <2>0. i \in 1..MaxVarInt
    BY <1>0, <1>3
  <2>1. PICK x \in Nat : x = Shifted(v, i - 1)
    BY <1>a, <2>0
  <2>2. CASE i = n
    BY <1>3, <1>7, <2>1, <2>2 DEF Byte
  <2>3. CASE i # n
    <3>1. s[i] = (x % 128) + 128
      BY <1>8, <2>1, <2>3
    <3>2. x % 128 \in 0..127
      OBVIOUS
    <3> QED
      BY <3>1, <3>2 DEF Byte
  <2> QED
    BY <2>2, <2>3
<1>10. s \in Seq(Byte) /\ Len(s) = n
  <2>1. n \in Nat
    BY <1>3
  <2> QED
    BY <1>6, <1>9, <2>1
<1>11. Encodes(s, v, n)
  BY <1>0, <1>3, <1>7, <1>8, <1>10, Zenon DEF Encodes
<1> QED
  BY <1>1, <1>4, <1>11

(* f holds what the groups from each byte on make together, from the byte  *)
(* k on, of n bytes.                                                       *)
Summed(f, b, n, k) ==
  f = [i \in k..(n + 1) |-> IF i > n THEN 0 ELSE Group(b, i) + 128 * f[i + 1]]

LEMMA SummedExtended ==
  ASSUME NEW b, NEW f, NEW n \in Nat, NEW k \in Nat, NEW l \in Nat,
         l = k + 1, l <= n + 1, Summed(f, b, n, l)
  PROVE  \E g : Summed(g, b, n, k)
<1> DEFINE x == Group(b, k) + 128 * f[l]
           g == [i \in k..(n + 1) |-> IF i = k THEN x ELSE f[i]]
<1>1. ASSUME NEW i \in k..(n + 1)
      PROVE  g[i] = IF i > n THEN 0 ELSE Group(b, i) + 128 * g[i + 1]
  <2>1. CASE i = k
    <3>1. ~ (i > n) /\ i + 1 = l /\ g[i] = x /\ g[i + 1] = f[l]
      BY <2>1
    <3> QED
      BY <2>1, <3>1
  <2>2. CASE i # k
    <3>1. i \in l..(n + 1) /\ g[i] = f[i] /\ (i <= n => g[i + 1] = f[i + 1])
      BY <2>2
    <3>2. f[i] = IF i > n THEN 0 ELSE Group(b, i) + 128 * f[i + 1]
      BY <3>1 DEF Summed
    <3> QED
      BY <3>1, <3>2
  <2> QED
    BY <2>1, <2>2
<1>2. g = [i \in k..(n + 1) |-> g[i]]
  OBVIOUS
<1> HIDE DEF g
<1>3. Summed(g, b, n, k)
  BY <1>1, <1>2 DEF Summed
<1> QED
  BY <1>3

LEMMA SummedExists ==
  ASSUME NEW b, NEW n \in Nat
  PROVE  \E f : Summed(f, b, n, 1)
<1> DEFINE Good == {j \in 0..n : \E f : Summed(f, b, n, n + 1 - j)}
<1>1. 0 \in Good
  <2> DEFINE f == [i \in (n + 1)..(n + 1) |-> 0]
  <2>1. f = [i \in (n + 1)..(n + 1) |-> IF i > n THEN 0 ELSE Group(b, i) + 128 * f[i + 1]]
    OBVIOUS
  <2>2. n + 1 - 0 = n + 1
    OBVIOUS
  <2> HIDE DEF f
  <2>3. Summed(f, b, n, n + 1 - 0)
    BY <2>1, <2>2 DEF Summed
  <2> QED
    BY <2>3
<1>2. ASSUME NEW j \in 0..(n - 1), j \in Good PROVE j + 1 \in Good
  <2>1. PICK k \in Nat, l \in Nat : k = n + 1 - (j + 1) /\ l = n + 1 - j /\ l = k + 1 /\ l <= n + 1
    OBVIOUS
  <2>2. PICK f : Summed(f, b, n, l)
    BY <1>2, <2>1
  <2>3. \E g : Summed(g, b, n, k)
    BY <2>1, <2>2, SummedExtended
  <2> QED
    BY <2>1, <2>3
<1>3. \A j \in 0..n : j \in Good
  <2> HIDE DEF Good
  <2> QED
    BY <1>1, <1>2, UpTo
<1>4. n \in 0..n /\ n + 1 - n = 1
  OBVIOUS
<1> QED
  BY <1>3, <1>4

LEMMA NumberIs ==
  ASSUME NEW b \in Seq(Byte)
  PROVE  \E f : Summed(f, b, Len(b), 1) /\ Number(b) = f[1]
<1> DEFINE f == CHOOSE f : Summed(f, b, Len(b), 1)
<1>1. Summed(f, b, Len(b), 1)
  BY SummedExists, LenProperties
<1>2. Number(b) = f[1]
  BY Zenon DEF Number, Summed
<1> QED
  BY <1>1, <1>2

LEMMA SummedSteps ==
  ASSUME NEW b, NEW f, NEW n \in Nat, Summed(f, b, n, 1)
  PROVE  f[n + 1] = 0 /\ \A i \in 1..n : f[i] = Group(b, i) + 128 * f[i + 1]
<1>1. f[n + 1] = 0
  BY DEF Summed
<1>2. ASSUME NEW i \in 1..n PROVE f[i] = Group(b, i) + 128 * f[i + 1]
  <2>1. i \in 1..(n + 1) /\ ~ (i > n)
    OBVIOUS
  <2>2. f[i] = IF i > n THEN 0 ELSE Group(b, i) + 128 * f[i + 1]
    BY <2>1 DEF Summed
  <2> QED
    BY <2>1, <2>2
<1> QED
  BY <1>1, <1>2

LEMMA GroupIs ==
  ASSUME NEW b \in Seq(Byte), NEW i \in 1..Len(b)
  PROVE  /\ Group(b, i) \in Nat
         /\ i # MaxVarInt => Group(b, i) = b[i] % 128
         /\ i = MaxVarInt /\ b[i] < TopGroup => Group(b, i) = b[i]
<1>1. PICK x \in Nat : x = b[i]
  BY DEF Byte
<1>2. TopGroup \in {2, 4, 8, 16, 32, 64, 128}
  BY VarIntAssumption
<1>3. CASE i = MaxVarInt
  <2>1. Group(b, i) = x % TopGroup
    BY <1>1, <1>3, Zenon DEF Group
  <2>2. x % TopGroup \in Nat /\ (x < TopGroup => x % TopGroup = x)
    BY <1>2
  <2> QED
    BY <1>1, <1>3, <2>1, <2>2
<1>4. CASE i # MaxVarInt
  <2>1. Group(b, i) = x % 128
    BY <1>1, <1>4, Zenon DEF Group
  <2>2. x % 128 \in Nat
    OBVIOUS
  <2> QED
    BY <1>1, <1>4, <2>1, <2>2
<1> QED
  BY <1>3, <1>4

LEMMA NumberTyped ==
  ASSUME NEW b \in Seq(Byte)
  PROVE  Number(b) \in Nat
<1>0. PICK n \in Nat : n = Len(b)
  BY LenProperties
<1>1. PICK f : Summed(f, b, n, 1) /\ Number(b) = f[1]
  BY <1>0, NumberIs
<1>2. f[n + 1] = 0 /\ \A i \in 1..n : f[i] = Group(b, i) + 128 * f[i + 1]
  BY <1>1, SummedSteps
<1> DEFINE Good == {j \in 0..n : f[n + 1 - j] \in Nat}
<1>3. 0 \in Good
  BY <1>2
<1>4. ASSUME NEW j \in 0..(n - 1), j \in Good PROVE j + 1 \in Good
  <2>1. PICK i \in 1..n : i = n + 1 - (j + 1) /\ i + 1 = n + 1 - j
    OBVIOUS
  <2>2. PICK x \in Nat : x = f[i + 1]
    BY <1>4, <2>1
  <2>3. PICK y \in Nat : y = Group(b, i)
    BY <1>0, GroupIs
  <2>4. f[i] = y + 128 * x
    BY <1>2, <2>2, <2>3
  <2>5. y + 128 * x \in Nat
    OBVIOUS
  <2> QED
    BY <2>1, <2>4, <2>5
<1>5. \A j \in 0..n : j \in Good
  <2> HIDE DEF Good
  <2> QED
    BY <1>3, <1>4, UpTo
<1>6. n \in 0..n /\ n + 1 - n = 1
  OBVIOUS
<1> QED
  BY <1>1, <1>5, <1>6

(* The groups of an integer make the integer again.                        *)
LEMMA NumberOf ==
  ASSUME NEW s, NEW v, NEW n, Encodes(s, v, n)
  PROVE  Number(s) = v
<1>0. /\ v \in Nat /\ n \in Nat /\ n \in 1..MaxVarInt /\ n >= 1 /\ n <= MaxVarInt
      /\ MaxVarInt \in Nat /\ s \in Seq(Byte) /\ Len(s) = n
  BY VarIntAssumption DEF Encodes
<1>1. PICK f : Summed(f, s, n, 1) /\ Number(s) = f[1]
  BY <1>0, NumberIs
<1>2. f[n + 1] = 0 /\ \A i \in 1..n : f[i] = Group(s, i) + 128 * f[i + 1]
  BY <1>0, <1>1, SummedSteps
<1> DEFINE Good == {j \in 0..(n - 1) : f[n - j] = Shifted(v, n - 1 - j)}
<1>3. 0 \in Good
  <2>1. n - 1 \in Nat /\ n \in 1..n
    BY <1>0
  <2>2. PICK x \in Nat : x = Shifted(v, n - 1)
    BY <1>0, <2>1, ShiftedSteps
  <2>3. s[n] = x /\ x < 128 /\ (n = MaxVarInt => x < TopGroup)
    BY <2>2 DEF Encodes
  <2>4. Group(s, n) = x
    <3>1. n \in 1..Len(s)
      BY <1>0, <2>1
    <3>2. CASE n = MaxVarInt
      BY <1>0, <2>3, <3>1, <3>2, GroupIs
    <3>3. CASE n # MaxVarInt
      <4>1. Group(s, n) = s[n] % 128
        BY <1>0, <3>1, <3>3, GroupIs
      <4>2. x % 128 = x
        BY <2>3
      <4> QED
        BY <2>3, <4>1, <4>2
    <3> QED
      BY <3>2, <3>3
  <2>5. f[n] = x
    BY <1>2, <2>1, <2>4
  <2>6. n - 0 = n /\ n - 1 - 0 = n - 1 /\ 0 \in 0..(n - 1)
    BY <1>0
  <2> QED
    BY <2>2, <2>5, <2>6
<1>4. ASSUME NEW j \in 0..((n - 1) - 1), j \in Good PROVE j + 1 \in Good
  <2>1. PICK i \in 1..(n - 1), k \in Nat :
           /\ i = n - (j + 1) /\ k = n - 1 - (j + 1) /\ k = i - 1
           /\ i + 1 = n - j /\ k + 1 = n - 1 - j /\ j + 1 \in 0..(n - 1)
    BY <1>0
  <2>2. PICK x \in Nat : x = Shifted(v, k)
    BY <1>0, ShiftedSteps
  <2>3. Shifted(v, k + 1) = x \div 128
    BY <1>0, <2>2, ShiftedSteps
  <2>4. f[i + 1] = x \div 128
    BY <1>4, <2>1, <2>3
  <2>5. s[i] = (x % 128) + 128
    BY <2>1, <2>2 DEF Encodes
  <2>6. Group(s, i) = x % 128
    <3>1. i \in 1..Len(s) /\ i # MaxVarInt
      BY <1>0, <2>1
    <3>2. Group(s, i) = s[i] % 128
      BY <1>0, <3>1, GroupIs
    <3>3. ((x % 128) + 128) % 128 = x % 128
      OBVIOUS
    <3> QED
      BY <2>5, <3>2, <3>3
  <2>7. f[i] = (x % 128) + 128 * (x \div 128)
    <3>1. i \in 1..n
      BY <1>0, <2>1
    <3> QED
      BY <1>2, <2>4, <2>6, <3>1
  <2>8. f[i] = x
    BY <2>7, Groups
  <2> QED
    BY <2>1, <2>2, <2>8
<1>5. \A j \in 0..(n - 1) : j \in Good
  <2>1. n - 1 \in Nat
    BY <1>0
  <2> HIDE DEF Good
  <2> QED
    BY <1>3, <1>4, <2>1, UpTo
<1>6. n - 1 \in 0..(n - 1) /\ n - (n - 1) = 1 /\ n - 1 - (n - 1) = 0
  BY <1>0
<1>7. Shifted(v, 0) = v
  BY <1>0, ShiftedSteps
<1> QED
  BY <1>1, <1>5, <1>6, <1>7

-----------------------------------------------------------------------------
(* From the position p on, b has the bytes s, as far as it goes; and it    *)
(* goes that far.                                                          *)
Meets(b, p, s) ==
  /\ b \in Seq(Byte) /\ s \in Seq(Byte) /\ p \in Nat /\ p >= 1 /\ p <= Len(b) + 1
  /\ \A i \in 1..Len(s) : p - 1 + i <= Len(b) => b[p - 1 + i] = s[i]
Whole(b, p, s) == p + Len(s) <= Len(b) + 1

LEMMA CatParts ==
  ASSUME NEW s \in Seq(Byte), NEW t \in Seq(Byte)
  PROVE  /\ Cat(s, t) \in Seq(Byte) /\ Len(s) \in Nat /\ Len(t) \in Nat
         /\ Len(Cat(s, t)) = Len(s) + Len(t)
         /\ \A i \in 1..Len(s) : Cat(s, t)[i] = s[i]
         /\ \A i \in 1..Len(t) : Cat(s, t)[Len(s) + i] = t[i]
<1>1. Cat(s, t) \in Seq(Byte) /\ Len(Cat(s, t)) = Len(s) + Len(t)
  BY CatTyped
<1>2. Len(s) \in Nat /\ Len(t) \in Nat
  OBVIOUS
<1>3. \A i \in 1..Len(s) : Cat(s, t)[i] = s[i]
  BY DEF Cat
<1>4. \A i \in 1..Len(t) : Cat(s, t)[Len(s) + i] = t[i]
  BY DEF Cat
<1> QED
  BY <1>1, <1>2, <1>3, <1>4

LEMMA SubTyped ==
  ASSUME NEW S, NEW s \in Seq(S), NEW p \in Nat, NEW n \in Nat, p >= 1, n <= Len(s)
  PROVE  SubSeq(s, p, n) \in Seq(S)
  OBVIOUS

LEMMA MeetsFirst ==
  ASSUME NEW b, NEW p, NEW s \in Seq(Byte), NEW t \in Seq(Byte), Meets(b, p, Cat(s, t))
  PROVE  Meets(b, p, s)
<1>1. PICK k \in Nat, l \in Nat, m \in Nat, q \in Nat :
         /\ k = Len(s) /\ l = Len(t) /\ m = Len(b) /\ q = p
         /\ Len(Cat(s, t)) = k + l /\ b \in Seq(Byte) /\ q >= 1 /\ q <= m + 1
  <2>1. Len(s) \in Nat /\ Len(t) \in Nat /\ Len(Cat(s, t)) = Len(s) + Len(t)
    BY CatParts
  <2>2. b \in Seq(Byte) /\ Len(b) \in Nat /\ p \in Nat /\ p >= 1 /\ p <= Len(b) + 1
    BY DEF Meets
  <2> QED
    BY <2>1, <2>2, Zenon
<1>2. ASSUME NEW i \in 1..k, q - 1 + i <= m PROVE b[q - 1 + i] = s[i]
  <2>1. i \in 1..(k + l)
    BY <1>1
  <2>2. b[q - 1 + i] = Cat(s, t)[i]
    BY <1>1, <1>2, <2>1 DEF Meets
  <2>3. Cat(s, t)[i] = s[i]
    BY <1>1, CatParts
  <2> QED
    BY <2>2, <2>3
<1> QED
  BY <1>1, <1>2 DEF Meets

LEMMA MeetsSecond ==
  ASSUME NEW b, NEW p, NEW s \in Seq(Byte), NEW t \in Seq(Byte), NEW r \in Nat,
         r = p + Len(s), Meets(b, p, Cat(s, t)), Whole(b, p, s)
  PROVE  Meets(b, r, t)
<1>1. PICK k \in Nat, l \in Nat, m \in Nat, q \in Nat :
         /\ k = Len(s) /\ l = Len(t) /\ m = Len(b) /\ q = p
         /\ Len(Cat(s, t)) = k + l /\ b \in Seq(Byte) /\ q >= 1 /\ q <= m + 1
         /\ q + k <= m + 1 /\ r = q + k
  <2>1. Len(s) \in Nat /\ Len(t) \in Nat /\ Len(Cat(s, t)) = Len(s) + Len(t)
    BY CatParts
  <2>2. b \in Seq(Byte) /\ Len(b) \in Nat /\ p \in Nat /\ p >= 1 /\ p <= Len(b) + 1
        /\ p + Len(s) <= Len(b) + 1
    BY DEF Meets, Whole
  <2> QED
    BY <2>1, <2>2, Zenon
<1>2. ASSUME NEW i \in 1..l, r - 1 + i <= m PROVE b[r - 1 + i] = t[i]
  <2>1. PICK j \in 1..(k + l) : j = k + i /\ q - 1 + j = r - 1 + i
    <3>1. r = q + k
      BY <1>1
    <3>2. k + i \in 1..(k + l) /\ q - 1 + (k + i) = r - 1 + i
      BY <3>1
    <3> QED
      BY <3>2
  <2>2. b[q - 1 + j] = Cat(s, t)[j]
    BY <1>1, <1>2, <2>1 DEF Meets
  <2>3. Cat(s, t)[k + i] = t[i]
    BY <1>1, CatParts
  <2> QED
    BY <2>1, <2>2, <2>3
<1>3. r >= 1 /\ r <= m + 1
  BY <1>1
<1> QED
  BY <1>1, <1>2, <1>3 DEF Meets

LEMMA MeetsSub ==
  ASSUME NEW b, NEW p, NEW s, NEW n \in Nat, n = Len(s), Meets(b, p, s), Whole(b, p, s)
  PROVE  SubSeq(b, p, p + n - 1) = s
<1>1. PICK m \in Nat, q \in Nat :
         /\ m = Len(b) /\ q = p /\ q >= 1 /\ q + n <= m + 1
         /\ b \in Seq(Byte) /\ s \in Seq(Byte)
  BY DEF Meets, Whole
<1>2. ASSUME NEW i \in 1..n PROVE b[q - 1 + i] = s[i]
  <2>1. q - 1 + i <= m
    BY <1>1
  <2> QED
    BY <1>1, <2>1 DEF Meets
<1>3. PICK u : u = SubSeq(b, q, q + n - 1)
  OBVIOUS
<1>4. u \in Seq(Byte) /\ Len(u) = n /\ \A i \in 1..n : u[i] = b[q - 1 + i]
  <2>1. q + n - 1 - q + 1 = n
    OBVIOUS
  <2>2. u = [i \in 1..n |-> b[q - 1 + i]]
    BY <1>1, <1>3
  <2>3. \A i \in 1..n : b[q - 1 + i] \in Byte
    <3> SUFFICES ASSUME NEW i \in 1..n PROVE b[q - 1 + i] \in Byte
      OBVIOUS
    <3>1. q - 1 + i \in 1..m
      BY <1>1
    <3> QED
      BY <1>1, <3>1
  <2> QED
    BY <2>2, <2>3
<1>5. \A i \in 1..n : u[i] = s[i]
  BY <1>2, <1>4
<1>6. u = s
  BY <1>1, <1>4, <1>5, SeqEqual
<1> QED
  BY <1>1, <1>3, <1>6
-----------------------------------------------------------------------------
(* The readers of single fields.                                           *)
Stops(b, p) == {k \in 1..MaxVarInt : p + k - 1 <= Len(b) /\ b[p + k - 1] < 128}

LEMMA ReadVarIntIs ==
  ASSUME NEW b, NEW p
  PROVE  /\ Stops(b, p) # {} =>
              ReadVarInt(b, p) = Got(Number(SubSeq(b, p, p + Min(Stops(b, p)) - 1)),
                                     p + Min(Stops(b, p)))
         /\ Stops(b, p) = {} /\ p + MaxVarInt - 1 <= Len(b) =>
              ReadVarInt(b, p) = Malformed(0, p + MaxVarInt)
         /\ Stops(b, p) = {} /\ ~ (p + MaxVarInt - 1 <= Len(b)) =>
              ReadVarInt(b, p) = Short(0, b)
  BY Zenon DEF ReadVarInt, Stops

(* The first byte without a mark is the last one of the number.            *)
LEMMA VarIntAt ==
  ASSUME NEW b, NEW p, NEW s, NEW v, NEW n, Encodes(s, v, n), Meets(b, p, s)
  PROVE  /\ Whole(b, p, s) => ReadVarInt(b, p) = Got(v, p + Len(s))
         /\ ~ Whole(b, p, s) => ReadVarInt(b, p) = Short(0, b)
<1>1. PICK m \in Nat, q \in Nat, l \in Nat, w \in Nat :
         /\ m = Len(b) /\ q = p /\ l = n /\ w = MaxVarInt
         /\ q >= 1 /\ q <= m + 1 /\ l >= 1 /\ l <= w /\ Len(s) = l
         /\ b \in Seq(Byte) /\ s \in Seq(Byte)
  BY VarIntAssumption DEF Encodes, Meets
<1>2. ASSUME NEW i \in 1..l, q - 1 + i <= m PROVE b[q + i - 1] = s[i]
  <2>1. q - 1 + i = q + i - 1
    OBVIOUS
  <2> QED
    BY <1>1, <1>2, <2>1 DEF Meets
<1>3. s[l] < 128
  BY <1>1 DEF Encodes
<1>4. ASSUME NEW i \in 1..(l - 1) PROVE ~ (s[i] < 128)
  <2>1. i - 1 \in Nat /\ v \in Nat
    BY DEF Encodes
  <2>2. PICK x \in Nat : x = Shifted(v, i - 1)
    BY <2>1, ShiftedSteps
  <2>3. s[i] = (x % 128) + 128
    BY <1>1, <2>2 DEF Encodes
  <2>4. x % 128 \in 0..127
    OBVIOUS
  <2> QED
    BY <2>3, <2>4
<1>5. ASSUME NEW k \in Stops(b, p) PROVE k \in Nat /\ k >= l /\ q + k - 1 <= m
  <2>1. k \in Nat /\ k >= 1 /\ q + k - 1 <= m /\ b[q + k - 1] < 128
    BY <1>1 DEF Stops
  <2>2. CASE k < l
    <3>1. k \in 1..(l - 1) /\ k \in 1..l /\ q - 1 + k <= m
      BY <2>1, <2>2
    <3>2. b[q + k - 1] = s[k]
      BY <1>2, <3>1
    <3> QED
      BY <1>4, <2>1, <3>1, <3>2
  <2> QED
    BY <2>1, <2>2
<1>6. CASE Whole(b, p, s)
  <2>1. q + l <= m + 1
    BY <1>1, <1>6 DEF Whole
  <2>2. b[q + l - 1] = s[l]
    <3>1. l \in 1..l /\ q - 1 + l <= m
      BY <1>1, <2>1
    <3> QED
      BY <1>2, <3>1
  <2>3. l \in Stops(b, p)
    <3>1. l \in 1..w /\ q + l - 1 <= m
      BY <1>1, <2>1
    <3> QED
      BY <1>1, <1>3, <2>2, <3>1 DEF Stops
  <2>4. Stops(b, p) \subseteq Nat /\ Stops(b, p) # {}
    BY <1>5, <2>3
  <2>5. PICK k \in Nat : k = Min(Stops(b, p)) /\ k \in Stops(b, p) /\ k <= l
    BY <2>3, <2>4, MinIs
  <2>6. k = l
    BY <1>5, <2>5
  <2>7. ReadVarInt(b, p) = Got(Number(SubSeq(b, p, p + l - 1)), p + l)
    BY <2>4, <2>5, <2>6, ReadVarIntIs, Zenon
  <2>8. SubSeq(b, p, p + l - 1) = s
    <3>1. l = Len(s)
      BY <1>1
    <3> QED
      BY <1>6, <3>1, MeetsSub
  <2>9. Number(s) = v
    BY NumberOf
  <2> QED
    BY <1>1, <1>6, <2>7, <2>8, <2>9, Zenon
<1>7. CASE ~ Whole(b, p, s)
  <2>1. ~ (q + l <= m + 1)
    BY <1>1, <1>7 DEF Whole
  <2>2. Stops(b, p) = {}
    <3> SUFFICES ASSUME NEW k \in Stops(b, p) PROVE FALSE
      OBVIOUS
    <3>1. k \in Nat /\ k >= l /\ q + k - 1 <= m
      BY <1>5
    <3> QED
      BY <2>1, <3>1
  <2>3. ~ (p + MaxVarInt - 1 <= Len(b))
    <3>1. ~ (q + w - 1 <= m)
      BY <1>1, <2>1
    <3> QED
      BY <1>1, <3>1, Zenon
  <2> QED
    BY <1>7, <2>2, <2>3, ReadVarIntIs, Zenon
<1> QED
  BY <1>6, <1>7

(* What a read of any stream, at any place, has for a result.              *)
Placed(r) == r.next \in Nat /\ r.next >= 1

LEMMA VarIntTyped ==
  ASSUME NEW b \in Seq(Byte), NEW p \in Nat, p >= 1
  PROVE  Placed(ReadVarInt(b, p)) /\ ReadVarInt(b, p).val \in Nat
<1>1. PICK m \in Nat, w \in Nat : m = Len(b) /\ w = MaxVarInt
  BY VarIntAssumption
<1>2. CASE Stops(b, p) # {}
  <2>1. Stops(b, p) \subseteq Nat
    BY <1>1 DEF Stops
  <2>2. PICK k \in Nat : k = Min(Stops(b, p)) /\ k \in Stops(b, p)
    BY <1>2, <2>1, MinIs
  <2>3. p + k - 1 <= m /\ k >= 1
    BY <1>1, <2>2 DEF Stops
  <2>4. ReadVarInt(b, p) = Got(Number(SubSeq(b, p, p + k - 1)), p + k)
    BY <1>2, <2>2, ReadVarIntIs, Zenon
  <2>5. PICK u \in Seq(Byte) : u = SubSeq(b, p, p + k - 1)
    <3>1. p + k - 1 \in Nat
      OBVIOUS
    <3> QED
      BY <1>1, <2>3, <3>1, SubTyped
  <2>6. Number(u) \in Nat
    BY NumberTyped
  <2> QED
    BY <2>4, <2>5, <2>6 DEF Got, Placed
<1>3. CASE Stops(b, p) = {} /\ p + MaxVarInt - 1 <= Len(b)
  <2>1. ReadVarInt(b, p) = Malformed(0, p + w)
    BY <1>1, <1>3, ReadVarIntIs, Zenon
  <2> QED
    BY <2>1 DEF Malformed, Placed
<1>4. CASE Stops(b, p) = {} /\ ~ (p + MaxVarInt - 1 <= Len(b))
  <2>1. ReadVarInt(b, p) = Short(0, b)
    BY <1>4, ReadVarIntIs, Zenon
  <2> QED
    BY <1>1, <2>1 DEF Short, Placed
<1> QED
  BY <1>2, <1>3, <1>4

CutOff(b, n) == n.next + n.val - 1 > Len(b)
Behind(b, n) == Got(SubSeq(b, n.next, n.next + n.val - 1), n.next + n.val)

LEMMA ReadStringIs ==
  ASSUME NEW b, NEW p, NEW n, n = ReadVarInt(b, p)
  PROVE  /\ n.end # "got" => ReadString(b, p) = [n EXCEPT !.val = <<>>]
         /\ n.end = "got" /\ CutOff(b, n) => ReadString(b, p) = Short(<<>>, b)
         /\ n.end = "got" /\ ~ CutOff(b, n) =>
              ReadString(b, p) = Behind(b, n)
  BY Zenon DEF ReadString, CutOff, Behind

LEMMA StringIs ==
  ASSUME NEW s \in Seq(Byte), Len(s) \in Uints
  PROVE  /\ WriteString(s) = Cat(WriteVarInt(Len(s)), s)
         /\ WriteString(s) \in Seq(Byte)
<1>1. PICK n : Encodes(WriteVarInt(Len(s)), Len(s), n)
  BY VarIntIs
<1>2. WriteVarInt(Len(s)) \in Seq(Byte)
  BY <1>1 DEF Encodes
<1>3. WriteString(s) = Cat(WriteVarInt(Len(s)), s)
  BY Zenon DEF WriteString, Cat
<1> QED
  BY <1>2, <1>3, CatParts

(* A string that is there is read back, one that is cut off is empty.      *)
LEMMA StringAt ==
  ASSUME NEW b, NEW p, NEW s \in Seq(Byte), Len(s) \in Uints, Meets(b, p, WriteString(s))
  PROVE  /\ Whole(b, p, WriteString(s)) => ReadString(b, p) = Got(s, p + Len(WriteString(s)))
         /\ ~ Whole(b, p, WriteString(s)) => ReadString(b, p) = Short(<<>>, b)
<1>1. PICK h : h = WriteVarInt(Len(s))
  OBVIOUS
<1>2. PICK j : Encodes(h, Len(s), j)
  BY <1>1, VarIntIs
<1>3. h \in Seq(Byte)
  BY <1>2 DEF Encodes
<1>4. PICK t \in Seq(Byte) : t = WriteString(s) /\ t = Cat(h, s)
  BY <1>1, StringIs, Zenon
<1>5. PICK k \in Nat, l \in Nat, m \in Nat, q \in Nat :
         k = Len(h) /\ l = Len(s) /\ Len(t) = k + l /\ m = Len(b) /\ q = p /\ q <= m + 1
  BY <1>3, <1>4, CatParts DEF Meets
<1>6. Meets(b, p, Cat(h, s)) /\ Meets(b, p, h)
  BY <1>3, <1>4, MeetsFirst, Zenon
<1>7. PICK r \in Nat : r = p + Len(h) /\ r = q + k
  BY <1>5
<1>8. CASE ~ Whole(b, p, h)
  <2>1. ReadVarInt(b, p) = Short(0, b)
    BY <1>2, <1>6, <1>8, VarIntAt
  <2>2. Short(0, b).end # "got" /\ [Short(0, b) EXCEPT !.val = <<>>] = Short(<<>>, b)
    BY DEF Short
  <2>3. ReadString(b, p) = Short(<<>>, b)
    BY <2>1, <2>2, ReadStringIs, Zenon
  <2>4. ~ Whole(b, p, t)
    <3>1. ~ (q + k <= m + 1)
      BY <1>5, <1>8 DEF Whole
    <3>2. ~ (q + (k + l) <= m + 1)
      BY <3>1
    <3> QED
      BY <1>5, <3>2 DEF Whole
  <2> QED
    BY <1>4, <2>3, <2>4, Zenon
<1>9. CASE Whole(b, p, h)
  <2>1. ReadVarInt(b, p) = Got(l, r)
    BY <1>2, <1>5, <1>6, <1>7, <1>9, VarIntAt, SMTT(20)
  <2>2. Got(l, r).end = "got" /\ Got(l, r).next = r /\ Got(l, r).val = l
    BY DEF Got
  <2>3. Meets(b, r, s)
    BY <1>3, <1>6, <1>7, <1>9, MeetsSecond
  <2>4. CASE r + l - 1 > m
    <3>1. ReadString(b, p) = Short(<<>>, b)
      <4>1. PICK n : n = ReadVarInt(b, p) /\ n.end = "got" /\ n.next = r /\ n.val = l
        BY <2>1, <2>2
      <4>2. CutOff(b, n)
        BY <1>5, <2>4, <4>1 DEF CutOff
      <4> QED
        BY <4>1, <4>2, ReadStringIs, Zenon
    <3>2. ~ Whole(b, p, t)
      <4>1. ~ (q + (k + l) <= m + 1)
        BY <1>7, <2>4
      <4> QED
        BY <1>5, <4>1 DEF Whole
    <3> QED
      BY <1>4, <3>1, <3>2, Zenon
  <2>5. CASE ~ (r + l - 1 > m)
    <3>1. ReadString(b, p) = Got(SubSeq(b, r, r + l - 1), r + l)
      <4>1. PICK n : n = ReadVarInt(b, p) /\ n.end = "got" /\ n.next = r /\ n.val = l
        BY <2>1, <2>2
      <4>2. ~ CutOff(b, n)
        BY <1>5, <2>5, <4>1 DEF CutOff
      <4>3. ReadString(b, p) = Behind(b, n)
        BY <4>1, <4>2, ReadStringIs, Zenon
      <4> QED
        BY <4>1, <4>3 DEF Behind
    <3>2. Whole(b, r, s)
      BY <1>5, <2>5 DEF Whole
    <3>3. SubSeq(b, r, r + l - 1) = s
      <4>1. l = Len(s)
        BY <1>5
      <4> QED
        BY <2>3, <3>2, <4>1, MeetsSub
    <3>4. r + l = p + Len(t)
      BY <1>5, <1>7
    <3>5. Whole(b, p, t)
      <4>1. q + (k + l) <= m + 1
        BY <1>7, <2>5
      <4> QED
        BY <1>5, <4>1 DEF Whole
    <3> QED
      BY <1>4, <3>1, <3>3, <3>4, <3>5, Zenon
  <2> QED
    BY <2>4, <2>5
<1> QED
  BY <1>8, <1>9

LEMMA StringTyped ==
  ASSUME NEW b \in Seq(Byte), NEW p \in Nat, p >= 1
  PROVE  Placed(ReadString(b, p)) /\ ReadString(b, p).val \in Seq(Byte)
<1>1. PICK m \in Nat : m = Len(b)
  BY LenProperties
<1>2. PICK n : n = ReadVarInt(b, p)
  OBVIOUS
<1>3. PICK q \in Nat, v \in Nat : q = n.next /\ v = n.val /\ q >= 1
  BY <1>2, VarIntTyped DEF Placed
<1>4. <<>> \in Seq(Byte)
  BY EmptySeq
<1>5. CASE n.end # "got"
  <2>1. ReadString(b, p) = [n EXCEPT !.val = <<>>]
    BY <1>2, <1>5, ReadStringIs, Zenon
  <2>2. n = Got(v, q) \/ n = Malformed(v, q) \/ n = Short(v, b)
    <3>1. CASE Stops(b, p) # {}
      BY <1>2, <1>3, <3>1, ReadVarIntIs DEF Got
    <3>2. CASE Stops(b, p) = {} /\ p + MaxVarInt - 1 <= Len(b)
      BY <1>2, <1>3, <3>2, ReadVarIntIs DEF Malformed
    <3>3. CASE Stops(b, p) = {} /\ ~ (p + MaxVarInt - 1 <= Len(b))
      BY <1>2, <1>3, <3>3, ReadVarIntIs DEF Short
    <3> QED
      BY <3>1, <3>2, <3>3
  <2>3. [n EXCEPT !.val = <<>>].val = <<>> /\ [n EXCEPT !.val = <<>>].next = n.next
    BY <2>2 DEF Got, Malformed, Short
  <2> QED
    BY <1>3, <1>4, <2>1, <2>3 DEF Placed
<1>6. CASE n.end = "got" /\ CutOff(b, n)
  <2>1. ReadString(b, p) = Short(<<>>, b)
    BY <1>2, <1>6, ReadStringIs, Zenon
  <2> QED
    BY <1>1, <1>4, <2>1 DEF Short, Placed
<1>7. CASE n.end = "got" /\ ~ CutOff(b, n)
  <2>0. ReadString(b, p) = Behind(b, n)
    BY <1>2, <1>7, ReadStringIs, Zenon
  <2>1. ReadString(b, p) = Got(SubSeq(b, q, q + v - 1), q + v)
    BY <1>3, <2>0 DEF Behind
  <2>2. q + v - 1 \in Nat /\ q + v - 1 <= m
    BY <1>1, <1>3, <1>7 DEF CutOff
  <2>3. SubSeq(b, q, q + v - 1) \in Seq(Byte)
    BY <1>1, <1>3, <2>2, SubTyped
  <2>4. q + v \in Nat /\ q + v >= 1
    BY <1>3
  <2>5. PICK u \in Seq(Byte), e \in Nat : u = SubSeq(b, q, q + v - 1) /\ e = q + v /\ e >= 1
    BY <2>3, <2>4
  <2>6. ReadString(b, p) = Got(u, e)
    BY <2>1, <2>5
  <2> QED
    BY <2>5, <2>6 DEF Got, Placed
<1> QED
  BY <1>5, <1>6, <1>7

Zeros == [i \in 1..4 |-> 0]

LEMMA FixedAt ==
  ASSUME NEW b, NEW p, NEW v \in Byte, Meets(b, p, [i \in 1..4 |-> v])
  PROVE  /\ Whole(b, p, [i \in 1..4 |-> v]) =>
              ReadFixed(b, p, 4) = Got([i \in 1..4 |-> v], p + Len([i \in 1..4 |-> v]))
         /\ ~ Whole(b, p, [i \in 1..4 |-> v]) => ReadFixed(b, p, 4) = Short(Zeros, b)
<1>1. PICK s \in Seq(Byte) : s = [i \in 1..4 |-> v] /\ Len(s) = 4
  <2>1. [i \in 1..4 |-> v] \in Seq(Byte) /\ Len([i \in 1..4 |-> v]) = 4
    OBVIOUS
  <2> QED
    BY <2>1, Zenon
<1>2. PICK m \in Nat, q \in Nat : m = Len(b) /\ q = p
  BY DEF Meets
<1>3. CASE Whole(b, p, s)
  <2>1. ~ (p + 4 - 1 > Len(b))
    BY <1>1, <1>2, <1>3 DEF Whole
  <2>2. ReadFixed(b, p, 4) = Got(SubSeq(b, p, p + 4 - 1), p + 4)
    BY <2>1, Zenon DEF ReadFixed
  <2>3. SubSeq(b, p, p + 4 - 1) = s
    <3>1. PICK l \in Nat : l = 4 /\ l = Len(s)
      BY <1>1
    <3>2. l = Len(s) /\ Meets(b, p, s)
      BY <1>1, <3>1
    <3>3. SubSeq(b, p, p + l - 1) = s
      BY <1>3, <3>2, MeetsSub
    <3> QED
      BY <3>1, <3>3
  <2> QED
    BY <1>1, <1>3, <2>2, <2>3, Zenon
<1>4. CASE ~ Whole(b, p, s)
  <2>1. p + 4 - 1 > Len(b)
    BY <1>1, <1>2, <1>4 DEF Whole
  <2>2. ReadFixed(b, p, 4) = Short(Zeros, b)
    BY <2>1, Zenon DEF ReadFixed, Zeros
  <2> QED
    BY <1>1, <1>4, <2>2, Zenon
<1> QED
  BY <1>1, <1>3, <1>4, Zenon

LEMMA FixedTyped ==
  ASSUME NEW b \in Seq(Byte), NEW p \in Nat, p >= 1
  PROVE  Placed(ReadFixed(b, p, 4))
<1>1. CASE p + 4 - 1 > Len(b)
  <2>1. ReadFixed(b, p, 4) = Short(Zeros, b)
    BY <1>1, Zenon DEF ReadFixed, Zeros
  <2>2. Len(b) \in Nat
    BY LenProperties
  <2> QED
    BY <2>1, <2>2 DEF Short, Placed
<1>2. CASE ~ (p + 4 - 1 > Len(b))
  <2>1. ReadFixed(b, p, 4) = Got(SubSeq(b, p, p + 4 - 1), p + 4)
    BY <1>2, Zenon DEF ReadFixed
  <2> QED
    BY <2>1 DEF Got, Placed
<1> QED
  BY <1>1, <1>2
-----------------------------------------------------------------------------
(* What a field holds for its reader, and what the reader gets of one that *)
(* is cut off.                                                             *)
FieldKinds == {"varint", "string", "uint32"}
Sendable(v, kind) ==
  \/ kind = "varint" /\ v \in Uints
  \/ kind = "string" /\ v \in Seq(Byte) /\ Len(v) \in Uints
  \/ kind = "uint32" /\ v \in Byte
Content(v, kind) == IF kind = "uint32" THEN [i \in 1..4 |-> v] ELSE v
Missing(kind) ==
  CASE kind = "varint" -> 0 [] kind = "string" -> <<>> [] kind = "uint32" -> Zeros

Reads(b, s, kind, x) ==
  \A p : Meets(b, p, s) =>
    /\ Whole(b, p, s) => ReadField(b, p, kind) = Got(x, p + Len(s))
    /\ ~ Whole(b, p, s) => ReadField(b, p, kind) = Short(Missing(kind), b)

LEMMA ByKind ==
  ASSUME NEW b, NEW p, NEW v
  PROVE  /\ ReadField(b, p, "varint") = ReadVarInt(b, p)
         /\ ReadField(b, p, "string") = ReadString(b, p)
         /\ ReadField(b, p, "uint32") = ReadFixed(b, p, 4)
         /\ Write(v, "varint") = WriteVarInt(v)
         /\ Write(v, "string") = WriteString(v)
         /\ Write(v, "uint32") = [i \in 1..4 |-> v]
         /\ Missing("varint") = 0 /\ Missing("string") = <<>> /\ Missing("uint32") = Zeros
<1>1. "varint" # "string" /\ "varint" # "uint32" /\ "string" # "uint32"
  OBVIOUS
<1>2. /\ ReadField(b, p, "varint") = ReadVarInt(b, p)
      /\ ReadField(b, p, "string") = ReadString(b, p)
      /\ ReadField(b, p, "uint32") = ReadFixed(b, p, 4)
  BY <1>1, Zenon DEF ReadField
<1>3. /\ Write(v, "varint") = WriteVarInt(v)
      /\ Write(v, "string") = WriteString(v)
      /\ Write(v, "uint32") = [i \in 1..4 |-> v]
  BY <1>1, Zenon DEF Write
<1>4. Missing("varint") = 0 /\ Missing("string") = <<>> /\ Missing("uint32") = Zeros
  BY <1>1, Zenon DEF Missing
<1> QED
  BY <1>2, <1>3, <1>4, Zenon

LEMMA FieldReads ==
  ASSUME NEW b, NEW v, NEW kind, Sendable(v, kind)
  PROVE  /\ Write(v, kind) \in Seq(Byte)
         /\ Reads(b, Write(v, kind), kind, Content(v, kind))
<1>0. "varint" # "uint32" /\ "string" # "uint32"
  OBVIOUS
<1>1. CASE kind = "varint" /\ v \in Uints
  <2>1. PICK n : Encodes(WriteVarInt(v), v, n)
    BY <1>1, VarIntIs
  <2>2. WriteVarInt(v) \in Seq(Byte)
    BY <2>1 DEF Encodes
  <2>3. ASSUME NEW p, Meets(b, p, WriteVarInt(v))
        PROVE  /\ Whole(b, p, WriteVarInt(v)) =>
                    ReadVarInt(b, p) = Got(v, p + Len(WriteVarInt(v)))
               /\ ~ Whole(b, p, WriteVarInt(v)) => ReadVarInt(b, p) = Short(0, b)
    BY <2>1, <2>3, VarIntAt
  <2>4. Content(v, kind) = v
    BY <1>0, <1>1, Zenon DEF Content
  <2> QED
    BY <1>1, <2>2, <2>3, <2>4, ByKind, Zenon DEF Reads
<1>2. CASE kind = "string" /\ v \in Seq(Byte) /\ Len(v) \in Uints
  <2>1. WriteString(v) \in Seq(Byte)
    BY <1>2, StringIs
  <2>2. ASSUME NEW p, Meets(b, p, WriteString(v))
        PROVE  /\ Whole(b, p, WriteString(v)) =>
                    ReadString(b, p) = Got(v, p + Len(WriteString(v)))
               /\ ~ Whole(b, p, WriteString(v)) => ReadString(b, p) = Short(<<>>, b)
    BY <1>2, <2>2, StringAt
  <2>3. Content(v, kind) = v
    BY <1>0, <1>2, Zenon DEF Content
  <2> QED
    BY <1>2, <2>1, <2>2, <2>3, ByKind, Zenon DEF Reads
<1>3. CASE kind = "uint32" /\ v \in Byte
  <2>1. [i \in 1..4 |-> v] \in Seq(Byte)
    BY <1>3
  <2>2. Content(v, kind) = [i \in 1..4 |-> v]
    BY <1>3, Zenon DEF Content
  <2>3. ASSUME NEW p, Meets(b, p, [i \in 1..4 |-> v])
        PROVE  /\ Whole(b, p, [i \in 1..4 |-> v]) =>
                    ReadFixed(b, p, 4) = Got([i \in 1..4 |-> v], p + Len([i \in 1..4 |-> v]))
               /\ ~ Whole(b, p, [i \in 1..4 |-> v]) => ReadFixed(b, p, 4) = Short(Zeros, b)
    <3>1. v \in Byte
      BY <1>3
    <3> QED
      BY <2>3, <3>1, FixedAt
  <2> QED
    BY <1>3, <2>1, <2>2, <2>3, ByKind, Zenon DEF Reads
<1> QED
  BY <1>1, <1>2, <1>3 DEF Sendable

LEMMA FieldTyped ==
  ASSUME NEW b \in Seq(Byte), NEW p \in Nat, p >= 1, NEW kind \in FieldKinds
  PROVE  /\ Placed(ReadField(b, p, kind))
         /\ kind = "string" => ReadField(b, p, kind).val \in Seq(Byte)
<1>0. "varint" # "string" /\ "uint32" # "string"
  OBVIOUS
<1>1. CASE kind = "varint"
  <2>1. Placed(ReadVarInt(b, p))
    BY VarIntTyped
  <2> QED
    BY <1>0, <1>1, <2>1, ByKind, Zenon
<1>2. CASE kind = "string"
  BY <1>2, ByKind, StringTyped
<1>3. CASE kind = "uint32"
  <2>1. Placed(ReadFixed(b, p, 4))
    BY FixedTyped
  <2> QED
    BY <1>0, <1>3, <2>1, ByKind, Zenon
<1> QED
  BY <1>1, <1>2, <1>3 DEF FieldKinds

-----------------------------------------------------------------------------
(* The fields of a packet, one after the other: f holds what has been read *)
(* after each of them.                                                     *)
Reading(f, b, p, kinds, n) ==
  f = [i \in 0..n |-> IF i = 0 THEN Got(<<>>, p) ELSE ReadNext(f[i - 1], b, kinds[i])]
Chosen(x, b, kind) == CHOOSE r \in {ReadNext(y, b, kind) : y \in {x}} : TRUE
ReadingChosen(f, b, p, kinds, n) ==
  f = [i \in 0..n |-> IF i = 0 THEN Got(<<>>, p) ELSE Chosen(f[i - 1], b, kinds[i])]

LEMMA ChosenIs ==
  ASSUME NEW x, NEW b, NEW kind
  PROVE  Chosen(x, b, kind) = ReadNext(x, b, kind)
<1> DEFINE S == {ReadNext(y, b, kind) : y \in {x}}
<1>1. PICK g : g = ReadNext(x, b, kind)
  OBVIOUS
<1>2. S = {g}
  <2>1. \A y : y \in {x} <=> y = x
    OBVIOUS
  <2>2. \A r : r \in S <=> r = g
    BY <1>1, <2>1, Zenon
  <2> HIDE DEF S
  <2> QED
    BY <2>2
<1> HIDE DEF S
<1>3. (CHOOSE r \in S : TRUE) = g
  BY <1>2
<1>4. Chosen(x, b, kind) = CHOOSE r \in S : TRUE
  BY Zenon DEF Chosen, S
<1> QED
  BY <1>1, <1>3, <1>4

LEMMA ReadingSame ==
  ASSUME NEW f, NEW b, NEW p, NEW kinds, NEW n \in Nat
  PROVE  ReadingChosen(f, b, p, kinds, n) <=> Reading(f, b, p, kinds, n)
<1> DEFINE g == [i \in 0..n |-> IF i = 0 THEN Got(<<>>, p) ELSE Chosen(f[i - 1], b, kinds[i])]
           h == [i \in 0..n |-> IF i = 0 THEN Got(<<>>, p) ELSE ReadNext(f[i - 1], b, kinds[i])]
<1>1. ASSUME NEW i \in 0..n PROVE g[i] = h[i]
  <2>1. Chosen(f[i - 1], b, kinds[i]) = ReadNext(f[i - 1], b, kinds[i])
    BY ChosenIs
  <2> QED
    BY <2>1, Zenon
<1>2. DOMAIN g = 0..n /\ DOMAIN h = 0..n /\ g = [i \in 0..n |-> g[i]] /\ h = [i \in 0..n |-> h[i]]
  OBVIOUS
<1>3. g = h
  <2> HIDE DEF g, h
  <2> QED
    BY <1>1, <1>2
<1> QED
  BY <1>3, Zenon DEF ReadingChosen, Reading

LEMMA ReadingExtended ==
  ASSUME NEW b, NEW p, NEW kinds, NEW f, NEW n \in Nat, Reading(f, b, p, kinds, n)
  PROVE  \E g : Reading(g, b, p, kinds, n + 1)
<1> DEFINE x == ReadNext(f[n], b, kinds[n + 1])
           g == [i \in 0..(n + 1) |-> IF i = n + 1 THEN x ELSE f[i]]
<1>1. ASSUME NEW i \in 0..(n + 1)
      PROVE  g[i] = IF i = 0 THEN Got(<<>>, p) ELSE ReadNext(g[i - 1], b, kinds[i])
  <2>1. CASE i = n + 1
    <3>1. i # 0 /\ i - 1 = n /\ g[n] = f[n] /\ g[i] = x
      BY <2>1
    <3> QED
      BY <2>1, <3>1
  <2>2. CASE i # n + 1
    <3>1. i \in 0..n /\ g[i] = f[i] /\ (i # 0 => g[i - 1] = f[i - 1])
      BY <2>2
    <3>2. f[i] = IF i = 0 THEN Got(<<>>, p) ELSE ReadNext(f[i - 1], b, kinds[i])
      BY <3>1 DEF Reading
    <3> QED
      BY <3>1, <3>2
  <2> QED
    BY <2>1, <2>2
<1>2. g = [i \in 0..(n + 1) |-> g[i]]
  OBVIOUS
<1> HIDE DEF g
<1>3. Reading(g, b, p, kinds, n + 1)
  BY <1>1, <1>2 DEF Reading
<1> QED
  BY <1>3

LEMMA ReadingExists ==
  ASSUME NEW b, NEW p, NEW kinds, NEW m \in Nat
  PROVE  \E f : Reading(f, b, p, kinds, m)
<1> DEFINE Good == {n \in 0..m : \E f : Reading(f, b, p, kinds, n)}
<1>1. 0 \in Good
  <2> DEFINE f == [i \in 0..0 |-> Got(<<>>, p)]
  <2>1. Reading(f, b, p, kinds, 0)
    BY DEF Reading
  <2> HIDE DEF f
  <2> QED
    BY <2>1
<1>2. \A n \in 0..(m - 1) : n \in Good => n + 1 \in Good
  BY ReadingExtended
<1>3. \A n \in 0..m : n \in Good
  <2> HIDE DEF Good
  <2> QED
    BY <1>1, <1>2, UpTo
<1> QED
  BY <1>3

LEMMA ReadFieldsIs ==
  ASSUME NEW b, NEW p, NEW kinds, NEW n \in Nat, Len(kinds) = n
  PROVE  \E f : Reading(f, b, p, kinds, n) /\ ReadFields(b, p, kinds) = f[n]
<1> DEFINE f == CHOOSE f : ReadingChosen(f, b, p, kinds, n)
<1>1. PICK g : Reading(g, b, p, kinds, n)
  BY ReadingExists
<1>2. ReadingChosen(g, b, p, kinds, n)
  BY <1>1, ReadingSame
<1>3. ReadingChosen(f, b, p, kinds, n)
  BY <1>2
<1>4. Reading(f, b, p, kinds, n)
  <2> HIDE DEF f
  <2> QED
    BY <1>3, ReadingSame
<1>5. ReadFields(b, p, kinds) = f[n]
  BY Zenon DEF ReadFields, ReadingChosen, Chosen
<1> QED
  BY <1>4, <1>5

LEMMA ReadingSteps ==
  ASSUME NEW b, NEW p, NEW kinds, NEW f, NEW n \in Nat, Reading(f, b, p, kinds, n)
  PROVE  /\ f[0] = Got(<<>>, p)
         /\ \A j \in 1..n : f[j] = ReadNext(f[j - 1], b, kinds[j])
<1>1. f[0] = Got(<<>>, p)
  BY DEF Reading
<1>2. ASSUME NEW j \in 1..n PROVE f[j] = ReadNext(f[j - 1], b, kinds[j])
  <2>1. j \in 0..n /\ j # 0
    OBVIOUS
  <2> QED
    BY <2>1 DEF Reading
<1> QED
  BY <1>1, <1>2

-----------------------------------------------------------------------------
LEMMA NotEmpty ==
  ASSUME NEW v, NEW kind, Sendable(v, kind)
  PROVE  Len(Write(v, kind)) >= 1
<1>1. CASE kind = "varint" /\ v \in Uints
  <2>1. PICK n : Encodes(WriteVarInt(v), v, n)
    BY <1>1, VarIntIs
  <2>2. Len(WriteVarInt(v)) >= 1
    BY <2>1, VarIntAssumption DEF Encodes
  <2> QED
    BY <1>1, <2>2, ByKind, Zenon
<1>2. CASE kind = "string" /\ v \in Seq(Byte) /\ Len(v) \in Uints
  <2>1. PICK n : Encodes(WriteVarInt(Len(v)), Len(v), n)
    BY <1>2, VarIntIs
  <2>2. PICK h \in Seq(Byte) : h = WriteVarInt(Len(v)) /\ Len(h) >= 1
    BY <2>1, VarIntAssumption DEF Encodes
  <2>3. WriteString(v) = Cat(h, v)
    BY <1>2, <2>2, StringIs
  <2>4. Len(Cat(h, v)) >= 1
    <3>1. Len(Cat(h, v)) = Len(h) + Len(v) /\ Len(h) \in Nat /\ Len(v) \in Nat
      BY <1>2, CatParts
    <3> QED
      BY <2>2, <3>1
  <2> QED
    BY <1>2, <2>3, <2>4, ByKind, Zenon
<1>3. CASE kind = "uint32" /\ v \in Byte
  <2>1. Len([i \in 1..4 |-> v]) >= 1
    OBVIOUS
  <2> QED
    BY <1>3, <2>1, ByKind, Zenon
<1> QED
  BY <1>1, <1>2, <1>3 DEF Sendable

(* The bytes behind the first i of the sequences of w.                     *)
RestOf(w, i) == FlattenSeq(SubSeq(w, i + 1, Len(w)))

LEMMA Rests ==
  ASSUME NEW w \in Seq(Seq(Byte)), NEW n \in Nat, n = Len(w)
  PROVE  /\ RestOf(w, 0) = FlattenSeq(w) /\ RestOf(w, n) = <<>>
         /\ \A i \in 0..n : RestOf(w, i) \in Seq(Byte)
         /\ \A j \in 1..n : RestOf(w, j - 1) = Cat(w[j], RestOf(w, j))
<1>0. Len(w) = n
  OBVIOUS
<1>1. RestOf(w, 0) = FlattenSeq(w)
  <2>1. 0 + 1 = 1 /\ SubSeq(w, 1, Len(w)) = w
    OBVIOUS
  <2> QED
    BY <2>1 DEF RestOf
<1>2. RestOf(w, n) = <<>>
  <2>1. SubSeq(w, n + 1, Len(w)) = <<>>
    OBVIOUS
  <2> QED
    BY <2>1, FlattenEmpty DEF RestOf
<1>3. ASSUME NEW i \in 0..n PROVE RestOf(w, i) \in Seq(Byte)
  <2>1. SubSeq(w, i + 1, Len(w)) \in Seq(Seq(Byte))
    OBVIOUS
  <2> QED
    BY <2>1, FlattenTyped DEF RestOf
<1>4. ASSUME NEW j \in 1..n PROVE RestOf(w, j - 1) = Cat(w[j], RestOf(w, j))
  <2>0. j \in 1..Len(w)
    BY <1>0
  <2>1. PICK s \in Seq(Seq(Byte)) :
          s = SubSeq(w, j, Len(w)) /\ s # <<>> /\ s[1] = w[j]
          /\ Tail(s) = SubSeq(w, j + 1, Len(w))
    BY <2>0, RestShortened
  <2>2. (j - 1) + 1 = j
    OBVIOUS
  <2>3. FlattenSeq(s) = Cat(s[1], FlattenSeq(Tail(s)))
    BY <2>1, FlattenTail
  <2> QED
    BY <2>1, <2>2, <2>3 DEF RestOf
<1> QED
  BY <1>1, <1>2, <1>3, <1>4

Written(v, kinds) == [i \in DOMAIN kinds |-> Write(v[i], kinds[i])]
Packed(v, kinds, n) ==
  /\ kinds \in Seq(FieldKinds) /\ n = Len(kinds)
  /\ \A i \in 1..n : Sendable(v[i], kinds[i])

LEMMA WrittenIs ==
  ASSUME NEW v, NEW kinds, NEW n \in Nat, Packed(v, kinds, n)
  PROVE  /\ Written(v, kinds) \in Seq(Seq(Byte)) /\ Len(Written(v, kinds)) = n
         /\ \A i \in 1..n : Written(v, kinds)[i] = Write(v[i], kinds[i])
         /\ Fields(v, kinds) = RestOf(Written(v, kinds), 0)
         /\ Fields(v, kinds) \in Seq(Byte)
<1>1. DOMAIN kinds = 1..n
  BY DEF Packed
<1>2. ASSUME NEW i \in 1..n PROVE Write(v[i], kinds[i]) \in Seq(Byte)
  BY FieldReads DEF Packed
<1>3. Written(v, kinds) = [i \in 1..n |-> Write(v[i], kinds[i])]
  BY <1>1, Zenon DEF Written
<1>4. Written(v, kinds) \in Seq(Seq(Byte)) /\ Len(Written(v, kinds)) = n
      /\ \A i \in 1..n : Written(v, kinds)[i] = Write(v[i], kinds[i])
  BY <1>2, <1>3
<1>5. PICK w \in Seq(Seq(Byte)) : w = Written(v, kinds) /\ n = Len(w)
  BY <1>4
<1>6. Fields(v, kinds) = FlattenSeq(w)
  BY <1>5, Zenon DEF Fields, Written
<1>7. RestOf(w, 0) = FlattenSeq(w) /\ FlattenSeq(w) \in Seq(Byte)
  BY <1>5, Rests, FlattenTyped
<1> QED
  BY <1>4, <1>5, <1>6, <1>7

(* What a reader of the first i fields has when only the first j of them   *)
(* were whole.                                                             *)
Value(v, kinds, j, k) == IF k <= j THEN Content(v[k], kinds[k]) ELSE Missing(kinds[k])
AnyValue(v, kinds, n) ==
  {Content(v[k], kinds[k]) : k \in 1..n} \cup {Missing(kinds[k]) : k \in 1..n}
Holds(val, v, kinds, n, i, j) ==
  /\ val \in Seq(AnyValue(v, kinds, n)) /\ Len(val) = i
  /\ \A k \in 1..i : val[k] = Value(v, kinds, j, k)
Going(r, b, p, w, i) ==
  /\ r.end = "got" /\ Meets(b, r.next, RestOf(w, i))
  /\ r.next + Len(RestOf(w, i)) = p + Len(RestOf(w, 0))
Ended(r, b, p, w) ==
  r.end = "short" /\ r.next = Len(b) + 1 /\ ~ Whole(b, p, RestOf(w, 0))
Halfway(r, b, p, w, v, kinds, n, i, j) ==
  /\ Holds(r.val, v, kinds, n, i, j)
  /\ (j = i /\ Going(r, b, p, w, i)) \/ (j < i /\ Ended(r, b, p, w))

LEMMA HoldsMore ==
  ASSUME NEW val, NEW v, NEW kinds, NEW n \in Nat, NEW i \in 0..(n - 1), NEW j \in 0..i,
         NEW l \in 0..(i + 1), Holds(val, v, kinds, n, i, j),
         l = j \/ (j = i /\ l = i + 1)
  PROVE  Holds(Append(val, Value(v, kinds, l, i + 1)), v, kinds, n, i + 1, l)
<1>1. PICK x \in AnyValue(v, kinds, n) : x = Value(v, kinds, l, i + 1)
  <2>1. i + 1 \in 1..n
    OBVIOUS
  <2>2. Content(v[i + 1], kinds[i + 1]) \in AnyValue(v, kinds, n)
        /\ Missing(kinds[i + 1]) \in AnyValue(v, kinds, n)
    BY <2>1 DEF AnyValue
  <2> QED
    BY <2>2 DEF Value
<1>2. PICK s \in Seq(AnyValue(v, kinds, n)) : s = val /\ Len(s) = i
  BY DEF Holds
<1>3. ASSUME NEW k \in 1..i PROVE s[k] = Value(v, kinds, l, k)
  <2>1. s[k] = Value(v, kinds, j, k)
    BY <1>2 DEF Holds
  <2>2. k <= j <=> k <= l
    OBVIOUS
  <2> QED
    BY <2>1, <2>2, Zenon DEF Value
<1>4. Append(s, x) \in Seq(AnyValue(v, kinds, n)) /\ Len(Append(s, x)) = i + 1
      /\ Append(s, x)[i + 1] = x /\ \A k \in 1..i : Append(s, x)[k] = s[k]
  BY <1>2
<1>5. ASSUME NEW k \in 1..(i + 1) PROVE Append(s, x)[k] = Value(v, kinds, l, k)
  <2>1. k \in 1..i \/ k = i + 1
    OBVIOUS
  <2> QED
    BY <1>1, <1>3, <1>4, <2>1
<1> QED
  BY <1>1, <1>2, <1>4, <1>5 DEF Holds

LEMMA ReadNextIs ==
  ASSUME NEW r, NEW b, NEW kind, NEW f, f = ReadField(b, r.next, kind)
  PROVE  /\ ReadNext(r, b, kind).val = Append(r.val, f.val)
         /\ ReadNext(r, b, kind).next = f.next
         /\ f.end = "short" => ReadNext(r, b, kind).end = "short"
         /\ f.end # "short" => ReadNext(r, b, kind).end = r.end
<1>1. ReadNext(r, b, kind) = [val |-> Append(r.val, f.val), next |-> f.next,
                             end |-> IF f.end = "short" THEN f.end ELSE r.end]
  BY Zenon DEF ReadNext
<1> QED
  BY <1>1

LEMMA Further ==
  ASSUME NEW r, NEW b, NEW p, NEW w, NEW v, NEW kinds, NEW n \in Nat,
         NEW i \in 0..(n - 1), NEW j \in 0..i,
         b \in Seq(Byte), Packed(v, kinds, n), w = Written(v, kinds),
         Halfway(r, b, p, w, v, kinds, n, i, j)
  PROVE  \E l \in 0..(i + 1) :
           Halfway(ReadNext(r, b, kinds[i + 1]), b, p, w, v, kinds, n, i + 1, l)
<1>0. PICK o \in 1..n : o = i + 1 /\ o - 1 = i
  OBVIOUS
<1>1. PICK s \in Seq(Byte), t \in Seq(Byte) :
        /\ s = Write(v[o], kinds[o]) /\ t = RestOf(w, o) /\ RestOf(w, i) = Cat(s, t)
        /\ Len(s) >= 1 /\ Reads(b, s, kinds[o], Content(v[o], kinds[o]))
  <2>1. Sendable(v[o], kinds[o])
    BY DEF Packed
  <2>2. w \in Seq(Seq(Byte)) /\ n = Len(w) /\ w[o] = Write(v[o], kinds[o])
    BY WrittenIs
  <2>3. RestOf(w, o) \in Seq(Byte) /\ RestOf(w, o - 1) = Cat(w[o], RestOf(w, o))
    <3>1. n = Len(w)
      BY <2>2
    <3>2. o \in 0..n
      OBVIOUS
    <3> QED
      BY <2>2, <3>1, <3>2, Rests
  <2>4. Write(v[o], kinds[o]) \in Seq(Byte) /\ Len(Write(v[o], kinds[o])) >= 1
        /\ Reads(b, Write(v[o], kinds[o]), kinds[o], Content(v[o], kinds[o]))
    BY <2>1, FieldReads, NotEmpty
  <2> QED
    BY <1>0, <2>2, <2>3, <2>4
<1>2. PICK f : f = ReadField(b, r.next, kinds[o])
  OBVIOUS
<1>3. PICK g : g = ReadNext(r, b, kinds[o])
  OBVIOUS
<1>4. /\ g.val = Append(r.val, f.val) /\ g.next = f.next
      /\ f.end = "short" => g.end = "short"
      /\ f.end # "short" => g.end = r.end
  BY <1>2, <1>3, ReadNextIs
<1>5. Holds(r.val, v, kinds, n, i, j)
  BY DEF Halfway
<1>6. CASE j = i /\ Going(r, b, p, w, i) /\ Whole(b, r.next, s)
  <2>1. Meets(b, r.next, Cat(s, t)) /\ r.next + Len(Cat(s, t)) = p + Len(RestOf(w, 0))
    BY <1>1, <1>6 DEF Going
  <2>2. Meets(b, r.next, s)
    BY <2>1, MeetsFirst
  <2>3. f = Got(Content(v[o], kinds[o]), r.next + Len(s))
    BY <1>1, <1>2, <1>6, <2>2, Zenon DEF Reads
  <2>4. f.end = "got" /\ f.next = r.next + Len(s) /\ f.val = Content(v[o], kinds[o])
    BY <2>3 DEF Got
  <2>5. PICK q \in Nat : q = r.next
    BY <2>2 DEF Meets
  <2>6. PICK e \in Nat, k \in Nat, l \in Nat :
          e = q + k /\ k = Len(s) /\ l = Len(t) /\ Len(Cat(s, t)) = k + l
    <3>1. PICK k \in Nat, l \in Nat : k = Len(s) /\ l = Len(t) /\ Len(Cat(s, t)) = k + l
      BY CatParts
    <3>2. q + k \in Nat
      OBVIOUS
    <3> QED
      BY <3>1, <3>2
  <2>7. Meets(b, e, t)
    <3>1. e = r.next + Len(s)
      BY <2>5, <2>6
    <3> QED
      BY <1>6, <2>1, <3>1, MeetsSecond
  <2>8. e + l = p + Len(RestOf(w, 0))
    <3>1. q + (k + l) = p + Len(RestOf(w, 0))
      BY <2>1, <2>5, <2>6
    <3>2. q + (k + l) = e + l
      BY <2>6
    <3> QED
      BY <3>1, <3>2
  <2>9. Going(g, b, p, w, o)
    <3>1. g.next = e /\ g.end = "got"
      BY <1>4, <1>6, <2>4, <2>5, <2>6 DEF Going
    <3> QED
      BY <1>1, <2>6, <2>7, <2>8, <3>1 DEF Going
  <2>10. Holds(g.val, v, kinds, n, o, o)
    <3>1. f.val = Value(v, kinds, o, o)
      BY <2>4 DEF Value
    <3>2. o \in 0..(i + 1) /\ (o = j \/ (j = i /\ o = i + 1))
      BY <1>0, <1>6
    <3>3. Holds(Append(r.val, Value(v, kinds, o, i + 1)), v, kinds, n, i + 1, o)
      BY <1>5, <3>2, HoldsMore
    <3> QED
      BY <1>0, <1>4, <3>1, <3>3
  <2>11. Halfway(g, b, p, w, v, kinds, n, o, o)
    BY <2>9, <2>10 DEF Halfway
  <2>12. o \in 0..(i + 1)
    BY <1>0
  <2> QED
    BY <1>0, <1>3, <2>11, <2>12
<1>7. CASE (j = i /\ Going(r, b, p, w, i) /\ ~ Whole(b, r.next, s))
           \/ (j < i /\ Ended(r, b, p, w))
  <2>0. PICK m \in Nat, k \in Nat, l \in Nat :
          m = Len(b) /\ k = Len(s) /\ l = Len(t) /\ Len(Cat(s, t)) = k + l /\ k >= 1
    BY <1>1, CatParts
  <2>1. Meets(b, r.next, s) /\ ~ Whole(b, r.next, s) /\ ~ Whole(b, p, RestOf(w, 0))
    <3>1. CASE j = i /\ Going(r, b, p, w, i) /\ ~ Whole(b, r.next, s)
      <4>1. Meets(b, r.next, Cat(s, t)) /\ r.next + (k + l) = p + Len(RestOf(w, 0))
        BY <1>1, <2>0, <3>1 DEF Going
      <4>2. Meets(b, r.next, s)
        BY <4>1, MeetsFirst
      <4>3. PICK q \in Nat : q = r.next
        BY <4>2 DEF Meets
      <4>4. ~ (q + k <= m + 1)
        BY <2>0, <3>1, <4>3 DEF Whole
      <4>5. ~ (q + (k + l) <= m + 1)
        BY <4>4
      <4>6. ~ Whole(b, p, RestOf(w, 0))
        BY <2>0, <4>1, <4>3, <4>5 DEF Whole
      <4> QED
        BY <3>1, <4>2, <4>6
    <3>2. CASE j < i /\ Ended(r, b, p, w)
      <4>1. r.next = m + 1 /\ ~ Whole(b, p, RestOf(w, 0))
        BY <2>0, <3>2 DEF Ended
      <4>2. \A x \in 1..Len(s) : ~ (m + 1 - 1 + x <= m)
        BY <2>0
      <4>3. Meets(b, m + 1, s)
        BY <2>0, <4>2 DEF Meets
      <4>4. ~ Whole(b, m + 1, s)
        BY <2>0 DEF Whole
      <4> QED
        BY <4>1, <4>3, <4>4
    <3> QED
      BY <1>7, <3>1, <3>2
  <2>2. f = Short(Missing(kinds[o]), b)
    BY <1>1, <1>2, <2>1, Zenon DEF Reads
  <2>3. f.end = "short" /\ f.next = Len(b) + 1 /\ f.val = Missing(kinds[o])
    BY <2>2 DEF Short
  <2>4. Ended(g, b, p, w)
    BY <1>4, <2>1, <2>3 DEF Ended
  <2>5. Holds(g.val, v, kinds, n, o, j)
    <3>1. f.val = Value(v, kinds, j, o)
      <4>1. ~ (o <= j)
        BY <1>0
      <4> QED
        BY <2>3, <4>1 DEF Value
    <3>2. j \in 0..(i + 1) /\ (j = j \/ (j = i /\ j = i + 1))
      OBVIOUS
    <3>3. Holds(Append(r.val, Value(v, kinds, j, i + 1)), v, kinds, n, i + 1, j)
      BY <1>5, <3>2, HoldsMore
    <3> QED
      BY <1>0, <1>4, <3>1, <3>3
  <2>6. Halfway(g, b, p, w, v, kinds, n, o, j)
    <3>1. j < o
      BY <1>0
    <3> QED
      BY <2>4, <2>5, <3>1 DEF Halfway
  <2>7. j \in 0..(i + 1)
    OBVIOUS
  <2> QED
    BY <1>0, <1>3, <2>6, <2>7
<1> QED
  BY <1>6, <1>7 DEF Halfway

(* Fields that were written and are all there are read back as they were,  *)
(* and the reader stands behind them; otherwise the reader gets the first  *)
(* j of them, nothing for the others, and the end of the stream.           *)
Parsed(r, b, p, v, kinds, n, j) ==
  /\ Len(r.val) = n /\ \A k \in 1..n : r.val[k] = Value(v, kinds, j, k)
  /\ Whole(b, p, Fields(v, kinds)) =>
       j = n /\ r.end = "got" /\ r.next = p + Len(Fields(v, kinds))
  /\ ~ Whole(b, p, Fields(v, kinds)) => j < n /\ r.end = "short" /\ r.next = Len(b) + 1

LEMMA FieldsRead ==
  ASSUME NEW b, NEW p, NEW v, NEW kinds, NEW n \in Nat,
         Packed(v, kinds, n), Meets(b, p, Fields(v, kinds))
  PROVE  \E j \in 0..n : Parsed(ReadFields(b, p, kinds), b, p, v, kinds, n, j)
<1>1. PICK w \in Seq(Seq(Byte)) :
        w = Written(v, kinds) /\ Len(w) = n /\ Fields(v, kinds) = RestOf(w, 0)
  BY WrittenIs
<1>2. b \in Seq(Byte)
  BY DEF Meets
<1>3. PICK f : Reading(f, b, p, kinds, n) /\ ReadFields(b, p, kinds) = f[n]
  <2>1. Len(kinds) = n
    BY DEF Packed
  <2> QED
    BY <2>1, ReadFieldsIs
<1>4. f[0] = Got(<<>>, p) /\ \A j \in 1..n : f[j] = ReadNext(f[j - 1], b, kinds[j])
  BY <1>3, ReadingSteps
<1> DEFINE Good == {i \in 0..n : \E j \in 0..i : Halfway(f[i], b, p, w, v, kinds, n, i, j)}
<1>5. 0 \in Good
  <2>1. f[0].val = <<>> /\ f[0].next = p /\ f[0].end = "got"
    BY <1>4 DEF Got
  <2>2. Holds(f[0].val, v, kinds, n, 0, 0)
    BY <2>1 DEF Holds
  <2>3. Going(f[0], b, p, w, 0)
    BY <1>1, <2>1 DEF Going
  <2>4. Halfway(f[0], b, p, w, v, kinds, n, 0, 0)
    BY <2>2, <2>3 DEF Halfway
  <2>5. 0 \in 0..0 /\ 0 \in 0..n
    OBVIOUS
  <2> QED
    BY <2>4, <2>5
<1>6. ASSUME NEW i \in 0..(n - 1), i \in Good PROVE i + 1 \in Good
  <2>1. PICK j \in 0..i : Halfway(f[i], b, p, w, v, kinds, n, i, j)
    BY <1>6
  <2>2. f[i + 1] = ReadNext(f[i], b, kinds[i + 1])
    <3>1. i + 1 \in 1..n /\ (i + 1) - 1 = i
      OBVIOUS
    <3> QED
      BY <1>4, <3>1
  <2>3. \E l \in 0..(i + 1) : Halfway(f[i + 1], b, p, w, v, kinds, n, i + 1, l)
    BY <1>1, <1>2, <2>1, <2>2, Further
  <2>4. i + 1 \in 0..n
    OBVIOUS
  <2> QED
    BY <2>3, <2>4
<1>7. n \in Good
  <2> HIDE DEF Good
  <2>1. \A i \in 0..n : i \in Good
    BY <1>5, <1>6, UpTo
  <2> QED
    BY <2>1
<1> HIDE DEF Good
<1>12. PICK r : r = f[n]
  OBVIOUS
<1>8. PICK j \in 0..n : Halfway(r, b, p, w, v, kinds, n, n, j)
  BY <1>7, <1>12 DEF Good
<1>9. Len(r.val) = n /\ \A k \in 1..n : r.val[k] = Value(v, kinds, j, k)
  BY <1>8 DEF Halfway, Holds
<1>10. CASE j = n /\ Going(r, b, p, w, n)
  <2>1. RestOf(w, n) = <<>>
    BY <1>1, Rests
  <2>2. Meets(b, r.next, <<>>) /\ r.next + Len(<<>>) = p + Len(Fields(v, kinds))
    BY <1>1, <1>10, <2>1 DEF Going
  <2>3. PICK q \in Nat, m \in Nat : q = r.next /\ m = Len(b) /\ q <= m + 1
    BY <2>2 DEF Meets
  <2>4. Len(<<>>) = 0
    OBVIOUS
  <2>5. q = p + Len(Fields(v, kinds))
    BY <2>2, <2>3, <2>4
  <2>6. Whole(b, p, Fields(v, kinds))
    BY <2>3, <2>5 DEF Whole
  <2>7. r.end = "got"
    BY <1>10 DEF Going
  <2>8. Parsed(r, b, p, v, kinds, n, j)
    BY <1>9, <1>10, <2>3, <2>5, <2>6, <2>7 DEF Parsed
  <2> QED
    BY <1>3, <1>8, <1>12, <2>8
<1>11. CASE j < n /\ Ended(r, b, p, w)
  <2>1. Parsed(r, b, p, v, kinds, n, j)
    BY <1>1, <1>9, <1>11 DEF Parsed, Ended
  <2> QED
    BY <1>3, <1>8, <1>12, <2>1
<1> QED
  BY <1>8, <1>10, <1>11 DEF Halfway

(* Whatever the stream holds, its fields are typed.                        *)
Typed(r, kinds, i) ==
  /\ Placed(r) /\ (\E S : r.val \in Seq(S)) /\ Len(r.val) = i
  /\ \A k \in 1..i : kinds[k] = "string" => r.val[k] \in Seq(Byte)

LEMMA TypedFurther ==
  ASSUME NEW b \in Seq(Byte), NEW r, NEW i \in Nat, NEW kinds, kinds[i + 1] \in FieldKinds,
         Typed(r, kinds, i)
  PROVE  Typed(ReadNext(r, b, kinds[i + 1]), kinds, i + 1)
<1>1. PICK q \in Nat : q = r.next /\ q >= 1
  BY DEF Typed, Placed
<1>2. PICK f : f = ReadField(b, q, kinds[i + 1])
  OBVIOUS
<1>3. Placed(f) /\ (kinds[i + 1] = "string" => f.val \in Seq(Byte))
  BY <1>1, <1>2, FieldTyped
<1>4. PICK S : r.val \in Seq(S)
  BY DEF Typed
<1>5. PICK T : r.val \in Seq(T) /\ f.val \in T
  <2>1. r.val \in Seq(S \cup {f.val})
    BY <1>4
  <2> QED
    BY <2>1
<1>10. PICK u \in Seq(T), x \in T : u = r.val /\ x = f.val /\ Len(u) = i
  BY <1>5 DEF Typed
<1>6. PICK g : g = ReadNext(r, b, kinds[i + 1]) /\ g.val = Append(u, x) /\ g.next = f.next
  BY <1>1, <1>2, <1>10, ReadNextIs
<1>7. /\ Append(u, x) \in Seq(T) /\ Len(Append(u, x)) = i + 1
      /\ Append(u, x)[i + 1] = x /\ \A k \in 1..i : Append(u, x)[k] = u[k]
  BY <1>10
<1>8. ASSUME NEW k \in 1..(i + 1), kinds[k] = "string" PROVE g.val[k] \in Seq(Byte)
  <2>1. CASE k = i + 1
    BY <1>3, <1>6, <1>7, <1>8, <1>10, <2>1
  <2>2. CASE k # i + 1
    <3>1. k \in 1..i
      BY <2>2
    <3>2. r.val[k] \in Seq(Byte)
      BY <1>8, <3>1 DEF Typed
    <3> QED
      BY <1>6, <1>7, <1>10, <3>1, <3>2
  <2> QED
    BY <2>1, <2>2
<1>9. Placed(g)
  BY <1>3, <1>6 DEF Placed
<1> QED
  BY <1>6, <1>7, <1>8, <1>9 DEF Typed

LEMMA FieldsTyped ==
  ASSUME NEW b \in Seq(Byte), NEW p \in Nat, NEW kinds \in Seq(FieldKinds), NEW n \in Nat,
         p >= 1, n = Len(kinds)
  PROVE  Typed(ReadFields(b, p, kinds), kinds, n)
<1>3. PICK f : Reading(f, b, p, kinds, n) /\ ReadFields(b, p, kinds) = f[n]
  <2>1. Len(kinds) = n
    OBVIOUS
  <2> QED
    BY <2>1, ReadFieldsIs
<1>4. f[0] = Got(<<>>, p) /\ \A j \in 1..n : f[j] = ReadNext(f[j - 1], b, kinds[j])
  BY <1>3, ReadingSteps
<1> DEFINE Good == {i \in 0..n : Typed(f[i], kinds, i)}
<1>5. 0 \in Good
  <2>1. f[0].val = <<>> /\ f[0].next = p /\ f[0].end = "got"
    BY <1>4 DEF Got
  <2>2. Typed(f[0], kinds, 0)
    BY <2>1 DEF Typed, Placed
  <2> QED
    BY <2>2
<1>6. ASSUME NEW i \in 0..(n - 1), i \in Good PROVE i + 1 \in Good
  <2>1. Typed(f[i], kinds, i)
    BY <1>6
  <2>2. i + 1 \in 1..n /\ i + 1 \in 0..n /\ (i + 1) - 1 = i
    OBVIOUS
  <2>3. f[i + 1] = ReadNext(f[i], b, kinds[i + 1])
    BY <1>4, <2>2
  <2>4. kinds[i + 1] \in FieldKinds
    BY <2>2
  <2>5. Typed(f[i + 1], kinds, i + 1)
    BY <2>1, <2>3, <2>4, TypedFurther
  <2> QED
    BY <2>2, <2>5
<1>7. \A i \in 0..n : i \in Good
  <2> HIDE DEF Good
  <2> QED
    BY <1>5, <1>6, UpTo
<1> QED
  BY <1>3, <1>7

-----------------------------------------------------------------------------
(* The packets of the client.                                              *)
LEMMA SmallUints ==
  ASSUME NEW v \in Byte
  PROVE  v \in Uints
<1>0. PICK n \in Nat : n = MaxVarInt - 1 /\ n >= 1
  BY VarIntAssumption
<1>1. v \in Nat
  BY DEF Byte
<1> DEFINE Good == {k \in 0..n : Shifted(v, k) <= 1 \/ k = 0}
<1>2. 0 \in Good
  OBVIOUS
<1>3. ASSUME NEW k \in 0..(n - 1), k \in Good PROVE k + 1 \in Good
  <2>1. k \in Nat /\ k + 1 \in 0..n
    OBVIOUS
  <2>2. PICK x \in Nat : x = Shifted(v, k) /\ Shifted(v, k + 1) = x \div 128
    <3>1. v \in Nat /\ k \in Nat
      BY <1>1, <2>1
    <3>2. Shifted(v, k) \in Nat /\ Shifted(v, k + 1) = Shifted(v, k) \div 128
      BY <3>1, ShiftedSteps
    <3> QED
      BY <3>2
  <2>3. x <= 255
    <3>1. Shifted(v, 0) = v
      BY <1>1, ShiftedSteps
    <3>2. CASE k = 0
      BY <2>2, <3>1, <3>2 DEF Byte
    <3>3. CASE k # 0
      BY <1>3, <2>2, <3>3
    <3> QED
      BY <3>2, <3>3
  <2>4. x \div 128 <= 1
    BY <2>3
  <2> QED
    BY <2>1, <2>2, <2>4
<1>4. n \in Good
  <2> HIDE DEF Good
  <2>1. \A k \in 0..n : k \in Good
    BY <1>2, <1>3, UpTo
  <2> QED
    BY <2>1
<1>5. Shifted(v, n) < TopGroup
  <2>1. Shifted(v, n) <= 1
    BY <1>0, <1>4
  <2>2. Shifted(v, n) \in Nat
    BY <1>1, ShiftedSteps
  <2> QED
    BY <2>1, <2>2, VarIntAssumption
<1> QED
  BY <1>0, <1>1, <1>5 DEF Uints

HelloValues == <<0, 0, 0, <<>>, <<100>>, <<>>>>

LEMMA HelloPacked == Packed(HelloValues, HelloFields, 6) /\ Hello = Fields(HelloValues, HelloFields)
<1>1. HelloFields \in Seq(FieldKinds) /\ Len(HelloFields) = 6
  BY DEF HelloFields, FieldKinds
<1>2. Sendable(0, "uint32")
  BY DEF Sendable, Byte
<1>3. <<>> \in Seq(Byte) /\ Len(<<>>) = 0 /\ <<100>> \in Seq(Byte) /\ Len(<<100>>) = 1
  BY DEF Byte
<1>4. 0 \in Uints /\ 1 \in Uints
  BY SmallUints DEF Byte
<1>5. Sendable(<<>>, "string")
  BY <1>3, <1>4 DEF Sendable
<1>6. Sendable(<<100>>, "string")
  BY <1>3, <1>4 DEF Sendable
<1>7. ASSUME NEW i \in 1..6 PROVE Sendable(HelloValues[i], HelloFields[i])
  <2>1. CASE i \in 1..3
    <3>1. HelloValues[i] = 0 /\ HelloFields[i] = "uint32"
      BY <2>1 DEF HelloValues, HelloFields
    <3> QED
      BY <1>2, <3>1
  <2>2. CASE i = 5
    <3>1. HelloValues[i] = <<100>> /\ HelloFields[i] = "string"
      BY <2>2 DEF HelloValues, HelloFields
    <3> QED
      BY <1>6, <3>1
  <2>3. CASE i \in {4, 6}
    <3>1. HelloValues[i] = <<>> /\ HelloFields[i] = "string"
      BY <2>3 DEF HelloValues, HelloFields
    <3> QED
      BY <1>5, <3>1
  <2> QED
    BY <2>1, <2>2, <2>3
<1>8. Hello = Fields(HelloValues, HelloFields)
  BY DEF Hello, HelloValues
<1> QED
  BY <1>1, <1>7, <1>8 DEF Packed

QueryValues(r) ==
  <<<<120>>, 0, r.compression, 1, <<99>>, 24, 8, 5, 200, <<>>, 0, 0, r.text, r.kind>>

LEMMA QueryPacked ==
  ASSUME NEW r \in Requests, r.type = "query"
  PROVE  Packed(QueryValues(r), QueryFields, 14)
<1>1. QueryFields \in Seq(FieldKinds) /\ Len(QueryFields) = 14
  BY DEF QueryFields, FieldKinds
<1>2. /\ r.text \in Seq(Byte) /\ Len(r.text) \in Uints
      /\ r.kind \in Uints /\ r.compression \in Uints
  BY NativeAssumption
<1>3. \A v \in Byte : v \in Uints
  BY SmallUints
<1>4. /\ <<>> \in Seq(Byte) /\ Len(<<>>) = 0
      /\ <<120>> \in Seq(Byte) /\ Len(<<120>>) = 1
      /\ <<99>> \in Seq(Byte) /\ Len(<<99>>) = 1
  BY DEF Byte
<1>5. /\ Sendable(<<>>, "string") /\ Sendable(<<120>>, "string")
      /\ Sendable(<<99>>, "string") /\ Sendable(r.text, "string")
  <2>1. 0 \in Uints /\ 1 \in Uints
    BY <1>3 DEF Byte
  <2>2. Sendable(<<>>, "string")
    BY <1>4, <2>1 DEF Sendable
  <2>3. Sendable(<<120>>, "string")
    BY <1>4, <2>1 DEF Sendable
  <2>4. Sendable(<<99>>, "string")
    BY <1>4, <2>1 DEF Sendable
  <2>5. Sendable(r.text, "string")
    BY <1>2 DEF Sendable
  <2> QED
    BY <2>2, <2>3, <2>4, <2>5
<1>6. /\ Sendable(0, "varint") /\ Sendable(1, "varint") /\ Sendable(24, "varint")
      /\ Sendable(8, "varint") /\ Sendable(5, "varint") /\ Sendable(200, "varint")
      /\ Sendable(r.compression, "varint") /\ Sendable(r.kind, "varint")
  BY <1>2, <1>3 DEF Sendable, Byte
<1>7. ASSUME NEW i \in 1..14 PROVE Sendable(QueryValues(r)[i], QueryFields[i])
  <2>1. CASE i \in {1, 5, 10, 13}
    <3>1. /\ QueryFields[i] = "string"
          /\ QueryValues(r)[i] \in {<<120>>, <<99>>, <<>>, r.text}
      BY <2>1 DEF QueryValues, QueryFields
    <3> QED
      BY <1>5, <3>1
  <2>2. CASE i \notin {1, 5, 10, 13}
    <3>1. /\ QueryFields[i] = "varint"
          /\ QueryValues(r)[i] \in {0, r.compression, 1, 24, 8, 5, 200, r.kind}
      BY <2>2 DEF QueryValues, QueryFields
    <3> QED
      BY <1>6, <3>1
  <2> QED
    BY <2>1, <2>2
<1> QED
  BY <1>1, <1>7 DEF Packed

(* What stands behind the fixed fields of a query.                         *)
MoreKinds(kind, compression) ==
  (IF kind = QuerySecondary THEN <<"string">> ELSE <<>>)
  \o (IF compression = CompressionEnabled THEN <<"uint32">> ELSE <<>>)
MoreValues(r) == IF r.kind = QuerySecondary THEN <<r.secondary, 9>> ELSE <<9>>
MoreBytes(r) ==
  Cat(IF r.kind = QuerySecondary THEN WriteString(r.secondary) ELSE <<>>,
      IF r.compression = CompressionEnabled THEN <<9, 9, 9, 9>> ELSE <<>>)

LEMMA Pair ==
  ASSUME NEW S, NEW x \in S, NEW y \in S
  PROVE  <<x>> \o <<y>> = <<x, y>>
<1>1. <<x>> \in Seq(S) /\ <<y>> \in Seq(S)
  OBVIOUS
<1>2. Len(<<x>>) = 1 /\ Len(<<y>>) = 1 /\ <<x>>[1] = x /\ <<y>>[1] = y
  OBVIOUS
<1>3. ASSUME NEW s \in Seq(S), NEW t \in Seq(S), Len(s) = 1, Len(t) = 1
      PROVE  /\ s \o t \in Seq(S) /\ Len(s \o t) = 2
             /\ (s \o t)[1] = s[1] /\ (s \o t)[2] = t[1]
  <2>1. s \o t \in Seq(S)
    OBVIOUS
  <2>2. Len(s \o t) = Len(s) + Len(t)
    OBVIOUS
  <2>3. 1 \in 1..Len(s) /\ 1 \in 1..Len(t)
    BY <1>3
  <2>4. \A i \in 1..Len(s) : (s \o t)[i] = s[i]
    OBVIOUS
  <2>5. \A i \in 1..Len(t) : (s \o t)[Len(s) + i] = t[i]
    OBVIOUS
  <2>6. (s \o t)[1] = s[1] /\ (s \o t)[1 + 1] = t[1]
    BY <1>3, <2>3, <2>4, <2>5
  <2> QED
    BY <1>3, <2>1, <2>2, <2>6
<1>4. ASSUME NEW u \in Seq(S), Len(u) = 2, u[1] = x, u[2] = y PROVE u = <<x, y>>
  BY <1>4
<1>5. PICK u : u = <<x>> \o <<y>>
  OBVIOUS
<1>6. /\ u \in Seq(S) /\ Len(u) = 2 /\ u[1] = x /\ u[2] = y
  BY <1>1, <1>2, <1>3, <1>5
<1> QED
  BY <1>4, <1>5, <1>6

LEMMA MoreKindsAre ==
  ASSUME NEW kind, NEW compression
  PROVE  /\ MoreKinds(kind, compression) \in Seq(FieldKinds)
         /\ Len(MoreKinds(kind, compression)) \in Nat
         /\ kind = QuerySecondary /\ compression = CompressionEnabled =>
              /\ MoreKinds(kind, compression) = <<"string", "uint32">>
              /\ Len(MoreKinds(kind, compression)) = 2
         /\ kind = QuerySecondary /\ compression # CompressionEnabled =>
              /\ MoreKinds(kind, compression) = <<"string">>
              /\ Len(MoreKinds(kind, compression)) = 1
         /\ kind # QuerySecondary /\ compression = CompressionEnabled =>
              /\ MoreKinds(kind, compression) = <<"uint32">>
              /\ Len(MoreKinds(kind, compression)) = 1
         /\ kind # QuerySecondary /\ compression # CompressionEnabled =>
              /\ MoreKinds(kind, compression) = <<>>
              /\ Len(MoreKinds(kind, compression)) = 0
<1>1. CASE kind = QuerySecondary /\ compression = CompressionEnabled
  <2>0. <<"string">> \o <<"uint32">> = <<"string", "uint32">>
    <3>1. "string" \in FieldKinds /\ "uint32" \in FieldKinds
      BY DEF FieldKinds
    <3> QED
      BY <3>1, Pair, Zenon
  <2>1. MoreKinds(kind, compression) = <<"string", "uint32">>
    BY <1>1, <2>0, Zenon DEF MoreKinds
  <2> QED
    BY <1>1, <2>1 DEF FieldKinds
<1>2. CASE kind = QuerySecondary /\ compression # CompressionEnabled
  <2>1. MoreKinds(kind, compression) = <<"string">>
    BY <1>2 DEF MoreKinds
  <2> QED
    BY <1>2, <2>1 DEF FieldKinds
<1>3. CASE kind # QuerySecondary /\ compression = CompressionEnabled
  <2>1. MoreKinds(kind, compression) = <<"uint32">>
    BY <1>3 DEF MoreKinds
  <2> QED
    BY <1>3, <2>1 DEF FieldKinds
<1>4. CASE kind # QuerySecondary /\ compression # CompressionEnabled
  <2>1. MoreKinds(kind, compression) = <<>>
    BY <1>4 DEF MoreKinds
  <2> QED
    BY <1>4, <2>1 DEF FieldKinds
<1> QED
  BY <1>1, <1>2, <1>3, <1>4

(* No field, one and two of them.                                          *)
LEMMA FewFields ==
  ASSUME NEW v, NEW kinds, NEW n \in 0..2, Packed(v, kinds, n)
  PROVE  /\ n = 0 => Fields(v, kinds) = <<>>
         /\ n = 1 => Fields(v, kinds) = Write(v[1], kinds[1])
         /\ n = 2 => Fields(v, kinds) = Cat(Write(v[1], kinds[1]), Write(v[2], kinds[2]))
<1>0. n \in Nat
  OBVIOUS
<1>1. PICK w \in Seq(Seq(Byte)) :
        /\ w = Written(v, kinds) /\ n = Len(w) /\ Fields(v, kinds) = RestOf(w, 0)
        /\ \A i \in 1..n : w[i] = Write(v[i], kinds[i])
  BY <1>0, WrittenIs
<1>2. n = Len(w)
  BY <1>1
<1>3. RestOf(w, n) = <<>> /\ \A j \in 1..n : RestOf(w, j - 1) = Cat(w[j], RestOf(w, j))
  BY <1>0, <1>2, Rests
<1>7. \A i \in 1..n : w[i] \in Seq(Byte)
  BY <1>2
<1>4. CASE n = 0
  BY <1>1, <1>3, <1>4
<1>5. CASE n = 1
  <2>1. 1 \in 1..n /\ 1 - 1 = 0 /\ w[1] \in Seq(Byte)
    BY <1>5, <1>7
  <2>2. RestOf(w, 0) = Cat(w[1], <<>>)
    BY <1>3, <1>5, <2>1
  <2>3. Cat(w[1], <<>>) = w[1]
    BY <2>1, CatEmpty
  <2> QED
    BY <1>1, <1>5, <2>1, <2>2, <2>3
<1>6. CASE n = 2
  <2>1. 1 \in 1..n /\ 2 \in 1..n /\ 1 - 1 = 0 /\ 2 - 1 = 1 /\ w[2] \in Seq(Byte)
    BY <1>6, <1>7
  <2>2. RestOf(w, 0) = Cat(w[1], RestOf(w, 1)) /\ RestOf(w, 1) = Cat(w[2], <<>>)
    BY <1>3, <1>6, <2>1
  <2>3. Cat(w[2], <<>>) = w[2]
    BY <2>1, CatEmpty
  <2> QED
    BY <1>1, <1>6, <2>1, <2>2, <2>3
<1> QED
  BY <1>4, <1>5, <1>6

LEMMA FourNines == [i \in 1..4 |-> 9] = <<9, 9, 9, 9>>
  OBVIOUS

LEMMA MorePacked ==
  ASSUME NEW r \in Requests, r.type = "query"
  PROVE  /\ Packed(MoreValues(r), MoreKinds(r.kind, r.compression),
                   Len(MoreKinds(r.kind, r.compression)))
         /\ MoreBytes(r) = Fields(MoreValues(r), MoreKinds(r.kind, r.compression))
<1>1. PICK v, kinds : v = MoreValues(r) /\ kinds = MoreKinds(r.kind, r.compression)
  OBVIOUS
<1>2. Sendable(r.secondary, "string") /\ Sendable(9, "uint32")
  BY NativeAssumption DEF Sendable, Byte
<1>3. /\ Write(r.secondary, "string") = WriteString(r.secondary)
      /\ Write(9, "uint32") = <<9, 9, 9, 9>>
  BY ByKind, FourNines
<1>4. WriteString(r.secondary) \in Seq(Byte) /\ <<9, 9, 9, 9>> \in Seq(Byte)
  BY <1>2, <1>3, FieldReads
<1>5. kinds \in Seq(FieldKinds)
  BY <1>1, MoreKindsAre
<1>6. CASE r.kind = QuerySecondary /\ r.compression = CompressionEnabled
  <2>1. kinds = <<"string", "uint32">> /\ Len(kinds) = 2
    BY <1>1, <1>6, MoreKindsAre
  <2>2. v[1] = r.secondary /\ v[2] = 9 /\ kinds[1] = "string" /\ kinds[2] = "uint32"
    BY <1>1, <1>6, <2>1 DEF MoreValues
  <2>3. \A i \in 1..2 : i = 1 \/ i = 2
    OBVIOUS
  <2>4. Packed(v, kinds, 2)
    BY <1>2, <1>5, <2>1, <2>2, <2>3 DEF Packed
  <2>5. Fields(v, kinds) = Cat(WriteString(r.secondary), <<9, 9, 9, 9>>)
    <3>1. 2 \in 0..2
      OBVIOUS
    <3> QED
      BY <1>3, <2>2, <2>4, <3>1, FewFields
  <2>6. MoreBytes(r) = Cat(WriteString(r.secondary), <<9, 9, 9, 9>>)
    BY <1>6, Zenon DEF MoreBytes
  <2> QED
    BY <1>1, <2>1, <2>4, <2>5, <2>6
<1>7. CASE r.kind = QuerySecondary /\ r.compression # CompressionEnabled
  <2>1. kinds = <<"string">> /\ Len(kinds) = 1
    BY <1>1, <1>7, MoreKindsAre
  <2>2. v[1] = r.secondary /\ kinds[1] = "string"
    BY <1>1, <1>7, <2>1 DEF MoreValues
  <2>3. \A i \in 1..1 : i = 1
    OBVIOUS
  <2>4. Packed(v, kinds, 1)
    BY <1>2, <1>5, <2>1, <2>2, <2>3 DEF Packed
  <2>5. Fields(v, kinds) = WriteString(r.secondary)
    <3>1. 1 \in 0..2
      OBVIOUS
    <3> QED
      BY <1>3, <2>2, <2>4, <3>1, FewFields
  <2>6. MoreBytes(r) = Cat(WriteString(r.secondary), <<>>)
    BY <1>7, Zenon DEF MoreBytes
  <2>7. Cat(WriteString(r.secondary), <<>>) = WriteString(r.secondary)
    BY <1>4, CatEmpty
  <2> QED
    BY <1>1, <2>1, <2>4, <2>5, <2>6, <2>7
<1>8. CASE r.kind # QuerySecondary /\ r.compression = CompressionEnabled
  <2>1. kinds = <<"uint32">> /\ Len(kinds) = 1
    BY <1>1, <1>8, MoreKindsAre
  <2>2. v[1] = 9 /\ kinds[1] = "uint32"
    BY <1>1, <1>8, <2>1 DEF MoreValues
  <2>3. \A i \in 1..1 : i = 1
    OBVIOUS
  <2>4. Packed(v, kinds, 1)
    BY <1>2, <1>5, <2>1, <2>2, <2>3 DEF Packed
  <2>5. Fields(v, kinds) = <<9, 9, 9, 9>>
    <3>1. 1 \in 0..2
      OBVIOUS
    <3> QED
      BY <1>3, <2>2, <2>4, <3>1, FewFields
  <2>6. MoreBytes(r) = Cat(<<>>, <<9, 9, 9, 9>>)
    BY <1>8, Zenon DEF MoreBytes
  <2>7. Cat(<<>>, <<9, 9, 9, 9>>) = <<9, 9, 9, 9>>
    BY <1>4, CatEmpty
  <2> QED
    BY <1>1, <2>1, <2>4, <2>5, <2>6, <2>7
<1>9. CASE r.kind # QuerySecondary /\ r.compression # CompressionEnabled
  <2>1. kinds = <<>> /\ Len(kinds) = 0
    BY <1>1, <1>9, MoreKindsAre
  <2>4. Packed(v, kinds, 0)
    BY <1>5, <2>1 DEF Packed
  <2>5. Fields(v, kinds) = <<>>
    <3>1. 0 \in 0..2
      OBVIOUS
    <3> QED
      BY <2>4, <3>1, FewFields
  <2>6. MoreBytes(r) = Cat(<<>>, <<>>)
    BY <1>9, Zenon DEF MoreBytes
  <2>7. Cat(<<>>, <<>>) = <<>>
    <3>1. <<>> \in Seq(Byte)
      OBVIOUS
    <3> QED
      BY <3>1, CatEmpty
  <2> QED
    BY <1>1, <2>1, <2>4, <2>5, <2>6, <2>7
<1> QED
  BY <1>6, <1>7, <1>8, <1>9

LEMMA BlockPacked ==
  ASSUME NEW r \in Requests, r.type = "data"
  PROVE  /\ Packed(<<r.cols, r.rows>>, <<"varint", "varint">>, 2)
         /\ Fields(<<r.cols, r.rows>>, <<"varint", "varint">>)
              = Cat(WriteVarInt(r.cols), WriteVarInt(r.rows))
<1>1. PICK v, kinds : v = <<r.cols, r.rows>> /\ kinds = <<"varint", "varint">>
  OBVIOUS
<1>2. /\ v[1] = r.cols /\ v[2] = r.rows /\ kinds[1] = "varint" /\ kinds[2] = "varint"
      /\ kinds \in Seq(FieldKinds) /\ Len(kinds) = 2
  BY <1>1 DEF FieldKinds
<1>3. Sendable(r.cols, "varint") /\ Sendable(r.rows, "varint")
  BY NativeAssumption DEF Sendable
<1>4. \A i \in 1..2 : i = 1 \/ i = 2
  OBVIOUS
<1>5. Packed(v, kinds, 2)
  BY <1>2, <1>3, <1>4 DEF Packed
<1>6. Fields(v, kinds) = Cat(WriteVarInt(r.cols), WriteVarInt(r.rows))
  <2>1. 2 \in 0..2
    OBVIOUS
  <2>2. Fields(v, kinds) = Cat(Write(v[1], kinds[1]), Write(v[2], kinds[2]))
    BY <1>5, <2>1, FewFields
  <2> QED
    BY <1>2, <2>2, ByKind
<1> QED
  BY <1>1, <1>5, <1>6

LEMMA EncodeUnfolds ==
  ASSUME NEW r
  PROVE  /\ r.type = "hello" => Encode(r) = Cat(<<PacketHello>>, Hello)
         /\ r.type = "query" =>
              Encode(r) = Cat(Cat(Cat(<<PacketQuery>>, Fields(QueryValues(r), QueryFields)),
                                  IF r.kind = QuerySecondary THEN WriteString(r.secondary)
                                  ELSE <<>>),
                              IF r.compression = CompressionEnabled THEN <<9, 9, 9, 9>>
                              ELSE <<>>)
         /\ r.type = "data" =>
              Encode(r) = Cat(Cat(Cat(<<PacketData>>, WriteVarInt(r.cols)),
                                  WriteVarInt(r.rows)),
                              FlattenSeq([i \in 1..r.cols |-> Column(r.rows)]))
         /\ r.type = "cancel" => Encode(r) = <<PacketCancel>>
         /\ r.type = "ping" => Encode(r) = <<PacketPing>>
         /\ r.type = "other" => Encode(r) = <<9>>
<1>1. /\ "hello" # "query" /\ "hello" # "data" /\ "hello" # "cancel" /\ "hello" # "ping"
      /\ "hello" # "other" /\ "query" # "data" /\ "query" # "cancel" /\ "query" # "ping"
      /\ "query" # "other" /\ "data" # "cancel" /\ "data" # "ping" /\ "data" # "other"
      /\ "cancel" # "ping" /\ "cancel" # "other" /\ "ping" # "other"
  OBVIOUS
<1>2. r.type = "hello" => Encode(r) = Cat(<<PacketHello>>, Hello)
  BY <1>1, Zenon DEF Encode, Cat
<1>3. r.type = "query" =>
        Encode(r) = Cat(Cat(Cat(<<PacketQuery>>, Fields(QueryValues(r), QueryFields)),
                            IF r.kind = QuerySecondary THEN WriteString(r.secondary)
                            ELSE <<>>),
                        IF r.compression = CompressionEnabled THEN <<9, 9, 9, 9>>
                        ELSE <<>>)
  BY <1>1, Zenon DEF Encode, Cat, QueryValues, QueryFields
<1>4. r.type = "data" =>
        Encode(r) = Cat(Cat(Cat(<<PacketData>>, WriteVarInt(r.cols)), WriteVarInt(r.rows)),
                        FlattenSeq([i \in 1..r.cols |-> Column(r.rows)]))
  BY <1>1, Zenon DEF Encode, Cat
<1>5. /\ r.type = "cancel" => Encode(r) = <<PacketCancel>>
      /\ r.type = "ping" => Encode(r) = <<PacketPing>>
      /\ r.type = "other" => Encode(r) = <<9>>
  BY <1>1, Zenon DEF Encode
<1> QED
  BY <1>2, <1>3, <1>4, <1>5, Zenon

LEMMA ColumnTyped ==
  ASSUME NEW rows \in Nat
  PROVE  Column(rows) \in Seq(Byte)
<1>1. [i \in 1..rows |-> <<1, 55>>] \in Seq(Seq(Byte))
  <2>1. <<1, 55>> \in Seq(Byte)
    BY DEF Byte
  <2> QED
    BY <2>1
<1>2. FlattenSeq([i \in 1..rows |-> <<1, 55>>]) \in Seq(Byte)
  BY <1>1, FlattenTyped
<1>3. <<1, 110, 1, 83, 0>> \in Seq(Byte)
  BY DEF Byte
<1>4. Cat(<<1, 110, 1, 83, 0>>, FlattenSeq([i \in 1..rows |-> <<1, 55>>])) \in Seq(Byte)
  BY <1>2, <1>3, CatTyped
<1> QED
  BY <1>4, Zenon DEF Column, Cat

(* A packet is its number and, behind it, the fields its handler reads.    *)
LEMMA EncodeIs ==
  ASSUME NEW r \in Requests
  PROVE  /\ r.type = "hello" => Encode(r) = Cat(<<PacketHello>>, Hello)
         /\ r.type = "query" =>
              Encode(r) = Cat(<<PacketQuery>>,
                              Cat(Fields(QueryValues(r), QueryFields), MoreBytes(r)))
         /\ r.type = "data" /\ r.cols = 0 =>
              Encode(r) = Cat(<<PacketData>>,
                              Fields(<<r.cols, r.rows>>, <<"varint", "varint">>))
         /\ r.type = "cancel" => Encode(r) = <<PacketCancel>>
         /\ r.type = "ping" => Encode(r) = <<PacketPing>>
         /\ r.type = "other" => Encode(r) = <<9>>
         /\ Encode(r) \in Seq(Byte)
<1>1. \A n \in Byte : <<n>> \in Seq(Byte)
  OBVIOUS
<1>2. /\ PacketHello \in Byte /\ PacketQuery \in Byte /\ PacketData \in Byte
      /\ PacketCancel \in Byte /\ PacketPing \in Byte /\ 9 \in Byte
  BY DEF Byte, PacketHello, PacketQuery, PacketData, PacketCancel, PacketPing
<1>3. /\ <<PacketHello>> \in Seq(Byte) /\ <<PacketQuery>> \in Seq(Byte)
      /\ <<PacketData>> \in Seq(Byte) /\ <<PacketCancel>> \in Seq(Byte)
      /\ <<PacketPing>> \in Seq(Byte) /\ <<9>> \in Seq(Byte) /\ <<>> \in Seq(Byte)
  BY <1>1, <1>2
<1>4. CASE r.type = "hello"
  <2>1. Encode(r) = Cat(<<PacketHello>>, Hello)
    BY <1>4, EncodeUnfolds
  <2>2. Hello \in Seq(Byte)
    BY HelloPacked, WrittenIs
  <2>3. Cat(<<PacketHello>>, Hello) \in Seq(Byte)
    BY <1>3, <2>2, CatTyped
  <2> QED
    BY <1>4, <2>1, <2>3
<1>5. CASE r.type = "query"
  <2>1. PICK h \in Seq(Byte), f \in Seq(Byte) :
          h = <<PacketQuery>> /\ f = Fields(QueryValues(r), QueryFields)
    <3>1. Fields(QueryValues(r), QueryFields) \in Seq(Byte)
      BY <1>5, QueryPacked, WrittenIs
    <3> QED
      BY <1>3, <3>1
  <2>2. PICK s \in Seq(Byte), c \in Seq(Byte) :
          /\ s = IF r.kind = QuerySecondary THEN WriteString(r.secondary) ELSE <<>>
          /\ c = IF r.compression = CompressionEnabled THEN <<9, 9, 9, 9>> ELSE <<>>
    <3>1. WriteString(r.secondary) \in Seq(Byte)
      BY <1>5, NativeAssumption, StringIs
    <3>2. <<9, 9, 9, 9>> \in Seq(Byte)
      BY DEF Byte
    <3> QED
      BY <1>3, <3>1, <3>2
  <2>3. MoreBytes(r) = Cat(s, c)
    BY <2>2, Zenon DEF MoreBytes
  <2>4. Encode(r) = Cat(Cat(Cat(h, f), s), c)
    BY <1>5, <2>1, <2>2, EncodeUnfolds, Zenon
  <2>5. Cat(h, f) \in Seq(Byte) /\ Cat(s, c) \in Seq(Byte)
    BY CatTyped
  <2>6. Cat(Cat(Cat(h, f), s), c) = Cat(Cat(h, f), Cat(s, c))
    BY <2>5, CatAssociative
  <2>7. Cat(Cat(h, f), Cat(s, c)) = Cat(h, Cat(f, Cat(s, c)))
    BY <2>5, CatAssociative
  <2>8. Cat(f, Cat(s, c)) \in Seq(Byte)
    BY <2>5, CatTyped
  <2>9. Cat(h, Cat(f, Cat(s, c))) \in Seq(Byte)
    BY <2>8, CatTyped
  <2>10. Encode(r) = Cat(h, Cat(f, Cat(s, c)))
    BY <2>4, <2>6, <2>7, Zenon
  <2> QED
    BY <1>5, <2>1, <2>3, <2>9, <2>10
<1>6. CASE r.type = "data"
  <2>1. PICK h \in Seq(Byte), c \in Seq(Byte), s \in Seq(Byte) :
          h = <<PacketData>> /\ c = WriteVarInt(r.cols) /\ s = WriteVarInt(r.rows)
    <3>1. r.cols \in Uints /\ r.rows \in Uints
      BY <1>6, NativeAssumption
    <3>2. WriteVarInt(r.cols) \in Seq(Byte)
      <4>1. PICK n : Encodes(WriteVarInt(r.cols), r.cols, n)
        BY <3>1, VarIntIs
      <4> QED
        BY <4>1 DEF Encodes
    <3>3. WriteVarInt(r.rows) \in Seq(Byte)
      <4>1. PICK n : Encodes(WriteVarInt(r.rows), r.rows, n)
        BY <3>1, VarIntIs
      <4> QED
        BY <4>1 DEF Encodes
    <3> QED
      BY <1>3, <3>2, <3>3
  <2>2. PICK f \in Seq(Byte) : f = FlattenSeq([i \in 1..r.cols |-> Column(r.rows)])
    <3>1. r.rows \in Nat /\ r.cols \in Nat
      BY <1>6, NativeAssumption DEF Uints
    <3>2. PICK x \in Seq(Byte) : x = Column(r.rows)
      BY <3>1, ColumnTyped
    <3>3. [i \in 1..r.cols |-> Column(r.rows)] \in Seq(Seq(Byte))
      <4>1. \A n \in Nat : [i \in 1..n |-> x] \in Seq(Seq(Byte))
        OBVIOUS
      <4> QED
        BY <3>1, <3>2, <4>1
    <3>4. FlattenSeq([i \in 1..r.cols |-> Column(r.rows)]) \in Seq(Byte)
      BY <3>3, FlattenTyped
    <3> QED
      BY <3>4
  <2>3. Encode(r) = Cat(Cat(Cat(h, c), s), f)
    BY <1>6, <2>1, <2>2, EncodeUnfolds, Zenon
  <2>4. Cat(h, c) \in Seq(Byte) /\ Cat(c, s) \in Seq(Byte)
    BY CatTyped
  <2>5. Cat(Cat(h, c), s) \in Seq(Byte) /\ Cat(Cat(h, c), s) = Cat(h, Cat(c, s))
    BY <2>4, CatTyped, CatAssociative
  <2>6. Cat(Cat(Cat(h, c), s), f) \in Seq(Byte)
    BY <2>5, CatTyped
  <2>7. r.cols = 0 => Cat(Cat(Cat(h, c), s), f) = Cat(h, Cat(c, s))
    <3>1. SUFFICES ASSUME r.cols = 0 PROVE f = <<>>
      BY <2>5, CatEmpty
    <3>2. [i \in 1..r.cols |-> Column(r.rows)] = <<>>
      BY <3>1
    <3> QED
      BY <2>2, <3>2, FlattenEmpty
  <2>8. Cat(c, s) = Fields(<<r.cols, r.rows>>, <<"varint", "varint">>)
    BY <1>6, <2>1, BlockPacked
  <2> QED
    BY <1>6, <2>1, <2>3, <2>6, <2>7, <2>8
<1>7. CASE r.type \in {"cancel", "ping", "other"}
  BY <1>3, <1>7, EncodeUnfolds
<1>8. r.type \in {"hello", "query", "data", "cancel", "ping", "other"}
  BY NativeAssumption DEF Requested
<1> QED
  BY <1>4, <1>5, <1>6, <1>7, <1>8

-----------------------------------------------------------------------------
(* A packet e at the beginning of the stream b is read to its end, or the  *)
(* stream is when it ends within the packet.                               *)
Reaches(b, e, q) ==
  \/ Whole(b, 1, e) /\ q.end = "got" /\ q.next = Len(e) + 1
  \/ ~ Whole(b, 1, e) /\ q.end = "short" /\ q.next = Len(b) + 1

LEMMA BodyIs ==
  ASSUME NEW b, NEW c \in Byte, NEW s \in Seq(Byte), NEW t \in Seq(Byte),
         Meets(b, 1, Cat(Cat(<<c>>, s), t)), b # <<>>
  PROVE  /\ b[1] = c /\ Meets(b, 2, s)
         /\ Len(Cat(<<c>>, s)) = Len(s) + 1
         /\ Whole(b, 2, s) <=> Whole(b, 1, Cat(<<c>>, s))
<1>0. <<c>> \in Seq(Byte) /\ Len(<<c>>) = 1 /\ <<c>>[1] = c
  OBVIOUS
<1>1. PICK h \in Seq(Byte) : h = <<c>> /\ Len(h) = 1 /\ h[1] = c
  BY <1>0, Zenon
<1>2. PICK k \in Nat, m \in Nat : k = Len(s) /\ m = Len(b) /\ b \in Seq(Byte)
  BY CatParts DEF Meets
<1>3. m >= 1
  BY <1>2
<1>4. Cat(h, s) \in Seq(Byte) /\ Len(Cat(h, s)) = 1 + k
  BY <1>1, <1>2, CatParts
<1>5. Meets(b, 1, Cat(h, s))
  BY <1>1, <1>4, MeetsFirst
<1>6. Meets(b, 1, h)
  BY <1>5, MeetsFirst
<1>7. b[1] = c
  <2>1. 1 \in 1..Len(h) /\ 1 - 1 + 1 <= Len(b) /\ 1 - 1 + 1 = 1
    BY <1>1, <1>2, <1>3
  <2>2. b[1 - 1 + 1] = h[1]
    BY <1>6, <2>1 DEF Meets
  <2> QED
    BY <1>1, <2>1, <2>2
<1>8. Meets(b, 2, s)
  <2>1. Whole(b, 1, h)
    BY <1>1, <1>2, <1>3 DEF Whole
  <2>2. 2 = 1 + Len(h)
    BY <1>1
  <2> QED
    BY <1>5, <2>1, <2>2, MeetsSecond
<1>9. Whole(b, 2, s) <=> Whole(b, 1, Cat(h, s))
  BY <1>2, <1>4 DEF Whole
<1>10. Len(Cat(h, s)) = Len(s) + 1
  BY <1>2, <1>4
<1> QED
  BY <1>1, <1>7, <1>8, <1>9, <1>10

LEMMA FieldsReach ==
  ASSUME NEW b, NEW c \in Byte, NEW v, NEW kinds, NEW n \in Nat, NEW e, NEW t \in Seq(Byte),
         Packed(v, kinds, n), e = Cat(<<c>>, Fields(v, kinds)), Meets(b, 1, Cat(e, t)),
         b # <<>>
  PROVE  Reaches(b, e, ReadFields(b, 2, kinds))
<1>1. PICK s \in Seq(Byte) : s = Fields(v, kinds)
  BY WrittenIs
<1>2. /\ Meets(b, 2, s) /\ Len(e) = Len(s) + 1
      /\ Whole(b, 2, s) <=> Whole(b, 1, e)
  BY <1>1, BodyIs
<1>3. PICK j \in 0..n : Parsed(ReadFields(b, 2, kinds), b, 2, v, kinds, n, j)
  BY <1>1, <1>2, FieldsRead
<1>4. PICK k \in Nat : k = Len(s)
  BY CatParts
<1>5. 2 + k = k + 1 + 1
  OBVIOUS
<1> QED
  BY <1>1, <1>2, <1>3, <1>4, <1>5 DEF Parsed, Reaches

(* Behind the end of the stream nothing is read.                           *)
LEMMA AtTheEnd ==
  ASSUME NEW b \in Seq(Byte), NEW v, NEW kinds, NEW n \in Nat, Packed(v, kinds, n)
  PROVE  ReadFields(b, Len(b) + 1, kinds).next = Len(b) + 1
<1>1. PICK s \in Seq(Byte) : s = Fields(v, kinds)
  BY WrittenIs
<1>2. PICK m \in Nat, k \in Nat : m = Len(b) /\ k = Len(s)
  BY CatParts
<1>3. Meets(b, m + 1, s)
  <2>1. \A x \in 1..Len(s) : ~ (m + 1 - 1 + x <= m)
    BY <1>2
  <2> QED
    BY <1>2, <2>1 DEF Meets
<1>4. PICK j \in 0..n : Parsed(ReadFields(b, m + 1, kinds), b, m + 1, v, kinds, n, j)
  BY <1>1, <1>3, FieldsRead
<1>5. CASE Whole(b, m + 1, s)
  <2>1. k = 0
    BY <1>2, <1>5 DEF Whole
  <2>2. ReadFields(b, m + 1, kinds).next = m + 1 + k
    BY <1>1, <1>2, <1>4, <1>5 DEF Parsed
  <2> QED
    BY <1>2, <2>1, <2>2
<1>6. CASE ~ Whole(b, m + 1, s)
  BY <1>1, <1>2, <1>4, <1>6 DEF Parsed
<1> QED
  BY <1>5, <1>6

LEMMA SizesPacked ==
  ASSUME NEW x
  PROVE  Packed(<<9>>, MoreKinds(0, x), Len(MoreKinds(0, x)))
<1>1. PICK kinds : kinds = MoreKinds(0, x)
  OBVIOUS
<1>2. kinds \in Seq(FieldKinds)
  BY <1>1, MoreKindsAre
<1>3. 0 # QuerySecondary
  BY DEF QuerySecondary
<1>4. Sendable(9, "uint32")
  BY DEF Sendable, Byte
<1>5. CASE x = CompressionEnabled
  <2>1. kinds = <<"uint32">> /\ Len(kinds) = 1
    BY <1>1, <1>3, <1>5, MoreKindsAre
  <2>2. kinds[1] = "uint32" /\ <<9>>[1] = 9
    BY <2>1
  <2>3. \A i \in 1..1 : i = 1
    OBVIOUS
  <2>4. Packed(<<9>>, kinds, 1)
    BY <1>2, <1>4, <2>1, <2>2, <2>3 DEF Packed
  <2> QED
    BY <1>1, <2>1, <2>4
<1>6. CASE x # CompressionEnabled
  <2>1. kinds = <<>> /\ Len(kinds) = 0
    BY <1>1, <1>3, <1>6, MoreKindsAre
  <2>2. Packed(<<9>>, kinds, 0)
    BY <1>2, <2>1 DEF Packed
  <2> QED
    BY <1>1, <2>1, <2>2
<1> QED
  BY <1>5, <1>6

-----------------------------------------------------------------------------
(* The fixed fields of a query and what is read behind them.               *)
LEMMA QueryIs ==
  ASSUME NEW q \in Query
  PROVE  \E fixed, more :
           /\ fixed = ReadFields(wire, 2, QueryFields)
           /\ more = ReadFields(wire, fixed.next, MoreKinds(KindField(fixed), fixed.val[3]))
           /\ q = PacketOf(fixed, more)
<1>1. PICK fixed : fixed = ReadFields(wire, 2, QueryFields)
  OBVIOUS
<1>2. PICK more : more = ReadFields(wire, fixed.next, Second(fixed) \o Sizes(fixed))
  OBVIOUS
<1>3. Second(fixed) \o Sizes(fixed) = MoreKinds(KindField(fixed), fixed.val[3])
  BY Zenon DEF Second, Sizes, MoreKinds
<1> DEFINE S(f) == {PacketOf(f, m) : m \in {ReadFields(wire, f.next, Second(f) \o Sizes(f))}}
<1>4. \A x : x \in Query <=> \E f : f = fixed /\ x \in S(f)
  <2>1. Query = UNION {S(f) : f \in {ReadFields(wire, 2, QueryFields)}}
    BY Zenon DEF Query
  <2> HIDE DEF S
  <2> QED
    BY <1>1, <2>1
<1>5. \A x : x \in S(fixed) <=> x = PacketOf(fixed, more)
  BY <1>2
<1>6. q = PacketOf(fixed, more)
  <2> HIDE DEF S
  <2> QED
    BY <1>4, <1>5
<1> QED
  BY <1>1, <1>2, <1>3, <1>6

(* The packet as it is read off.                                           *)
LEMMA PacketParts ==
  ASSUME NEW fixed, NEW more, NEW q, q = PacketOf(fixed, more)
  PROVE  /\ q.next = more.next
         /\ fixed.end = "short" => q.end = "short"
         /\ fixed.end # "short" => q.end = more.end
         /\ KindField(fixed) # QuerySecondary => q.text = TextField(fixed)
         /\ KindField(fixed) = QuerySecondary /\ more.val[1] = <<>> => q.text = TextField(fixed)
         /\ KindField(fixed) = QuerySecondary /\ more.val[1] # <<>> => q.text = more.val[1]
<1>1. <<"string">> # <<>>
  OBVIOUS
<1>2. q = [text |-> IF Second(fixed) = <<>> \/ more.val[1] = <<>> THEN TextField(fixed)
                    ELSE more.val[1],
           next |-> more.next,
           end |-> IF fixed.end = "short" THEN fixed.end ELSE more.end]
  BY Zenon DEF PacketOf
<1>3. /\ q.text = IF Second(fixed) = <<>> \/ more.val[1] = <<>> THEN TextField(fixed)
                  ELSE more.val[1]
      /\ q.next = more.next
      /\ q.end = IF fixed.end = "short" THEN fixed.end ELSE more.end
  BY <1>2
<1>4. CASE KindField(fixed) = QuerySecondary
  <2>1. Second(fixed) # <<>>
    BY <1>1, <1>4 DEF Second
  <2> QED
    BY <1>3, <1>4, <2>1
<1>5. CASE KindField(fixed) # QuerySecondary
  <2>1. Second(fixed) = <<>>
    BY <1>5 DEF Second
  <2> QED
    BY <1>3, <1>5, <2>1
<1> QED
  BY <1>4, <1>5

(* What was read of the three fixed fields that matter.                    *)
LEMMA FixedFields ==
  ASSUME NEW b, NEW fixed, NEW r \in Requests, NEW j \in 0..14, r.type = "query",
         Parsed(fixed, b, 2, QueryValues(r), QueryFields, 14, j)
  PROVE  /\ KindField(fixed) = IF j = 14 THEN r.kind ELSE 0
         /\ TextField(fixed) = IF j >= 13 THEN r.text ELSE <<>>
         /\ j = 14 => fixed.val[3] = r.compression
<1>1. Len(fixed.val) = 14 /\ \A k \in 1..14 : fixed.val[k] = Value(QueryValues(r), QueryFields, j, k)
  BY DEF Parsed
<1>2. KindField(fixed) = fixed.val[14] /\ TextField(fixed) = fixed.val[13]
  BY <1>1 DEF KindField, TextField
<1>3. /\ QueryValues(r)[14] = r.kind /\ QueryFields[14] = "varint"
      /\ QueryValues(r)[13] = r.text /\ QueryFields[13] = "string"
      /\ QueryValues(r)[3] = r.compression /\ QueryFields[3] = "varint"
  BY DEF QueryValues, QueryFields
<1>4. /\ Content(r.kind, "varint") = r.kind /\ Content(r.text, "string") = r.text
      /\ Content(r.compression, "varint") = r.compression
  BY DEF Content
<1>5. Missing("varint") = 0 /\ Missing("string") = <<>>
  BY ByKind
<1>6. /\ fixed.val[14] = IF 14 <= j THEN r.kind ELSE 0
      /\ fixed.val[13] = IF 13 <= j THEN r.text ELSE <<>>
      /\ fixed.val[3] = IF 3 <= j THEN r.compression ELSE 0
  <2>1. 14 \in 1..14 /\ 13 \in 1..14 /\ 3 \in 1..14
    OBVIOUS
  <2>2. /\ fixed.val[14] = Value(QueryValues(r), QueryFields, j, 14)
        /\ fixed.val[13] = Value(QueryValues(r), QueryFields, j, 13)
        /\ fixed.val[3] = Value(QueryValues(r), QueryFields, j, 3)
    BY <1>1, <2>1
  <2> QED
    BY <1>3, <1>4, <1>5, <2>2 DEF Value
<1> QED
  BY <1>2, <1>6

(* The text of a query that is there is the one the client wants executed; *)
(* of one that is cut off it is one of its texts, as a whole, or nothing.  *)
LEMMA QueryReaches ==
  ASSUME NEW r \in Requests, NEW t \in Seq(Byte), NEW q \in Query, r.type = "query",
         Meets(wire, 1, Cat(Encode(r), t)), wire # <<>>
  PROVE  /\ Reaches(wire, Encode(r), q)
         /\ Whole(wire, 1, Encode(r)) => q.text = Wanted(r)
         /\ ~ Whole(wire, 1, Encode(r)) => q.text \in {<<>>, r.text, Wanted(r)}
<1>1. PICK fixed, more :
        /\ fixed = ReadFields(wire, 2, QueryFields)
        /\ more = ReadFields(wire, fixed.next, MoreKinds(KindField(fixed), fixed.val[3]))
        /\ q = PacketOf(fixed, more)
  BY QueryIs
<1>2. PICK f \in Seq(Byte), g \in Seq(Byte), e \in Seq(Byte) :
        /\ f = Fields(QueryValues(r), QueryFields) /\ g = MoreBytes(r)
        /\ e = Encode(r) /\ e = Cat(<<PacketQuery>>, Cat(f, g))
  <2>1. Fields(QueryValues(r), QueryFields) \in Seq(Byte)
    BY QueryPacked, WrittenIs
  <2>2. Len(MoreKinds(r.kind, r.compression)) \in Nat
    BY MoreKindsAre
  <2>3. MoreBytes(r) \in Seq(Byte)
    BY <2>2, MorePacked, WrittenIs
  <2>4. /\ Encode(r) = Cat(<<PacketQuery>>, Cat(Fields(QueryValues(r), QueryFields), MoreBytes(r)))
        /\ Encode(r) \in Seq(Byte)
    BY EncodeIs
  <2> QED
    BY <2>1, <2>3, <2>4
<1>3. PICK k \in Nat, l \in Nat, m \in Nat :
        /\ k = Len(f) /\ l = Len(g) /\ m = Len(wire) /\ Len(Cat(f, g)) = k + l
        /\ Cat(f, g) \in Seq(Byte) /\ wire \in Seq(Byte)
  BY CatParts DEF Meets
<1>4. /\ Meets(wire, 2, Cat(f, g)) /\ Len(e) = (k + l) + 1
      /\ Whole(wire, 2, Cat(f, g)) <=> Whole(wire, 1, e)
  <2>1. PacketQuery \in Byte
    BY DEF PacketQuery, Byte
  <2> QED
    BY <1>2, <1>3, <2>1, BodyIs
<1>5. Whole(wire, 1, e) <=> 2 + (k + l) <= m + 1
  BY <1>3, <1>4 DEF Whole
<1>6. Meets(wire, 2, f)
  BY <1>4, MeetsFirst
<1>7. PICK j \in 0..14 : Parsed(fixed, wire, 2, QueryValues(r), QueryFields, 14, j)
  <2>1. Packed(QueryValues(r), QueryFields, 14)
    BY QueryPacked
  <2> QED
    BY <1>1, <1>2, <1>6, <2>1, FieldsRead
<1>8. /\ KindField(fixed) = IF j = 14 THEN r.kind ELSE 0
      /\ TextField(fixed) = IF j >= 13 THEN r.text ELSE <<>>
      /\ j = 14 => fixed.val[3] = r.compression
  BY <1>7, FixedFields
<1>9. /\ q.next = more.next
      /\ fixed.end = "short" => q.end = "short"
      /\ fixed.end # "short" => q.end = more.end
      /\ KindField(fixed) # QuerySecondary => q.text = TextField(fixed)
      /\ KindField(fixed) = QuerySecondary /\ more.val[1] = <<>> => q.text = TextField(fixed)
      /\ KindField(fixed) = QuerySecondary /\ more.val[1] # <<>> => q.text = more.val[1]
  BY <1>1, PacketParts
<1>10. CASE ~ Whole(wire, 2, f)
  <2>1. ~ Whole(wire, 1, e)
    <3>1. ~ (2 + k <= m + 1)
      BY <1>3, <1>10 DEF Whole
    <3> QED
      BY <1>5, <3>1
  <2>2. j < 14 /\ fixed.end = "short" /\ fixed.next = m + 1
    BY <1>2, <1>3, <1>7, <1>10 DEF Parsed
  <2>3. KindField(fixed) = 0 /\ TextField(fixed) \in {<<>>, r.text}
    BY <1>8, <2>2
  <2>4. q.text \in {<<>>, r.text}
    BY <1>9, <2>3 DEF QuerySecondary
  <2>5. more.next = m + 1
    <3>1. more = ReadFields(wire, m + 1, MoreKinds(0, fixed.val[3]))
      BY <1>1, <2>2, <2>3
    <3>2. Len(MoreKinds(0, fixed.val[3])) \in Nat
      BY MoreKindsAre
    <3> QED
      BY <1>3, <3>1, <3>2, SizesPacked, AtTheEnd
  <2>6. Reaches(wire, e, q)
    BY <1>3, <1>9, <2>1, <2>2, <2>5 DEF Reaches
  <2> QED
    BY <1>2, <2>1, <2>4, <2>6
<1>11. CASE Whole(wire, 2, f)
  <2>1. j = 14 /\ fixed.end = "got" /\ fixed.next = 2 + k
    BY <1>2, <1>3, <1>7, <1>11 DEF Parsed
  <2>2. KindField(fixed) = r.kind /\ TextField(fixed) = r.text /\ fixed.val[3] = r.compression
    BY <1>8, <2>1
  <2>3. PICK v, kinds : v = MoreValues(r) /\ kinds = MoreKinds(r.kind, r.compression)
    OBVIOUS
  <2>4. PICK n \in Nat : n = Len(kinds) /\ Packed(v, kinds, n) /\ g = Fields(v, kinds)
    <3>1. Len(MoreKinds(r.kind, r.compression)) \in Nat
      BY MoreKindsAre
    <3> QED
      BY <1>2, <2>3, <3>1, MorePacked
  <2>5. more = ReadFields(wire, 2 + k, kinds)
    BY <1>1, <2>1, <2>2, <2>3
  <2>6. Meets(wire, 2 + k, g)
    <3>1. 2 + k \in Nat /\ 2 + k = 2 + Len(f)
      BY <1>3
    <3> QED
      BY <1>4, <1>11, <3>1, MeetsSecond
  <2>7. PICK i \in 0..n : Parsed(more, wire, 2 + k, v, kinds, n, i)
    BY <2>4, <2>5, <2>6, FieldsRead
  <2>8. Whole(wire, 2 + k, g) <=> Whole(wire, 1, e)
    <3>1. (2 + k) + l = 2 + (k + l)
      OBVIOUS
    <3> QED
      BY <1>3, <1>5, <3>1 DEF Whole
  <2>9. r.kind = QuerySecondary => more.val[1] = IF i >= 1 THEN r.secondary ELSE <<>>
    <3> SUFFICES ASSUME r.kind = QuerySecondary
                 PROVE  more.val[1] = IF i >= 1 THEN r.secondary ELSE <<>>
      OBVIOUS
    <3>1. n >= 1 /\ kinds[1] = "string"
      <4>1. \/ kinds = <<"string", "uint32">> /\ n = 2
            \/ kinds = <<"string">> /\ n = 1
        BY <2>3, <2>4, MoreKindsAre, Zenon
      <4> QED
        BY <4>1
    <3>2. v[1] = r.secondary
      BY <2>3 DEF MoreValues
    <3>3. more.val[1] = Value(v, kinds, i, 1)
      <4>1. 1 \in 1..n
        BY <3>1
      <4> QED
        BY <2>7, <4>1 DEF Parsed
    <3>4. Missing("string") = <<>>
      BY ByKind
    <3>5. Content(r.secondary, "string") = r.secondary
      BY DEF Content
    <3> QED
      BY <3>1, <3>2, <3>3, <3>4, <3>5 DEF Value
  <2>10. r.kind = QuerySecondary => n >= 1
    <3> SUFFICES ASSUME r.kind = QuerySecondary PROVE n >= 1
      OBVIOUS
    <3>1. Len(MoreKinds(r.kind, r.compression)) \in {1, 2}
      BY MoreKindsAre
    <3>2. n \in {1, 2}
      BY <2>3, <2>4, <3>1
    <3> QED
      BY <3>2
  <2>11. CASE Whole(wire, 2 + k, g)
    <3>1. i = n /\ more.end = "got" /\ more.next = (2 + k) + l
      BY <1>3, <2>4, <2>7, <2>11 DEF Parsed
    <3>2. q.text = Wanted(r)
      BY <1>9, <2>2, <2>9, <2>10, <3>1 DEF Wanted
    <3>3. q.end = "got" /\ q.next = Len(e) + 1
      BY <1>4, <1>9, <2>1, <3>1
    <3> QED
      BY <1>2, <2>8, <2>11, <3>2, <3>3 DEF Reaches
  <2>12. CASE ~ Whole(wire, 2 + k, g)
    <3>1. more.end = "short" /\ more.next = m + 1
      BY <1>3, <2>4, <2>7, <2>12 DEF Parsed
    <3>2. q.text \in {r.text, Wanted(r)}
      BY <1>9, <2>2, <2>9 DEF Wanted
    <3>3. q.end = "short" /\ q.next = Len(wire) + 1
      BY <1>3, <1>9, <2>1, <3>1
    <3> QED
      BY <1>2, <2>8, <2>12, <3>2, <3>3 DEF Reaches
  <2> QED
    BY <2>11, <2>12
<1> QED
  BY <1>10, <1>11

-----------------------------------------------------------------------------
(* The packets of the answers.                                             *)
Valid(packets) ==
  packets \in Seq(Packets) /\ \A i \in DOMAIN packets : PacketOK(packets[i])

LEMMA Divided ==
  ASSUME NEW n \in Nat, NEW m \in Nat, m > 0
  PROVE  n \div m \in Nat /\ n % m \in Nat /\ n % m < m
  OBVIOUS

LEMMA Enumerated ==
  ASSUME NEW S, NEW s, NEW n \in Nat, s = [i \in 1..n |-> s[i]], \A i \in 1..n : s[i] \in S
  PROVE  s \in Seq(S) /\ Len(s) = n
  OBVIOUS

LEMMA ByRowTyped ==
  ASSUME NEW cols \in Nat \ {0}, NEW rows \in Nat
  PROVE  ByRow(cols, rows) \in Seq(Nat \X Nat) /\ Len(ByRow(cols, rows)) = cols * rows
<1>1. PICK n \in Nat : n = cols * rows
  OBVIOUS
<1>2. ASSUME NEW i \in 1..n
      PROVE  <<((i - 1) % cols) + 1, ((i - 1) \div cols) + 1>> \in Nat \X Nat
  <2>1. i - 1 \in Nat /\ cols > 0
    OBVIOUS
  <2>2. (i - 1) \div cols \in Nat /\ (i - 1) % cols \in Nat
    BY <2>1, Divided
  <2> QED
    BY <2>2
<1>3. ByRow(cols, rows) = [i \in 1..n |-> <<((i - 1) % cols) + 1, ((i - 1) \div cols) + 1>>]
  BY <1>1 DEF ByRow
<1>4. ByRow(cols, rows) \in Seq(Nat \X Nat) /\ Len(ByRow(cols, rows)) = n
  <2>1. PICK s : s = ByRow(cols, rows)
    OBVIOUS
  <2>2. s = [i \in 1..n |-> s[i]]
    BY <1>3, <2>1
  <2>3. \A i \in 1..n : s[i] \in Nat \X Nat
    BY <1>2, <1>3, <2>1
  <2>4. s \in Seq(Nat \X Nat) /\ Len(s) = n
    BY <2>2, <2>3, Enumerated
  <2> QED
    BY <2>1, <2>4
<1> QED
  BY <1>1, <1>4

LEMMA ByColumnTyped ==
  ASSUME NEW cols \in Nat \ {0}, NEW rows \in Nat
  PROVE  ByColumn(cols, rows) \in Seq(Nat \X Nat) /\ Len(ByColumn(cols, rows)) = cols * rows
<1>1. PICK n \in Nat : n = cols * rows
  OBVIOUS
<1>2. ASSUME NEW i \in 1..n
      PROVE  <<((i - 1) \div rows) + 1, ((i - 1) % rows) + 1>> \in Nat \X Nat
  <2>1. i - 1 \in Nat
    OBVIOUS
  <2>2. rows > 0
    <3>1. rows = 0 => n = 0
      BY <1>1
    <3> QED
      BY <3>1
  <2>3. (i - 1) \div rows \in Nat /\ (i - 1) % rows \in Nat
    BY <2>1, <2>2, Divided
  <2> QED
    BY <2>3
<1>3. ByColumn(cols, rows) = [i \in 1..n |-> <<((i - 1) \div rows) + 1, ((i - 1) % rows) + 1>>]
  BY <1>1 DEF ByColumn
<1>4. ByColumn(cols, rows) \in Seq(Nat \X Nat) /\ Len(ByColumn(cols, rows)) = n
  <2>1. PICK s : s = ByColumn(cols, rows)
    OBVIOUS
  <2>2. s = [i \in 1..n |-> s[i]]
    BY <1>3, <2>1
  <2>3. \A i \in 1..n : s[i] \in Nat \X Nat
    BY <1>2, <1>3, <2>1
  <2>4. s \in Seq(Nat \X Nat) /\ Len(s) = n
    BY <2>2, <2>3, Enumerated
  <2> QED
    BY <2>1, <2>4
<1> QED
  BY <1>1, <1>4

LEMMA SimplePackets ==
  ASSUME NEW type \in {"hello", "pong", "progress", "exception", "end"}
  PROVE  Packet(type) \in Packets /\ PacketOK(Packet(type)) /\ Packet(type).type = type
<1>1. Packet(type) \in Packets /\ Packet(type).type = type
  BY DEF Packet, Packets
<1> QED
  BY <1>1 DEF PacketOK

LEMMA BlockTyped ==
  ASSUME NEW cols \in Nat, NEW rows \in Nat, NEW values \in Seq(Nat \X Nat),
         Len(values) = cols * rows
  PROVE  /\ Block(cols, rows, values) \in Packets
         /\ PacketOK(Block(cols, rows, values))
         /\ Block(cols, rows, values).type = "data"
         /\ Block(cols, rows, values).values = values
         /\ Block(cols, rows, values).cols = cols /\ Block(cols, rows, values).rows = rows
<1>1. /\ Block(cols, rows, values) \in Packets
      /\ Block(cols, rows, values).type = "data"
      /\ Block(cols, rows, values).values = values
      /\ Block(cols, rows, values).cols = cols /\ Block(cols, rows, values).rows = rows
  BY DEF Block, Packets
<1> QED
  BY <1>1 DEF PacketOK

(* Sequences of one, two and three valid packets.                          *)
LEMMA ValidFew ==
  ASSUME NEW p \in Packets, NEW q \in Packets, NEW r \in Packets,
         PacketOK(p), PacketOK(q), PacketOK(r)
  PROVE  Valid(<<p>>) /\ Valid(<<p, q>>) /\ Valid(<<p, q, r>>)
<1>1. Valid(<<p>>)
  BY DEF Valid
<1>2. Valid(<<p, q>>)
  BY DEF Valid
<1>3. Valid(<<p, q, r>>)
  BY DEF Valid
<1> QED
  BY <1>1, <1>2, <1>3

LEMMA KindTyped ==
  ASSUME NEW text
  PROVE  KindOf(text) \in Kinds
  BY NativeAssumption DEF KindOf, Kinds

(* The answers, one by one.                                                *)
LEMMA AnswersAre ==
  ASSUME NEW kind \in Kinds, NEW packets \in AnswersTo(kind)
  PROVE  \/ kind = "blank" /\ packets = sendEmptyBlock
         \/ kind = "system" /\ \E t \in Tables : packets = sendNativeResponse(t)
         \/ kind \in {"insert", "write"} /\ packets = sendNativeProgress
         \/ kind = "read" /\ \E t \in Tables : \E n \in 0..t.rows : packets = sendNativeData(t, n)
         \/ kind = "read" /\ packets = <<Packet("progress")>> \o sendNativeError
         \/ kind # "blank" /\ packets = sendNativeError
<1>1. /\ "blank" # "system" /\ "blank" # "insert" /\ "blank" # "write" /\ "blank" # "read"
      /\ "system" # "insert" /\ "system" # "write" /\ "system" # "read"
      /\ "insert" # "read" /\ "write" # "read"
  OBVIOUS
<1>2. CASE kind = "blank"
  <2>1. AnswersTo(kind) = {sendEmptyBlock}
    BY <1>2, Zenon DEF AnswersTo
  <2> QED
    BY <1>2, <2>1, Zenon
<1>3. CASE kind = "system"
  <2>1. AnswersTo(kind) = {sendNativeResponse(t) : t \in Tables} \cup {sendNativeError}
    BY <1>1, <1>3, Zenon DEF AnswersTo
  <2> QED
    BY <1>1, <1>3, <2>1, Zenon
<1>4. CASE kind \in {"insert", "write"}
  <2>1. kind # "blank" /\ kind # "system"
    BY <1>4
  <2>2. AnswersTo(kind) = {sendNativeProgress, sendNativeError}
    BY <1>4, <2>1, Zenon DEF AnswersTo
  <2> QED
    BY <1>4, <2>1, <2>2, Zenon
<1>5. CASE kind = "read"
  <2>1. kind \notin {"insert", "write"}
    BY <1>5
  <2> DEFINE A == UNION {{sendNativeData(t, n) : n \in 0..t.rows} : t \in Tables}
             B == {sendNativeError, <<Packet("progress")>> \o sendNativeError}
  <2>2. AnswersTo(kind) = A \cup B
    BY <1>1, <1>5, <2>1, Zenon DEF AnswersTo
  <2>3. CASE packets \in A
    <3>1. \E t \in Tables : \E n \in 0..t.rows : packets = sendNativeData(t, n)
      BY <2>3
    <3> QED
      BY <1>5, <3>1, Zenon
  <2>4. CASE packets \in B
    BY <1>1, <1>5, <2>4, Zenon
  <2>5. packets \in A \/ packets \in B
    <3> HIDE DEF A, B
    <3> QED
      BY <2>2
  <2> QED
    BY <2>3, <2>4, <2>5, Zenon
<1> QED
  BY <1>2, <1>3, <1>4, <1>5 DEF Kinds

LEMMA Triple ==
  ASSUME NEW S, NEW x \in S, NEW y \in S, NEW z \in S
  PROVE  <<x>> \o <<y, z>> = <<x, y, z>>
<1>1. <<x>> \in Seq(S) /\ <<y, z>> \in Seq(S)
  OBVIOUS
<1>2. /\ Len(<<x>>) = 1 /\ Len(<<y, z>>) = 2 /\ <<x>>[1] = x
      /\ <<y, z>>[1] = y /\ <<y, z>>[2] = z
  OBVIOUS
<1>3. ASSUME NEW s \in Seq(S), NEW t \in Seq(S), Len(s) = 1, Len(t) = 2
      PROVE  /\ s \o t \in Seq(S) /\ Len(s \o t) = 3
             /\ (s \o t)[1] = s[1] /\ (s \o t)[2] = t[1] /\ (s \o t)[3] = t[2]
  <2>1. s \o t \in Seq(S)
    OBVIOUS
  <2>2. Len(s \o t) = Len(s) + Len(t)
    OBVIOUS
  <2>3. 1 \in 1..Len(s) /\ 1 \in 1..Len(t) /\ 2 \in 1..Len(t)
    BY <1>3
  <2>4. \A i \in 1..Len(s) : (s \o t)[i] = s[i]
    OBVIOUS
  <2>5. \A i \in 1..Len(t) : (s \o t)[Len(s) + i] = t[i]
    OBVIOUS
  <2>6. (s \o t)[1] = s[1] /\ (s \o t)[1 + 1] = t[1] /\ (s \o t)[1 + 2] = t[2]
    BY <1>3, <2>3, <2>4, <2>5
  <2> QED
    BY <1>3, <2>1, <2>2, <2>6
<1>4. ASSUME NEW u \in Seq(S), Len(u) = 3, u[1] = x, u[2] = y, u[3] = z
      PROVE  u = <<x, y, z>>
  BY <1>4
<1>5. PICK u : u = <<x>> \o <<y, z>>
  OBVIOUS
<1>6. u \in Seq(S) /\ Len(u) = 3 /\ u[1] = x /\ u[2] = y /\ u[3] = z
  BY <1>1, <1>2, <1>3, <1>5
<1> QED
  BY <1>4, <1>5, <1>6

LEMMA ExceptionAfter ==
  <<Packet("progress")>> \o sendNativeError
    = <<Packet("progress"), Packet("exception"), EndOfStream>>
<1>1. /\ Packet("progress") \in Packets /\ Packet("exception") \in Packets
      /\ EndOfStream \in Packets
  BY SimplePackets DEF EndOfStream
<1> QED
  BY <1>1, Triple, Zenon DEF sendNativeError

LEMMA AnswersValid ==
  ASSUME NEW kind \in Kinds, NEW packets \in AnswersTo(kind)
  PROVE  Valid(packets)
<1>1. PICK p \in Packets, x \in Packets, e \in Packets :
        /\ p = Packet("progress") /\ x = Packet("exception") /\ e = EndOfStream
        /\ PacketOK(p) /\ PacketOK(x) /\ PacketOK(e)
  BY SimplePackets DEF EndOfStream
<1>2. CASE packets = sendEmptyBlock
  <2>1. <<>> \in Seq(Nat \X Nat) /\ Len(<<>>) = 0 * 0
    OBVIOUS
  <2>2. Block(0, 0, <<>>) \in Packets /\ PacketOK(Block(0, 0, <<>>))
    BY <2>1, BlockTyped
  <2> QED
    BY <1>2, <2>2, ValidFew DEF sendEmptyBlock
<1>3. ASSUME NEW t \in Tables, packets = sendNativeResponse(t) PROVE Valid(packets)
  <2>1. t.cols \in Nat \ {0} /\ t.rows \in Nat
    BY NativeAssumption
  <2>2. PICK v \in Seq(Nat \X Nat) : v = ByRow(t.cols, t.rows) /\ Len(v) = t.cols * t.rows
    BY <2>1, ByRowTyped
  <2>3. Block(t.cols, t.rows, v) \in Packets /\ PacketOK(Block(t.cols, t.rows, v))
    BY <2>1, <2>2, BlockTyped
  <2> QED
    BY <1>1, <1>3, <2>2, <2>3, ValidFew DEF sendNativeResponse
<1>4. CASE packets = sendNativeProgress
  BY <1>1, <1>4, ValidFew DEF sendNativeProgress
<1>5. ASSUME NEW t \in Tables, NEW n \in 0..t.rows, packets = sendNativeData(t, n)
      PROVE  Valid(packets)
  <2>1. t.cols \in Nat \ {0} /\ t.rows \in Nat /\ n \in Nat
    BY NativeAssumption
  <2>2. PICK v \in Seq(Nat \X Nat) : v = ByColumn(t.cols, n) /\ Len(v) = t.cols * n
    BY <2>1, ByColumnTyped
  <2>3. Block(t.cols, n, v) \in Packets /\ PacketOK(Block(t.cols, n, v))
    BY <2>1, <2>2, BlockTyped
  <2> QED
    BY <1>1, <1>5, <2>2, <2>3, ValidFew DEF sendNativeData
<1>6. CASE packets = <<Packet("progress")>> \o sendNativeError
  BY <1>1, <1>6, ExceptionAfter, ValidFew
<1>7. CASE packets = sendNativeError
  BY <1>1, <1>7, ValidFew DEF sendNativeError
<1> QED
  BY <1>2, <1>3, <1>4, <1>5, <1>6, <1>7, AnswersAre

-----------------------------------------------------------------------------
LEMMA ValidCat ==
  ASSUME NEW s, NEW t, Valid(s), Valid(t)
  PROVE  Valid(s \o t)
<1>1. s \in Seq(Packets) /\ t \in Seq(Packets)
  BY DEF Valid
<1>2. PICK u : u = s \o t
  OBVIOUS
<1>3. /\ u \in Seq(Packets) /\ Len(u) = Len(s) + Len(t)
      /\ \A i \in 1..Len(s) : u[i] = s[i]
      /\ \A i \in 1..Len(t) : u[Len(s) + i] = t[i]
  BY <1>1, <1>2
<1>4. PICK k \in Nat, l \in Nat : k = Len(s) /\ l = Len(t)
  BY <1>1
<1>5. ASSUME NEW i \in 1..(k + l) PROVE PacketOK(u[i])
  <2>1. CASE i <= k
    <3>1. i \in 1..k
      BY <2>1
    <3>2. u[i] = s[i]
      BY <1>3, <1>4, <3>1
    <3> QED
      BY <1>1, <1>4, <3>1, <3>2 DEF Valid
  <2>2. CASE ~ (i <= k)
    <3>1. PICK j \in 1..l : i = k + j
      <4>1. i - k \in 1..l /\ i = k + (i - k)
        BY <2>2
      <4> QED
        BY <4>1
    <3>2. u[i] = t[j]
      BY <1>3, <1>4, <3>1
    <3> QED
      BY <1>1, <1>4, <3>1, <3>2 DEF Valid
  <2> QED
    BY <2>1, <2>2
<1>6. DOMAIN u = 1..(k + l)
  BY <1>3, <1>4
<1> QED
  BY <1>2, <1>3, <1>5, <1>6 DEF Valid

LEMMA RestTyped ==
  ASSUME NEW s \in Seq(Byte), NEW p \in Nat, p >= 1
  PROVE  SubSeq(s, p, Len(s)) \in Seq(Byte)
<1>1. PICK n \in Nat : n = Len(s)
  BY LenProperties
<1>2. CASE p <= n
  BY <1>1, <1>2
<1>3. CASE p > n
  <2>1. SubSeq(s, p, n) = <<>>
    BY <1>3
  <2> QED
    BY <1>1, <2>1
<1> QED
  BY <1>2, <1>3

LEMMA FieldsPlaced ==
  ASSUME NEW b \in Seq(Byte), NEW p \in Nat, NEW kinds \in Seq(FieldKinds), p >= 1
  PROVE  Placed(ReadFields(b, p, kinds))
<1>1. PICK n \in Nat : n = Len(kinds)
  BY LenProperties
<1> QED
  BY <1>1, FieldsTyped DEF Typed

LEMMA QueryTyped ==
  ASSUME NEW q \in Query, wire \in Seq(Byte)
  PROVE  Placed(q) /\ q.text \in Seq(Byte)
<1>1. PICK fixed, more :
        /\ fixed = ReadFields(wire, 2, QueryFields)
        /\ more = ReadFields(wire, fixed.next, MoreKinds(KindField(fixed), fixed.val[3]))
        /\ q = PacketOf(fixed, more)
  BY QueryIs
<1>2. QueryFields \in Seq(FieldKinds) /\ Len(QueryFields) = 14 /\ QueryFields[13] = "string"
  BY DEF QueryFields, FieldKinds
<1>3. Typed(fixed, QueryFields, 14)
  <2>1. PICK n \in Nat : n = Len(QueryFields) /\ n = 14
    BY <1>2
  <2>2. n = Len(QueryFields)
    BY <2>1
  <2>3. PICK kinds \in Seq(FieldKinds) : kinds = QueryFields /\ n = Len(kinds)
    BY <1>2, <2>2, Zenon
  <2>4. n = Len(kinds)
    BY <2>3
  <2>5. Typed(ReadFields(wire, 2, kinds), kinds, n)
    BY <2>4, FieldsTyped
  <2> QED
    BY <1>1, <2>1, <2>3, <2>5
<1>4. Len(fixed.val) = 14 /\ fixed.val[13] \in Seq(Byte)
  BY <1>2, <1>3 DEF Typed
<1>5. TextField(fixed) \in Seq(Byte)
  BY <1>4 DEF TextField
<1>6. PICK p \in Nat : p = fixed.next /\ p >= 1
  BY <1>3 DEF Typed, Placed
<1>7. PICK kinds \in Seq(FieldKinds), n \in Nat :
        kinds = MoreKinds(KindField(fixed), fixed.val[3]) /\ n = Len(kinds)
  BY MoreKindsAre
<1>8. Typed(more, kinds, n)
  <2>1. n = Len(kinds) /\ more = ReadFields(wire, p, kinds)
    BY <1>1, <1>6, <1>7
  <2> QED
    BY <1>6, <2>1, FieldsTyped
<1>9. KindField(fixed) = QuerySecondary => more.val[1] \in Seq(Byte)
  <2> SUFFICES ASSUME KindField(fixed) = QuerySecondary PROVE more.val[1] \in Seq(Byte)
    OBVIOUS
  <2>1. kinds \in {<<"string", "uint32">>, <<"string">>}
    BY <1>7, MoreKindsAre
  <2>2. kinds[1] = "string" /\ Len(kinds) >= 1
    BY <2>1
  <2>3. 1 \in 1..n
    BY <1>7, <2>2
  <2> QED
    BY <1>8, <2>2, <2>3 DEF Typed
<1>10. Placed(q)
  BY <1>1, <1>8, PacketParts DEF Typed, Placed
<1>11. /\ q.text \in {TextField(fixed), more.val[1]}
       /\ q.text = TextField(fixed) \/ KindField(fixed) = QuerySecondary
  BY <1>1, PacketParts
<1> QED
  BY <1>5, <1>9, <1>10, <1>11

LEMMA TypeIs ==
  TypeOK <=> /\ wire \in Seq(Byte) /\ broken \in BOOLEAN
             /\ phase \in {"handshake", "serving", "closed"}
             /\ sent \in Seq(Requests) /\ handled \in Nat
             /\ executed \in Seq(Seq(Byte)) /\ Valid(out)
  BY DEF TypeOK, Valid

LEMMA TypeInit == Init => TypeOK
<1> SUFFICES ASSUME Init PROVE TypeOK
  OBVIOUS
<1>1. wire \in Seq(Byte)
  <2>1. Hello \in Seq(Byte)
    BY HelloPacked, WrittenIs
  <2> QED
    BY <2>1 DEF Init
<1>2. <<>> \in Seq(Requests) /\ <<>> \in Seq(Seq(Byte)) /\ <<>> \in Seq(Packets)
  OBVIOUS
<1>3. Valid(<<>>)
  BY <1>2 DEF Valid
<1>4. Valid(out)
  BY <1>3 DEF Init
<1> QED
  BY <1>1, <1>2, <1>4, TypeIs DEF Init

LEMMA TypeStep ==
  ASSUME TypeOK, [Next]_vars
  PROVE  TypeOK'
<1>0. /\ wire \in Seq(Byte) /\ broken \in BOOLEAN
      /\ phase \in {"handshake", "serving", "closed"}
      /\ sent \in Seq(Requests) /\ handled \in Nat
      /\ executed \in Seq(Seq(Byte)) /\ Valid(out)
  BY TypeIs
<1>1. ASSUME NEW r \in Requests, Send(r) PROVE TypeOK'
  <2>1. Encode(r) \in Seq(Byte)
    BY EncodeIs
  <2>2. wire \o Encode(r) \in Seq(Byte) /\ Append(sent, r) \in Seq(Requests)
    BY <1>0, <2>1
  <2> QED
    BY <1>0, <1>1, <2>2 DEF Send, TypeOK, Valid
<1>2. ASSUME NEW k \in 0..Len(wire), Break(k) PROVE TypeOK'
  <2>1. SubSeq(wire, 1, k) \in Seq(Byte)
    <3>1. k \in Nat /\ k <= Len(wire) /\ 1 \in Nat /\ 1 >= 1
      OBVIOUS
    <3> QED
      BY <1>0, <3>1, SubTyped
  <2> QED
    BY <1>0, <1>2, <2>1 DEF Break, TypeOK, Valid
<1>3. PICK h \in Packets, p \in Packets :
        h = Packet("hello") /\ p = Packet("pong") /\ PacketOK(h) /\ PacketOK(p)
  BY SimplePackets
<1>4. Valid(<<h>>) /\ Valid(<<p>>)
  BY <1>3, ValidFew
<1>5. Valid(out \o <<h>>) /\ Valid(out \o <<p>>)
  BY <1>0, <1>4, ValidCat
<1>6. HelloFields \in Seq(FieldKinds) /\ Len(HelloFields) = 6
  BY HelloPacked DEF Packed
<1>7. CASE Handshake
  <2>1. PICK hello : hello = ReadFields(wire, 1, HelloFields) /\ Consume(hello.next)
    BY <1>7 DEF Handshake
  <2>2. Placed(hello)
    BY <1>0, <1>6, <2>1, FieldsPlaced
  <2>3. wire' \in Seq(Byte)
    BY <1>0, <2>1, <2>2, RestTyped DEF Consume, Placed
  <2>4. /\ phase' \in {"closed", "serving"} /\ UNCHANGED <<broken, sent, handled, executed>>
        /\ out' = out \/ out' = out \o <<h>>
    BY <1>3, <1>7 DEF Handshake, Reply
  <2> QED
    BY <1>0, <1>5, <2>3, <2>4 DEF TypeOK, Valid
<1>8. CASE HangUp
  BY <1>0, <1>8 DEF HangUp, TypeOK, Valid
<1>9. CASE SkipBlock
  <2>1. PICK block : block = ReadFields(wire, 2, <<"varint", "varint">>) /\ Consume(block.next)
    BY <1>9 DEF SkipBlock
  <2>2. Placed(block)
    <3>1. <<"varint", "varint">> \in Seq(FieldKinds)
      BY DEF FieldKinds
    <3>2. PICK kinds \in Seq(FieldKinds) : kinds = <<"varint", "varint">>
      BY <3>1, Zenon
    <3>3. Placed(ReadFields(wire, 2, kinds))
      BY <1>0, FieldsPlaced
    <3> QED
      BY <2>1, <3>2, <3>3
  <2>3. wire' \in Seq(Byte)
    BY <1>0, <2>1, <2>2, RestTyped DEF Consume, Placed
  <2> QED
    BY <1>0, <1>9, <2>3 DEF SkipBlock, Took, TypeOK, Valid
<1>10. SubSeq(wire, 2, Len(wire)) \in Seq(Byte)
  BY <1>0, RestTyped
<1>11. CASE Ping
  BY <1>0, <1>3, <1>5, <1>10, <1>11 DEF Ping, Consume, Reply, Took, TypeOK, Valid
<1>12. CASE Cancel
  BY <1>0, <1>10, <1>12 DEF Cancel, Consume, Took, TypeOK, Valid
<1>13. CASE ReHandshake
  <2>1. PICK hello : hello = ReadFields(wire, 2, HelloFields) /\ Consume(hello.next)
    BY <1>13 DEF ReHandshake
  <2>2. Placed(hello)
    BY <1>0, <1>6, <2>1, FieldsPlaced
  <2>3. wire' \in Seq(Byte)
    BY <1>0, <2>1, <2>2, RestTyped DEF Consume, Placed
  <2>4. out' = out \o <<h>>
    BY <1>3, <1>13 DEF ReHandshake, Reply
  <2> QED
    BY <1>0, <1>5, <1>13, <2>3, <2>4 DEF ReHandshake, Took, TypeOK, Valid
<1>14. CASE Unknown
  BY <1>0, <1>10, <1>14 DEF Unknown, Consume, Took, TypeOK, Valid
<1>15. CASE handleCHQuery
  <2>1. PICK q \in Query :
          /\ Consume(q.next)
          /\ executed' = IF KindOf(q.text) = "blank" THEN executed ELSE Append(executed, q.text)
          /\ \E packets \in AnswersTo(KindOf(q.text)) : Reply(packets)
    BY <1>15 DEF handleCHQuery
  <2>2. PICK packets \in AnswersTo(KindOf(q.text)) : out' = out \o packets
    BY <2>1 DEF Reply
  <2>3. Placed(q) /\ q.text \in Seq(Byte)
    BY <1>0, QueryTyped
  <2>4. wire' \in Seq(Byte)
    BY <1>0, <2>1, <2>3, RestTyped DEF Consume, Placed
  <2>5. Valid(packets)
    BY KindTyped, AnswersValid
  <2>6. Valid(out \o packets)
    BY <1>0, <2>5, ValidCat
  <2>7. Append(executed, q.text) \in Seq(Seq(Byte))
    BY <1>0, <2>3
  <2>8. executed' \in Seq(Seq(Byte))
    BY <1>0, <2>1, <2>7
  <2> QED
    BY <1>0, <1>15, <2>2, <2>4, <2>6, <2>8 DEF handleCHQuery, Took, TypeOK, Valid
<1>16. CASE UNCHANGED vars
  BY <1>0, <1>16 DEF vars, TypeOK, Valid
<1> QED
  BY <1>1, <1>2, <1>7, <1>8, <1>9, <1>11, <1>12, <1>13, <1>14, <1>15, <1>16 DEF Next

(* Every value has its type, and a block announces as many values as it    *)
(* holds, whatever the client sends and wherever the connection breaks.    *)
THEOREM TypeCorrect == Spec => []TypeOK
<1>1. Init => TypeOK
  BY TypeInit
<1>2. TypeOK /\ [Next]_vars => TypeOK'
  BY TypeStep
<1> QED
  BY <1>1, <1>2, PTL DEF Spec

-----------------------------------------------------------------------------
(* The bytes of the packets that are not handled yet.                      *)
Bytes(s) == [i \in DOMAIN s |-> Encode(s[i])]
Ahead(s, n) == Stream(SubSeq(s, n + 1, Len(s)))

LEMMA BytesTyped ==
  ASSUME NEW s \in Seq(Requests), NEW n \in Nat, Len(s) = n
  PROVE  /\ Bytes(s) \in Seq(Seq(Byte)) /\ Len(Bytes(s)) = n
         /\ \A i \in 1..n : Bytes(s)[i] = Encode(s[i])
<1>1. DOMAIN s = 1..n
  OBVIOUS
<1>2. \A i \in 1..n : s[i] \in Requests
  OBVIOUS
<1>3. \A i \in 1..n : Encode(s[i]) \in Seq(Byte)
  BY <1>2, EncodeIs
<1>4. Bytes(s) = [i \in 1..n |-> Encode(s[i])]
  BY <1>1, Zenon DEF Bytes
<1>5. PICK b : b = Bytes(s)
  OBVIOUS
<1>6. b = [i \in 1..n |-> b[i]] /\ \A i \in 1..n : b[i] = Encode(s[i])
  BY <1>4, <1>5
<1>7. \A i \in 1..n : b[i] \in Seq(Byte)
  BY <1>3, <1>6
<1>8. b \in Seq(Seq(Byte)) /\ Len(b) = n
  BY <1>6, <1>7, Enumerated
<1> QED
  BY <1>5, <1>6, <1>8

LEMMA StreamTyped ==
  ASSUME NEW s \in Seq(Requests)
  PROVE  Stream(s) = FlattenSeq(Bytes(s)) /\ Stream(s) \in Seq(Byte)
<1>1. Stream(s) = FlattenSeq(Bytes(s))
  BY Zenon DEF Stream, Bytes
<1>2. PICK n \in Nat : Len(s) = n
  BY LenProperties
<1>3. Bytes(s) \in Seq(Seq(Byte))
  BY <1>2, BytesTyped
<1> QED
  BY <1>1, <1>3, FlattenTyped

LEMMA StreamAppend ==
  ASSUME NEW s \in Seq(Requests), NEW r \in Requests
  PROVE  Stream(Append(s, r)) = Cat(Stream(s), Encode(r))
<1>1. PICK n \in Nat : Len(s) = n
  BY LenProperties
<1>11. PICK m \in Nat : m = n + 1
  OBVIOUS
<1>2. PICK u \in Seq(Requests) :
        /\ u = Append(s, r) /\ m = n + 1 /\ Len(u) = m /\ u[m] = r
        /\ \A i \in 1..n : u[i] = s[i]
  <2>1. /\ Append(s, r) \in Seq(Requests) /\ Len(Append(s, r)) = n + 1
        /\ Append(s, r)[n + 1] = r /\ \A i \in 1..n : Append(s, r)[i] = s[i]
    BY <1>1
  <2> QED
    BY <1>11, <2>1
<1>3. PICK b \in Seq(Seq(Byte)) : b = Bytes(s) /\ Len(b) = n /\ \A i \in 1..n : b[i] = Encode(s[i])
  BY <1>1, BytesTyped
<1>4. PICK c \in Seq(Seq(Byte)) : c = Bytes(u) /\ Len(c) = m /\ \A i \in 1..m : c[i] = Encode(u[i])
  BY <1>2, BytesTyped
<1>5. PICK e \in Seq(Byte) : e = Encode(r)
  BY EncodeIs
<1>6. PICK d \in Seq(Seq(Byte)) :
        /\ d = Append(b, e) /\ Len(d) = m /\ d[m] = e
        /\ \A i \in 1..n : d[i] = b[i]
  <2>1. /\ Append(b, e) \in Seq(Seq(Byte)) /\ Len(Append(b, e)) = n + 1
        /\ Append(b, e)[n + 1] = e /\ \A i \in 1..n : Append(b, e)[i] = b[i]
    BY <1>3
  <2> QED
    BY <1>2, <2>1
<1>7. ASSUME NEW i \in 1..m PROVE c[i] = d[i]
  <2>1. CASE i = m
    BY <1>2, <1>4, <1>5, <1>6, <2>1
  <2>2. CASE i # m
    <3>1. i \in 1..n
      BY <1>2, <2>2
    <3> QED
      BY <1>2, <1>3, <1>4, <1>6, <3>1
  <2> QED
    BY <2>1, <2>2
<1>8. c = d
  BY <1>4, <1>6, <1>7, SeqEqual
<1>9. FlattenSeq(Append(b, e)) = Cat(FlattenSeq(b), e)
  BY FlattenAppend
<1>10. Stream(s) = FlattenSeq(b) /\ Stream(u) = FlattenSeq(c)
  BY <1>3, <1>4, StreamTyped
<1> QED
  BY <1>2, <1>5, <1>6, <1>8, <1>9, <1>10

LEMMA StreamTail ==
  ASSUME NEW s \in Seq(Requests), s # <<>>
  PROVE  Stream(s) = Cat(Encode(s[1]), Stream(Tail(s)))
<1>1. PICK n \in Nat : Len(s) = n /\ n >= 1
  <2>1. Len(s) \in Nat /\ Len(s) >= 1
    OBVIOUS
  <2> QED
    BY <2>1
<1>11. PICK m \in Nat : m = n - 1 /\ n = m + 1
  <2>1. n - 1 \in Nat /\ n = (n - 1) + 1
    BY <1>1
  <2> QED
    BY <2>1
<1>2. PICK u \in Seq(Requests) :
        /\ u = Tail(s) /\ n = m + 1 /\ Len(u) = m
        /\ \A i \in 1..m : u[i] = s[i + 1]
  <2>1. /\ Tail(s) \in Seq(Requests) /\ Len(Tail(s)) = n - 1
        /\ \A i \in 1..(n - 1) : Tail(s)[i] = s[i + 1]
    BY <1>1
  <2> QED
    BY <1>11, <2>1
<1>3. PICK b \in Seq(Seq(Byte)) : b = Bytes(s) /\ Len(b) = n /\ \A i \in 1..n : b[i] = Encode(s[i])
  BY <1>1, BytesTyped
<1>4. PICK c \in Seq(Seq(Byte)) : c = Bytes(u) /\ Len(c) = m /\ \A i \in 1..m : c[i] = Encode(u[i])
  BY <1>2, BytesTyped
<1>5. b # <<>> /\ b[1] = Encode(s[1])
  BY <1>1, <1>3
<1>6. PICK d \in Seq(Seq(Byte)) :
        d = Tail(b) /\ Len(d) = m /\ \A i \in 1..m : d[i] = b[i + 1]
  <2>1. /\ Tail(b) \in Seq(Seq(Byte)) /\ Len(Tail(b)) = n - 1
        /\ \A i \in 1..(n - 1) : Tail(b)[i] = b[i + 1]
    BY <1>3, <1>5
  <2>2. n - 1 = m
    BY <1>2
  <2> QED
    BY <2>1, <2>2
<1>7. ASSUME NEW i \in 1..m PROVE c[i] = d[i]
  <2>1. i + 1 \in 1..n
    BY <1>2
  <2> QED
    BY <1>2, <1>3, <1>4, <1>6, <2>1
<1>8. c = d
  BY <1>4, <1>6, <1>7, SeqEqual
<1>9. FlattenSeq(b) = Cat(b[1], FlattenSeq(Tail(b)))
  BY <1>5, FlattenTail
<1>10. Stream(s) = FlattenSeq(b) /\ Stream(u) = FlattenSeq(c)
  BY <1>3, <1>4, StreamTyped
<1> QED
  BY <1>2, <1>5, <1>6, <1>8, <1>9, <1>10

LEMMA StreamEmpty == Stream(<<>>) = <<>>
<1>1. Bytes(<<>>) = <<>>
  BY DEF Bytes
<1>2. <<>> \in Seq(Requests)
  OBVIOUS
<1> QED
  BY <1>1, <1>2, StreamTyped, FlattenEmpty

LEMMA AheadIs ==
  ASSUME NEW s \in Seq(Requests), NEW n \in Nat, n = Len(s)
  PROVE  /\ Ahead(s, 0) = Stream(s) /\ Ahead(s, n) = <<>>
         /\ \A i \in 0..n : Ahead(s, i) \in Seq(Byte)
         /\ \A j \in 1..n : Ahead(s, j - 1) = Cat(Encode(s[j]), Ahead(s, j))
<1>0. Len(s) = n
  OBVIOUS
<1>1. Ahead(s, 0) = Stream(s)
  <2>1. 0 + 1 = 1 /\ SubSeq(s, 1, Len(s)) = s
    OBVIOUS
  <2> QED
    BY <2>1 DEF Ahead
<1>2. Ahead(s, n) = <<>>
  <2>1. SubSeq(s, n + 1, Len(s)) = <<>>
    OBVIOUS
  <2> QED
    BY <2>1, StreamEmpty DEF Ahead
<1>3. ASSUME NEW i \in 0..n PROVE Ahead(s, i) \in Seq(Byte)
  <2>1. SubSeq(s, i + 1, Len(s)) \in Seq(Requests)
    OBVIOUS
  <2> QED
    BY <2>1, StreamTyped DEF Ahead
<1>4. ASSUME NEW j \in 1..n PROVE Ahead(s, j - 1) = Cat(Encode(s[j]), Ahead(s, j))
  <2>0. j \in 1..Len(s)
    BY <1>0
  <2>1. PICK t \in Seq(Requests) :
          t = SubSeq(s, j, Len(s)) /\ t # <<>> /\ t[1] = s[j]
          /\ Tail(t) = SubSeq(s, j + 1, Len(s))
    BY <2>0, RestShortened
  <2>2. (j - 1) + 1 = j
    OBVIOUS
  <2>3. Stream(t) = Cat(Encode(t[1]), Stream(Tail(t)))
    BY <2>1, StreamTail
  <2> QED
    BY <2>1, <2>2, <2>3 DEF Ahead
<1> QED
  BY <1>1, <1>2, <1>3, <1>4

LEMMA AheadAppend ==
  ASSUME NEW s \in Seq(Requests), NEW r \in Requests, NEW i \in 0..Len(s)
  PROVE  Ahead(Append(s, r), i) = Cat(Ahead(s, i), Encode(r))
<1>1. PICK n \in Nat : Len(s) = n
  BY LenProperties
<1>2. PICK u : u = SubSeq(s, i + 1, n)
  OBVIOUS
<1>3. u \in Seq(Requests) /\ Len(u) = n - i /\ \A k \in 1..(n - i) : u[k] = s[i + k]
  BY <1>1, <1>2
<1>4. PICK w : w = Append(s, r)
  OBVIOUS
<1>5. w \in Seq(Requests) /\ Len(w) = n + 1 /\ w[n + 1] = r /\ \A k \in 1..n : w[k] = s[k]
  BY <1>1, <1>4
<1>6. PICK x : x = SubSeq(w, i + 1, n + 1)
  OBVIOUS
<1>7. /\ x \in Seq(Requests) /\ Len(x) = (n - i) + 1
      /\ \A k \in 1..((n - i) + 1) : x[k] = w[i + k]
  BY <1>1, <1>5, <1>6
<1>8. PICK y : y = Append(u, r)
  OBVIOUS
<1>9. /\ y \in Seq(Requests) /\ Len(y) = (n - i) + 1 /\ y[(n - i) + 1] = r
      /\ \A k \in 1..(n - i) : y[k] = u[k]
  <2>1. PICK l \in Nat : l = n - i
    BY <1>1
  <2>2. Len(u) = l
    BY <1>3, <2>1
  <2>3. /\ Append(u, r) \in Seq(Requests) /\ Len(Append(u, r)) = l + 1
        /\ Append(u, r)[l + 1] = r /\ \A k \in 1..l : Append(u, r)[k] = u[k]
    BY <1>3, <2>2
  <2> QED
    BY <1>8, <2>1, <2>3
<1>10. ASSUME NEW k \in 1..((n - i) + 1) PROVE x[k] = y[k]
  <2>1. CASE k = (n - i) + 1
    <3>1. i + k = n + 1
      BY <1>1, <2>1
    <3> QED
      BY <1>5, <1>7, <1>9, <2>1, <3>1
  <2>2. CASE k # (n - i) + 1
    <3>1. k \in 1..(n - i) /\ i + k \in 1..n
      BY <1>1, <2>2
    <3> QED
      BY <1>3, <1>5, <1>7, <1>9, <3>1
  <2> QED
    BY <2>1, <2>2
<1>11. x = y
  BY <1>7, <1>9, <1>10, SeqEqual
<1>12. Stream(Append(u, r)) = Cat(Stream(u), Encode(r))
  BY <1>3, StreamAppend
<1> QED
  BY <1>1, <1>2, <1>4, <1>5, <1>6, <1>8, <1>11, <1>12 DEF Ahead

-----------------------------------------------------------------------------
(* The stream b is what is left of s: all of it while the client is there, *)
(* and the first part of it afterwards.                                    *)
Follow(b, s, ended) ==
  Meets(b, 1, s) /\ Len(b) <= Len(s) /\ (~ ended => Len(b) = Len(s))

LEMMA FollowWhole ==
  ASSUME NEW s \in Seq(Byte), NEW ended
  PROVE  Follow(s, s, ended)
<1>1. PICK n \in Nat : n = Len(s)
  BY LenProperties
<1>2. ASSUME NEW i \in 1..n PROVE s[1 - 1 + i] = s[i]
  <2>1. 1 - 1 + i = i
    OBVIOUS
  <2> QED
    BY <2>1
<1> QED
  BY <1>1, <1>2 DEF Follow, Meets

LEMMA FollowAll ==
  ASSUME NEW b, NEW s, NEW ended, Follow(b, s, ended), ~ ended
  PROVE  b = s /\ s \in Seq(Byte)
<1>1. PICK n \in Nat : n = Len(b) /\ n = Len(s) /\ b \in Seq(Byte) /\ s \in Seq(Byte)
  BY CatParts DEF Follow, Meets
<1>2. ASSUME NEW i \in 1..n PROVE b[i] = s[i]
  <2>1. 1 - 1 + i = i /\ 1 - 1 + i <= n
    OBVIOUS
  <2>2. b[1 - 1 + i] = s[i]
    BY <1>1, <2>1 DEF Follow, Meets
  <2> QED
    BY <2>1, <2>2
<1>3. b = s
  BY <1>1, <1>2, SeqEqual
<1> QED
  BY <1>1, <1>3

LEMMA FollowCut ==
  ASSUME NEW s \in Seq(Byte), NEW k \in 0..Len(s)
  PROVE  Follow(SubSeq(s, 1, k), s, TRUE)
<1>1. PICK n \in Nat : n = Len(s)
  BY LenProperties
<1>2. PICK u : u = SubSeq(s, 1, k)
  OBVIOUS
<1>3. u \in Seq(Byte) /\ Len(u) = k /\ \A i \in 1..k : u[i] = s[i]
  BY <1>1, <1>2
<1>4. ASSUME NEW i \in 1..n, 1 - 1 + i <= k PROVE u[1 - 1 + i] = s[i]
  <2>1. 1 - 1 + i = i /\ i \in 1..k
    BY <1>4
  <2> QED
    BY <1>3, <2>1
<1> QED
  BY <1>1, <1>2, <1>3, <1>4 DEF Follow, Meets

LEMMA FollowNothing ==
  ASSUME NEW s \in Seq(Byte)
  PROVE  Follow(<<>>, s, TRUE)
<1>1. PICK n \in Nat : n = Len(s)
  BY LenProperties
<1>2. Len(<<>>) = 0 /\ <<>> \in Seq(Byte)
  OBVIOUS
<1>3. \A i \in 1..n : ~ (1 - 1 + i <= 0)
  OBVIOUS
<1> QED
  BY <1>1, <1>2, <1>3 DEF Follow, Meets

(* What a reader leaves that has reached the end of the first packet, or   *)
(* of the stream within it, which only ends when the client has gone.      *)
LEMMA Advance ==
  ASSUME NEW b, NEW e \in Seq(Byte), NEW t \in Seq(Byte), NEW ended \in BOOLEAN, NEW q,
         Follow(b, Cat(e, t), ended), Reaches(b, e, q)
  PROVE  /\ Follow(SubSeq(b, q.next, Len(b)), t, ended)
         /\ ~ Whole(b, 1, e) => ended /\ SubSeq(b, q.next, Len(b)) = <<>>
<1>1. PICK k \in Nat, l \in Nat, m \in Nat :
        /\ k = Len(e) /\ l = Len(t) /\ m = Len(b) /\ Len(Cat(e, t)) = k + l
        /\ b \in Seq(Byte) /\ m <= k + l /\ (~ ended => m = k + l)
  <2>1. /\ b \in Seq(Byte) /\ Len(b) <= Len(Cat(e, t))
        /\ (~ ended => Len(b) = Len(Cat(e, t)))
    BY DEF Follow, Meets
  <2>2. PICK k \in Nat, l \in Nat : k = Len(e) /\ l = Len(t) /\ Len(Cat(e, t)) = k + l
    BY CatParts
  <2>3. PICK m \in Nat : m = Len(b)
    BY <2>1, LenProperties
  <2> QED
    BY <2>1, <2>2, <2>3
<1>2. CASE Whole(b, 1, e)
  <2>1. q.next = k + 1 /\ k <= m
    BY <1>1, <1>2 DEF Reaches, Whole
  <2>2. PICK u : u = SubSeq(b, k + 1, m)
    OBVIOUS
  <2>3. u \in Seq(Byte) /\ Len(u) = m - k /\ \A i \in 1..(m - k) : u[i] = b[k + i]
    BY <1>1, <2>1, <2>2
  <2>4. Meets(b, k + 1, t)
    <3>1. k + 1 \in Nat /\ k + 1 = 1 + Len(e)
      BY <1>1
    <3>2. Meets(b, 1, Cat(e, t))
      BY DEF Follow
    <3> QED
      BY <1>2, <3>1, <3>2, MeetsSecond
  <2>5. ASSUME NEW i \in 1..l, 1 - 1 + i <= m - k PROVE u[1 - 1 + i] = t[i]
    <3>1. /\ 1 - 1 + i = i /\ i \in 1..(m - k) /\ (k + 1) - 1 + i <= m
          /\ (k + 1) - 1 + i = k + i
      BY <1>1, <2>1, <2>5
    <3>2. b[(k + 1) - 1 + i] = t[i]
      BY <1>1, <2>4, <3>1 DEF Meets
    <3> QED
      BY <2>3, <3>1, <3>2
  <2>6. PICK n \in Nat : n = m - k /\ n <= l /\ (~ ended => n = l)
    <3>1. m - k \in Nat /\ m - k <= l /\ (~ ended => m - k = l)
      BY <1>1, <2>1
    <3> QED
      BY <3>1
  <2>7. Len(u) = n /\ (\A i \in 1..l : 1 - 1 + i <= n => u[1 - 1 + i] = t[i])
    BY <2>3, <2>5, <2>6
  <2>8. Meets(u, 1, t)
    BY <1>1, <2>3, <2>7 DEF Meets
  <2>9. Follow(u, t, ended)
    BY <1>1, <2>6, <2>7, <2>8 DEF Follow
  <2>10. SubSeq(b, q.next, Len(b)) = u
    BY <1>1, <2>1, <2>2
  <2> QED
    BY <1>2, <2>9, <2>10
<1>3. CASE ~ Whole(b, 1, e)
  <2>1. q.next = m + 1 /\ ~ (k <= m)
    BY <1>1, <1>3 DEF Reaches, Whole
  <2>2. ended = TRUE
    BY <1>1, <2>1
  <2>3. SubSeq(b, m + 1, m) = <<>>
    BY <1>1
  <2>4. SubSeq(b, q.next, Len(b)) = <<>>
    BY <1>1, <2>1, <2>3
  <2> QED
    BY <2>2, <2>4, FollowNothing
<1> QED
  BY <1>2, <1>3

(* The number of a packet tells its type.                                  *)
LEMMA NumberTellsType ==
  ASSUME NEW b, NEW r \in Requests, NEW t \in Seq(Byte), b # <<>>,
         Meets(b, 1, Cat(Encode(r), t)), r.type = "data" => r.cols = 0
  PROVE  /\ r.type = "hello" <=> b[1] = PacketHello
         /\ r.type = "query" <=> b[1] = PacketQuery
         /\ r.type = "data" <=> b[1] = PacketData
         /\ r.type = "cancel" <=> b[1] = PacketCancel
         /\ r.type = "ping" <=> b[1] = PacketPing
         /\ r.type = "other" <=> b[1] \notin 0..4
<1>1. ASSUME NEW c \in Byte, NEW s \in Seq(Byte), Encode(r) = Cat(<<c>>, s) PROVE b[1] = c
  BY <1>1, BodyIs
<1>2. ASSUME NEW c \in Byte, Encode(r) = <<c>> PROVE b[1] = c
  <2>1. <<c>> \in Seq(Byte) /\ <<>> \in Seq(Byte)
    OBVIOUS
  <2>2. Cat(<<c>>, <<>>) = <<c>>
    BY <2>1, CatEmpty
  <2> QED
    BY <1>1, <1>2, <2>1, <2>2
<1>3. /\ PacketHello \in Byte /\ PacketQuery \in Byte /\ PacketData \in Byte
      /\ PacketCancel \in Byte /\ PacketPing \in Byte /\ 9 \in Byte
  BY DEF Byte, PacketHello, PacketQuery, PacketData, PacketCancel, PacketPing
<1>4. CASE r.type = "hello"
  <2>1. Hello \in Seq(Byte)
    BY HelloPacked, WrittenIs
  <2>2. b[1] = PacketHello
    BY <1>1, <1>3, <1>4, <2>1, EncodeIs
  <2> QED
    BY <1>4, <2>2 DEF PacketHello, PacketQuery, PacketData, PacketCancel, PacketPing
<1>5. CASE r.type = "query"
  <2>1. PICK f \in Seq(Byte), g \in Seq(Byte) :
          f = Fields(QueryValues(r), QueryFields) /\ g = MoreBytes(r)
    <3>1. Fields(QueryValues(r), QueryFields) \in Seq(Byte)
      BY <1>5, QueryPacked, WrittenIs
    <3>2. Len(MoreKinds(r.kind, r.compression)) \in Nat
      BY MoreKindsAre
    <3>3. MoreBytes(r) \in Seq(Byte)
      BY <1>5, <3>2, MorePacked, WrittenIs
    <3> QED
      BY <3>1, <3>3
  <2>2. Cat(f, g) \in Seq(Byte)
    BY CatParts
  <2>3. b[1] = PacketQuery
    BY <1>1, <1>3, <1>5, <2>1, <2>2, EncodeIs
  <2> QED
    BY <1>5, <2>3 DEF PacketHello, PacketQuery, PacketData, PacketCancel, PacketPing
<1>6. CASE r.type = "data"
  <2>1. Fields(<<r.cols, r.rows>>, <<"varint", "varint">>) \in Seq(Byte)
    BY <1>6, BlockPacked, WrittenIs
  <2>2. b[1] = PacketData
    BY <1>1, <1>3, <1>6, <2>1, EncodeIs
  <2> QED
    BY <1>6, <2>2 DEF PacketHello, PacketQuery, PacketData, PacketCancel, PacketPing
<1>7. CASE r.type = "cancel"
  <2>1. b[1] = PacketCancel
    BY <1>2, <1>3, <1>7, EncodeIs
  <2> QED
    BY <1>7, <2>1 DEF PacketHello, PacketQuery, PacketData, PacketCancel, PacketPing
<1>8. CASE r.type = "ping"
  <2>1. b[1] = PacketPing
    BY <1>2, <1>3, <1>8, EncodeIs
  <2> QED
    BY <1>8, <2>1 DEF PacketHello, PacketQuery, PacketData, PacketCancel, PacketPing
<1>9. CASE r.type = "other"
  <2>1. b[1] = 9
    BY <1>2, <1>3, <1>9, EncodeIs
  <2> QED
    BY <1>9, <2>1 DEF PacketHello, PacketQuery, PacketData, PacketCancel, PacketPing
<1>10. r.type \in {"hello", "query", "data", "cancel", "ping", "other"}
  BY NativeAssumption DEF Requested
<1> QED
  BY <1>4, <1>5, <1>6, <1>7, <1>8, <1>9, <1>10

-----------------------------------------------------------------------------
(* What the stream holds is what was sent and is not handled yet, behind   *)
(* the handshake as long as that has not been read.                        *)
Unread == IF phase = "handshake" THEN Cat(Hello, Ahead(sent, handled)) ELSE Ahead(sent, handled)
Aligned ==
  WithoutColumns =>
    /\ handled <= Len(sent) /\ (phase = "handshake" => handled = 0)
    /\ Follow(wire, Unread, broken)

LEMMA AlignedInit == Init => Aligned
<1> SUFFICES ASSUME Init PROVE Aligned
  OBVIOUS
<1>1. Hello \in Seq(Byte)
  BY HelloPacked, WrittenIs
<1>2. Ahead(<<>>, 0) = <<>>
  <2>1. <<>> \in Seq(Requests)
    OBVIOUS
  <2>2. Ahead(<<>>, 0) = Stream(<<>>)
    <3>1. SubSeq(<<>>, 0 + 1, Len(<<>>)) = <<>>
      OBVIOUS
    <3> QED
      BY <3>1 DEF Ahead
  <2> QED
    BY <2>2, StreamEmpty
<1>3. Cat(Hello, <<>>) = Hello
  BY <1>1, CatEmpty
<1>4. Unread = Hello /\ wire = Hello
  BY <1>2, <1>3 DEF Unread, Init
<1>5. Follow(wire, Unread, broken)
  BY <1>1, <1>4, FollowWhole
<1>6. Len(<<>>) = 0
  OBVIOUS
<1> QED
  BY <1>5, <1>6 DEF Aligned, Init

(* The server is at the first packet that it has not handled, and takes    *)
(* it, as far as it goes, from the stream.                                 *)
Handles(j, q) ==
  /\ j \in 1..Len(sent) /\ j = handled + 1 /\ phase = "serving" /\ wire # <<>>
  /\ Follow(wire, Cat(Encode(sent[j]), Ahead(sent, j)), broken)
  /\ Reaches(wire, Encode(sent[j]), q)
  /\ wire' = SubSeq(wire, q.next, Len(wire)) /\ phase' \in {"serving", "closed"}
  /\ handled' = j /\ UNCHANGED <<sent, broken>>

LEMMA AtNext ==
  ASSUME TypeOK, Aligned, WithoutColumns, phase = "serving", wire # <<>>
  PROVE  \E j \in 1..Len(sent) :
           /\ j = handled + 1 /\ sent[j] \in Requests
           /\ sent[j].type = "data" => sent[j].cols = 0
           /\ Ahead(sent, j) \in Seq(Byte) /\ Encode(sent[j]) \in Seq(Byte)
           /\ Follow(wire, Cat(Encode(sent[j]), Ahead(sent, j)), broken)
<1>0. sent \in Seq(Requests) /\ wire \in Seq(Byte) /\ handled \in Nat
  BY DEF TypeOK
<1>1. PICK n \in Nat : n = Len(sent)
  BY <1>0, LenProperties
<1>2. handled <= n /\ Follow(wire, Ahead(sent, handled), broken)
  BY <1>1 DEF Aligned, Unread
<1>3. n = Len(sent)
  BY <1>1
<1>4. /\ Ahead(sent, n) = <<>>
      /\ \A i \in 0..n : Ahead(sent, i) \in Seq(Byte)
      /\ \A j \in 1..n : Ahead(sent, j - 1) = Cat(Encode(sent[j]), Ahead(sent, j))
  BY <1>0, <1>3, AheadIs
<1>5. handled # n
  <2> SUFFICES ASSUME handled = n PROVE FALSE
    OBVIOUS
  <2>1. Len(wire) <= 0
    BY <1>2, <1>4 DEF Follow
  <2>2. Len(wire) \in Nat /\ (Len(wire) = 0 => wire = <<>>)
    BY <1>0
  <2> QED
    BY <2>1, <2>2
<1>6. PICK j \in 1..n : j = handled + 1 /\ handled = j - 1
  <2>1. handled + 1 \in 1..n /\ handled = (handled + 1) - 1
    BY <1>0, <1>2, <1>5
  <2> QED
    BY <2>1
<1>7. sent[j] \in Requests /\ j \in DOMAIN sent
  BY <1>0, <1>3
<1>8. Encode(sent[j]) \in Seq(Byte)
  BY <1>7, EncodeIs
<1>9. Follow(wire, Cat(Encode(sent[j]), Ahead(sent, j)), broken)
  BY <1>2, <1>4, <1>6
<1>10. Ahead(sent, j) \in Seq(Byte)
  BY <1>4
<1> QED
  BY <1>3, <1>6, <1>7, <1>8, <1>9, <1>10 DEF WithoutColumns

(* A packet of one byte.                                                   *)
LEMMA SingleReaches ==
  ASSUME NEW b, NEW c \in Byte, NEW q, b \in Seq(Byte), b # <<>>, q.end = "got", q.next = 2
  PROVE  Reaches(b, <<c>>, q)
<1>1. Len(<<c>>) = 1 /\ Len(b) \in Nat /\ Len(b) >= 1
  OBVIOUS
<1>2. Whole(b, 1, <<c>>)
  BY <1>1 DEF Whole
<1> QED
  BY <1>1, <1>2 DEF Reaches

LEMMA SimpleHandled ==
  ASSUME TypeOK, Aligned, WithoutColumns,
         SkipBlock \/ Ping \/ Cancel \/ ReHandshake \/ Unknown
  PROVE  \E j, q : Handles(j, q) /\ sent[j].type # "query"
<1>1. phase = "serving" /\ wire # <<>> /\ wire \in Seq(Byte) /\ handled \in Nat
  BY DEF SkipBlock, Ping, Cancel, ReHandshake, Unknown, Takes, TypeOK
<1>2. PICK j \in 1..Len(sent) :
        /\ j = handled + 1 /\ sent[j] \in Requests
        /\ sent[j].type = "data" => sent[j].cols = 0
        /\ Ahead(sent, j) \in Seq(Byte) /\ Encode(sent[j]) \in Seq(Byte)
        /\ Follow(wire, Cat(Encode(sent[j]), Ahead(sent, j)), broken)
  BY <1>1, AtNext
<1>3. PICK r \in Requests, t \in Seq(Byte) :
        r = sent[j] /\ t = Ahead(sent, j) /\ Meets(wire, 1, Cat(Encode(r), t))
        /\ (r.type = "data" => r.cols = 0)
  BY <1>2 DEF Follow
<1>4. /\ r.type = "hello" <=> wire[1] = PacketHello
      /\ r.type = "data" <=> wire[1] = PacketData
      /\ r.type = "cancel" <=> wire[1] = PacketCancel
      /\ r.type = "ping" <=> wire[1] = PacketPing
      /\ r.type = "other" <=> wire[1] \notin 0..4
  BY <1>1, <1>3, NumberTellsType
<1>5. /\ PacketHello \in Byte /\ PacketData \in Byte
      /\ PacketCancel \in Byte /\ PacketPing \in Byte /\ 9 \in Byte
  BY DEF Byte, PacketHello, PacketData, PacketCancel, PacketPing
<1>6. /\ handled' = j /\ UNCHANGED <<sent, broken>> /\ phase' \in {"serving", "closed"}
  BY <1>1, <1>2 DEF SkipBlock, Ping, Cancel, ReHandshake, Unknown, Took
<1>7. ASSUME NEW q, Reaches(wire, Encode(r), q), Consume(q.next), r.type # "query"
      PROVE  \E k, p : Handles(k, p) /\ sent[k].type # "query"
  <2>1. Handles(j, q)
    BY <1>1, <1>2, <1>3, <1>6, <1>7 DEF Handles, Consume
  <2> QED
    BY <1>3, <1>7, <2>1
<1>8. CASE SkipBlock
  <2>1. PICK block : block = ReadFields(wire, 2, <<"varint", "varint">>) /\ Consume(block.next)
    BY <1>8 DEF SkipBlock
  <2>2. r.type = "data" /\ r.cols = 0
    BY <1>3, <1>4, <1>8 DEF SkipBlock, Takes
  <2>3. PICK v, kinds : v = <<r.cols, r.rows>> /\ kinds = <<"varint", "varint">>
    OBVIOUS
  <2>4. Packed(v, kinds, 2) /\ Encode(r) = Cat(<<PacketData>>, Fields(v, kinds))
    BY <2>2, <2>3, BlockPacked, EncodeIs
  <2>5. Reaches(wire, Encode(r), ReadFields(wire, 2, kinds))
    BY <1>1, <1>3, <1>5, <2>4, FieldsReach
  <2> QED
    BY <1>7, <2>1, <2>2, <2>3, <2>5
<1>9. CASE Ping
  <2>1. r.type = "ping" /\ Consume(2)
    BY <1>4, <1>9 DEF Ping, Takes
  <2>2. Got(0, 2).end = "got" /\ Got(0, 2).next = 2
    BY DEF Got
  <2>3. Encode(r) = <<PacketPing>>
    BY <2>1, EncodeIs
  <2>4. Reaches(wire, Encode(r), Got(0, 2))
    BY <1>1, <1>5, <2>2, <2>3, SingleReaches
  <2> QED
    BY <1>7, <2>1, <2>2, <2>4
<1>10. CASE Cancel
  <2>1. r.type = "cancel" /\ Consume(2)
    BY <1>4, <1>10 DEF Cancel, Takes
  <2>2. Got(0, 2).end = "got" /\ Got(0, 2).next = 2
    BY DEF Got
  <2>3. Encode(r) = <<PacketCancel>>
    BY <2>1, EncodeIs
  <2>4. Reaches(wire, Encode(r), Got(0, 2))
    BY <1>1, <1>5, <2>2, <2>3, SingleReaches
  <2> QED
    BY <1>7, <2>1, <2>2, <2>4
<1>11. CASE ReHandshake
  <2>1. PICK hello : hello = ReadFields(wire, 2, HelloFields) /\ Consume(hello.next)
    BY <1>11 DEF ReHandshake
  <2>2. r.type = "hello"
    BY <1>4, <1>11 DEF ReHandshake, Takes
  <2>3. /\ Packed(HelloValues, HelloFields, 6)
        /\ Encode(r) = Cat(<<PacketHello>>, Fields(HelloValues, HelloFields))
    BY <2>2, HelloPacked, EncodeIs
  <2>4. Reaches(wire, Encode(r), ReadFields(wire, 2, HelloFields))
    BY <1>1, <1>3, <1>5, <2>3, FieldsReach
  <2> QED
    BY <1>7, <2>1, <2>2, <2>4
<1>12. CASE Unknown
  <2>1. r.type = "other" /\ Consume(2)
    BY <1>4, <1>12 DEF Unknown
  <2>2. Got(0, 2).end = "got" /\ Got(0, 2).next = 2
    BY DEF Got
  <2>3. Encode(r) = <<9>>
    BY <2>1, EncodeIs
  <2>4. Reaches(wire, Encode(r), Got(0, 2))
    BY <1>1, <1>5, <2>2, <2>3, SingleReaches
  <2> QED
    BY <1>7, <2>1, <2>2, <2>4
<1> QED
  BY <1>8, <1>9, <1>10, <1>11, <1>12

(* A query is answered for the text that was sent, or when the connection  *)
(* broke within it, for one of its texts as a whole, or for nothing.       *)
LEMMA QueryHandled ==
  ASSUME TypeOK, Aligned, WithoutColumns, handleCHQuery
  PROVE  \E j, q :
           /\ Handles(j, q) /\ sent[j].type = "query" /\ sent[j] \in Requests
           /\ Whole(wire, 1, Encode(sent[j])) => q.text = Wanted(sent[j])
           /\ ~ Whole(wire, 1, Encode(sent[j])) =>
                q.text \in {<<>>, sent[j].text, Wanted(sent[j])}
           /\ executed' = IF KindOf(q.text) = "blank" THEN executed
                          ELSE Append(executed, q.text)
           /\ \E packets \in AnswersTo(KindOf(q.text)) : out' = out \o packets
           /\ phase' = phase
<1>1. phase = "serving" /\ wire # <<>> /\ wire \in Seq(Byte) /\ wire[1] = PacketQuery
  BY DEF handleCHQuery, Takes, TypeOK
<1>2. PICK j \in 1..Len(sent) :
        /\ j = handled + 1 /\ sent[j] \in Requests
        /\ sent[j].type = "data" => sent[j].cols = 0
        /\ Ahead(sent, j) \in Seq(Byte) /\ Encode(sent[j]) \in Seq(Byte)
        /\ Follow(wire, Cat(Encode(sent[j]), Ahead(sent, j)), broken)
  BY <1>1, AtNext
<1>3. PICK r \in Requests, t \in Seq(Byte) :
        r = sent[j] /\ t = Ahead(sent, j) /\ Meets(wire, 1, Cat(Encode(r), t))
        /\ (r.type = "data" => r.cols = 0)
  BY <1>2 DEF Follow
<1>4. r.type = "query"
  BY <1>1, <1>3, NumberTellsType
<1>5. PICK q \in Query :
        /\ Consume(q.next)
        /\ executed' = IF KindOf(q.text) = "blank" THEN executed ELSE Append(executed, q.text)
        /\ \E packets \in AnswersTo(KindOf(q.text)) : Reply(packets)
  BY DEF handleCHQuery
<1>6. /\ Reaches(wire, Encode(r), q)
      /\ Whole(wire, 1, Encode(r)) => q.text = Wanted(r)
      /\ ~ Whole(wire, 1, Encode(r)) => q.text \in {<<>>, r.text, Wanted(r)}
  BY <1>1, <1>3, <1>4, QueryReaches
<1>7. handled' = j /\ UNCHANGED <<sent, broken, phase>>
  BY <1>2 DEF handleCHQuery, Took
<1>8. Handles(j, q)
  BY <1>1, <1>2, <1>3, <1>5, <1>6, <1>7 DEF Handles, Consume
<1>9. \E packets \in AnswersTo(KindOf(q.text)) : out' = out \o packets
  BY <1>5 DEF Reply
<1> QED
  BY <1>2, <1>3, <1>4, <1>5, <1>6, <1>7, <1>8, <1>9

(* Where the first byte of the stream is the handshake.                    *)
LEMMA HelloReaches ==
  ASSUME NEW b, NEW t \in Seq(Byte), NEW q, Meets(b, 1, Cat(Hello, t)),
         q = ReadFields(b, 1, HelloFields)
  PROVE  Reaches(b, Hello, q)
<1>1. Packed(HelloValues, HelloFields, 6) /\ Hello = Fields(HelloValues, HelloFields)
  BY HelloPacked
<1>2. PICK s \in Seq(Byte) : s = Hello
  BY <1>1, WrittenIs
<1>3. Meets(b, 1, s)
  BY <1>2, MeetsFirst
<1>4. PICK j \in 0..6 : Parsed(q, b, 1, HelloValues, HelloFields, 6, j)
  BY <1>1, <1>2, <1>3, FieldsRead
<1>5. PICK k \in Nat : k = Len(s)
  BY CatParts
<1>6. 1 + k = k + 1
  BY <1>5
<1> QED
  BY <1>1, <1>2, <1>4, <1>5, <1>6 DEF Parsed, Reaches

LEMMA UnreadTyped ==
  ASSUME TypeOK, handled <= Len(sent)
  PROVE  Unread \in Seq(Byte) /\ Ahead(sent, handled) \in Seq(Byte) /\ Hello \in Seq(Byte)
<1>1. sent \in Seq(Requests) /\ handled \in Nat
  BY DEF TypeOK
<1>2. PICK n \in Nat : n = Len(sent)
  BY <1>1
<1>3. n = Len(sent)
  BY <1>2
<1>4. \A i \in 0..n : Ahead(sent, i) \in Seq(Byte)
  BY <1>1, <1>3, AheadIs
<1>5. handled \in 0..n
  BY <1>1, <1>2
<1>6. Ahead(sent, handled) \in Seq(Byte)
  BY <1>4, <1>5
<1>7. Hello \in Seq(Byte)
  BY HelloPacked, WrittenIs
<1>8. Cat(Hello, Ahead(sent, handled)) \in Seq(Byte)
  BY <1>6, <1>7, CatParts
<1> QED
  BY <1>6, <1>7, <1>8 DEF Unread

LEMMA AlignedSend ==
  ASSUME TypeOK, Aligned, WithoutColumns, NEW r \in Requests, Send(r)
  PROVE  Aligned'
<1>1. /\ sent \in Seq(Requests) /\ handled \in Nat /\ handled <= Len(sent)
      /\ Follow(wire, Unread, broken) /\ (phase = "handshake" => handled = 0)
  BY DEF TypeOK, Aligned
<1>2. /\ ~ broken /\ broken' = broken /\ sent' = Append(sent, r) /\ wire' = Cat(wire, Encode(r))
      /\ phase' = phase /\ handled' = handled
  BY DEF Send, Cat
<1>3. wire = Unread
  BY <1>1, <1>2, FollowAll
<1>4. /\ Unread \in Seq(Byte) /\ Ahead(sent, handled) \in Seq(Byte) /\ Hello \in Seq(Byte)
      /\ Encode(r) \in Seq(Byte)
  BY <1>1, UnreadTyped, EncodeIs
<1>5. handled \in 0..Len(sent)
  BY <1>1
<1>6. Ahead(sent', handled') = Cat(Ahead(sent, handled), Encode(r))
  BY <1>1, <1>2, <1>5, AheadAppend
<1>7. Unread' = Cat(Unread, Encode(r))
  <2>1. Cat(Cat(Hello, Ahead(sent, handled)), Encode(r))
          = Cat(Hello, Cat(Ahead(sent, handled), Encode(r)))
    BY <1>4, CatAssociative
  <2> QED
    BY <1>2, <1>6, <2>1 DEF Unread
<1>8. Cat(Unread, Encode(r)) \in Seq(Byte)
  BY <1>4, CatParts
<1>9. Follow(wire', Unread', broken')
  BY <1>2, <1>3, <1>7, <1>8, FollowWhole
<1>10. handled <= Len(Append(sent, r))
  <2>1. Len(Append(sent, r)) = Len(sent) + 1 /\ Len(sent) \in Nat
    BY <1>1
  <2> QED
    BY <1>1, <2>1
<1> QED
  BY <1>1, <1>2, <1>9, <1>10 DEF Aligned

LEMMA AlignedBreak ==
  ASSUME TypeOK, Aligned, WithoutColumns, NEW k \in 0..Len(wire), Break(k)
  PROVE  Aligned'
<1>1. handled <= Len(sent) /\ Follow(wire, Unread, broken) /\ (phase = "handshake" => handled = 0)
  BY DEF Aligned
<1>2. /\ ~ broken /\ broken' = TRUE /\ wire' = SubSeq(wire, 1, k)
      /\ UNCHANGED <<sent, phase, handled>>
  BY DEF Break
<1>3. wire = Unread /\ Unread \in Seq(Byte)
  BY <1>1, <1>2, FollowAll
<1>4. Follow(SubSeq(wire, 1, k), Unread, TRUE)
  BY <1>3, FollowCut
<1>5. Unread' = Unread
  BY <1>2 DEF Unread, Ahead, Stream
<1> QED
  BY <1>1, <1>2, <1>4, <1>5 DEF Aligned

LEMMA AlignedHandshake ==
  ASSUME TypeOK, Aligned, WithoutColumns, Handshake
  PROVE  Aligned'
<1>1. /\ handled <= Len(sent) /\ Follow(wire, Unread, broken)
      /\ phase = "handshake" /\ broken \in BOOLEAN
  BY DEF Aligned, Handshake, TypeOK
<1>2. PICK hello : hello = ReadFields(wire, 1, HelloFields) /\ Consume(hello.next)
  BY DEF Handshake
<1>3. phase' \in {"serving", "closed"} /\ UNCHANGED <<broken, sent, handled>>
  BY DEF Handshake
<1>4. PICK t \in Seq(Byte) : t = Ahead(sent, handled)
  BY <1>1, UnreadTyped
<1>5. Follow(wire, Cat(Hello, t), broken) /\ Hello \in Seq(Byte)
  BY <1>1, <1>4, UnreadTyped DEF Unread
<1>6. Meets(wire, 1, Cat(Hello, t))
  BY <1>5 DEF Follow
<1>7. Reaches(wire, Hello, hello)
  BY <1>2, <1>6, HelloReaches
<1>8. Follow(SubSeq(wire, hello.next, Len(wire)), t, broken)
  BY <1>1, <1>5, <1>7, Advance
<1>9. Unread' = t
  <2>1. Unread' = Ahead(sent', handled')
    BY <1>3 DEF Unread
  <2>2. Ahead(sent', handled') = Ahead(sent, handled)
    BY <1>3
  <2> QED
    BY <1>4, <2>1, <2>2
<1>10. Follow(wire', Unread', broken')
  BY <1>2, <1>3, <1>8, <1>9 DEF Consume
<1> QED
  BY <1>1, <1>3, <1>10 DEF Aligned

(* Taking a packet leaves those behind it; one that is cut off was the     *)
(* last, and nothing is left.                                              *)
LEMMA HandlesOn ==
  ASSUME TypeOK, NEW j, NEW q, Handles(j, q)
  PROVE  /\ Aligned'
         /\ sent[j] \in Requests /\ j \in Nat /\ j > 0
         /\ ~ Whole(wire, 1, Encode(sent[j])) => broken' /\ wire' = <<>>
<1>1. sent \in Seq(Requests) /\ broken \in BOOLEAN
  BY DEF TypeOK
<1>2. PICK n \in Nat : n = Len(sent)
  BY <1>1
<1>3. n = Len(sent)
  BY <1>2
<1>4. j \in 1..n /\ j \in 0..n /\ j \in Nat /\ j > 0 /\ j <= n
  BY <1>2 DEF Handles
<1>5. Ahead(sent, j) \in Seq(Byte)
  BY <1>1, <1>3, <1>4, AheadIs
<1>6. sent[j] \in Requests
  BY <1>1, <1>2, <1>4
<1>7. PICK e \in Seq(Byte), t \in Seq(Byte) : e = Encode(sent[j]) /\ t = Ahead(sent, j)
  BY <1>5, <1>6, EncodeIs
<1>8. /\ Follow(SubSeq(wire, q.next, Len(wire)), t, broken)
      /\ ~ Whole(wire, 1, e) => broken /\ SubSeq(wire, q.next, Len(wire)) = <<>>
  BY <1>1, <1>7, Advance DEF Handles
<1>9. /\ wire' = SubSeq(wire, q.next, Len(wire)) /\ handled' = j /\ sent' = sent
      /\ broken' = broken /\ phase' \in {"serving", "closed"}
  BY DEF Handles
<1>10. Unread' = t
  BY <1>7, <1>9 DEF Unread, Ahead, Stream
<1>11. Follow(wire', Unread', broken') /\ handled' <= Len(sent') /\ phase' # "handshake"
  BY <1>2, <1>4, <1>8, <1>9, <1>10
<1> QED
  BY <1>4, <1>6, <1>7, <1>8, <1>9, <1>11 DEF Aligned

LEMMA ColumnsGrow ==
  ASSUME TypeOK, [Next]_vars, WithoutColumns'
  PROVE  WithoutColumns
<1>1. CASE sent' = sent
  BY <1>1 DEF WithoutColumns
<1>2. CASE \E r \in Requests : sent' = Append(sent, r)
  <2>1. PICK r \in Requests : sent' = Append(sent, r)
    BY <1>2
  <2>2. sent \in Seq(Requests)
    BY DEF TypeOK
  <2>3. \A i \in DOMAIN sent : i \in DOMAIN Append(sent, r) /\ Append(sent, r)[i] = sent[i]
    BY <2>2
  <2> QED
    BY <2>1, <2>3 DEF WithoutColumns
<1>3. sent' = sent \/ \E r \in Requests : sent' = Append(sent, r)
  BY DEF Next, Send, Break, Handshake, HangUp, SkipBlock, Ping, Cancel, ReHandshake, Unknown,
         handleCHQuery, Took, vars
<1> QED
  BY <1>1, <1>2, <1>3

LEMMA AlignedStep ==
  ASSUME TypeOK, Aligned, [Next]_vars
  PROVE  Aligned'
<1>1. CASE ~ WithoutColumns'
  BY <1>1 DEF Aligned
<1>2. CASE WithoutColumns'
  <2>0. WithoutColumns
    BY <1>2, ColumnsGrow
  <2>1. ASSUME NEW r \in Requests, Send(r) PROVE Aligned'
    BY <2>0, <2>1, AlignedSend
  <2>2. ASSUME NEW k \in 0..Len(wire), Break(k) PROVE Aligned'
    BY <2>0, <2>2, AlignedBreak
  <2>3. CASE Handshake
    BY <2>0, <2>3, AlignedHandshake
  <2>4. CASE HangUp
    <3>1. Unread' = Unread /\ UNCHANGED <<wire, broken, sent, handled>> /\ phase' # "handshake"
      BY <2>4 DEF HangUp, Unread, Ahead, Stream
    <3> QED
      BY <2>0, <3>1 DEF Aligned
  <2>5. CASE SkipBlock \/ Ping \/ Cancel \/ ReHandshake \/ Unknown
    <3>1. PICK j : \E q : Handles(j, q)
      BY <2>0, <2>5, SimpleHandled
    <3>2. PICK q : Handles(j, q)
      BY <3>1
    <3> QED
      BY <3>2, HandlesOn
  <2>6. CASE handleCHQuery
    <3>1. PICK j : \E q : Handles(j, q)
      BY <2>0, <2>6, QueryHandled
    <3>2. PICK q : Handles(j, q)
      BY <3>1
    <3> QED
      BY <3>2, HandlesOn
  <2>7. CASE UNCHANGED vars
    <3>1. Unread' = Unread /\ UNCHANGED <<wire, broken, sent, handled, phase>>
      BY <2>7 DEF vars, Unread, Ahead, Stream
    <3> QED
      BY <2>0, <3>1 DEF Aligned
  <2> QED
    BY <2>1, <2>2, <2>3, <2>4, <2>5, <2>6, <2>7 DEF Next
<1> QED
  BY <1>1, <1>2

(* What follows the beginning of a sequence is a beginning of it.          *)
LEMMA FollowIsPrefix ==
  ASSUME NEW b, NEW s, NEW ended, Follow(b, s, ended)
  PROVE  IsPrefix(b, s)
<1>1. b \in Seq(Byte) /\ s \in Seq(Byte)
  BY DEF Follow, Meets
<1>2. PICK m \in Nat, n \in Nat : m = Len(b) /\ n = Len(s) /\ m <= n
  BY <1>1 DEF Follow
<1>3. \A i \in 1..m : b[i] = s[i]
  <2> TAKE i \in 1..m
  <2>1. 1 - 1 + i = i /\ i \in 1..n /\ i <= m
    BY <1>2
  <2> QED
    BY <1>2, <2>1 DEF Follow, Meets
<1>4. PICK u : u = SubSeq(s, 1, m)
  OBVIOUS
<1>5. u \in Seq(Byte) /\ Len(u) = m /\ \A i \in 1..m : u[i] = s[i]
  BY <1>1, <1>2, <1>4
<1>6. SubSeq(b, 1, m) = b
  BY <1>1, <1>2
<1>7. u = b
  BY <1>1, <1>2, <1>3, <1>5
<1> QED
  BY <1>2, <1>4, <1>6, <1>7 DEF IsPrefix

LEMMA AlignedIsInStep ==
  ASSUME TypeOK, Aligned
  PROVE  InStep
<1> SUFFICES ASSUME WithoutColumns
             PROVE  IF broken THEN IsPrefix(wire, Unread) ELSE wire = Unread
  BY DEF InStep, Unread, Ahead, Cat
<1>1. Follow(wire, Unread, broken)
  BY DEF Aligned
<1> QED
  BY <1>1, FollowAll, FollowIsPrefix

LEMMA AlignedAlways == Spec => []Aligned
<1>1. TypeOK /\ Aligned /\ [Next]_vars => Aligned'
  BY AlignedStep
<1> QED
  BY <1>1, AlignedInit, TypeCorrect, PTL DEF Spec

(* As long as the client sends no block with columns, the server stands at *)
(* the beginning of the next packet after each one it has handled          *)
(* (http_server.go:446-622).                                               *)
THEOREM StaysInStep == Spec => []InStep
<1>1. TypeOK /\ Aligned => InStep
  BY AlignedIsInStep
<1> QED
  BY <1>1, TypeCorrect, AlignedAlways, PTL

-----------------------------------------------------------------------------
(* f holds what is to be executed for the first packets of s, up to each.  *)
Asking(f, s, n) ==
  f = [i \in 0..n |->
         IF i = 0 THEN <<>>
         ELSE IF IsAsked(s[i]) THEN Append(f[i - 1], Wanted(s[i]))
         ELSE f[i - 1]]
AskedIn(s, n) == (CHOOSE f : Asking(f, s, n))[n]
AskedNext(x, r) == IF IsAsked(r) THEN Append(x, Wanted(r)) ELSE x

LEMMA AskingIs ==
  ASSUME NEW s, NEW f, NEW n \in Nat
  PROVE  Asking(f, s, n) <=>
           f = [i \in 0..n |-> IF i = 0 THEN <<>> ELSE AskedNext(f[i - 1], s[i])]
  BY Zenon DEF Asking, AskedNext

LEMMA AskingExtended ==
  ASSUME NEW s, NEW f, NEW n \in Nat, Asking(f, s, n)
  PROVE  \E g : Asking(g, s, n + 1)
<1> DEFINE x == AskedNext(f[n], s[n + 1])
           g == [i \in 0..(n + 1) |-> IF i = n + 1 THEN x ELSE f[i]]
<1>0. f = [i \in 0..n |-> IF i = 0 THEN <<>> ELSE AskedNext(f[i - 1], s[i])]
  BY AskingIs
<1>1. ASSUME NEW i \in 0..(n + 1)
      PROVE  g[i] = IF i = 0 THEN <<>> ELSE AskedNext(g[i - 1], s[i])
  <2>1. CASE i = n + 1
    <3>1. i # 0 /\ i - 1 = n /\ g[n] = f[n] /\ g[i] = x
      BY <2>1
    <3> QED
      BY <2>1, <3>1
  <2>2. CASE i # n + 1
    <3>1. i \in 0..n /\ g[i] = f[i] /\ (i # 0 => g[i - 1] = f[i - 1])
      BY <2>2
    <3>2. f[i] = IF i = 0 THEN <<>> ELSE AskedNext(f[i - 1], s[i])
      BY <1>0, <3>1
    <3> QED
      BY <3>1, <3>2
  <2> QED
    BY <2>1, <2>2
<1>2. g = [i \in 0..(n + 1) |-> g[i]]
  OBVIOUS
<1> HIDE DEF g
<1>3. g = [i \in 0..(n + 1) |-> IF i = 0 THEN <<>> ELSE AskedNext(g[i - 1], s[i])]
  BY <1>1, <1>2
<1>4. Asking(g, s, n + 1)
  <2>1. n + 1 \in Nat
    OBVIOUS
  <2> QED
    BY <1>3, <2>1, AskingIs
<1> QED
  BY <1>4

LEMMA AskingExists ==
  ASSUME NEW s, NEW m \in Nat
  PROVE  \E f : Asking(f, s, m)
<1> DEFINE Good == {n \in 0..m : \E f : Asking(f, s, n)}
<1>1. 0 \in Good
  <2> DEFINE f == [i \in 0..0 |-> <<>>]
  <2>1. Asking(f, s, 0)
    BY DEF Asking
  <2> HIDE DEF f
  <2> QED
    BY <2>1
<1>2. \A n \in 0..(m - 1) : n \in Good => n + 1 \in Good
  BY AskingExtended
<1>3. \A n \in 0..m : n \in Good
  <2> HIDE DEF Good
  <2> QED
    BY <1>1, <1>2, UpTo
<1> QED
  BY <1>3

LEMMA AskingSteps ==
  ASSUME NEW s, NEW f, NEW n \in Nat, Asking(f, s, n)
  PROVE  f[0] = <<>> /\ \A i \in 1..n : f[i] = AskedNext(f[i - 1], s[i])
<1>0. f = [i \in 0..n |-> IF i = 0 THEN <<>> ELSE AskedNext(f[i - 1], s[i])]
  BY AskingIs
<1>1. f[0] = <<>>
  BY <1>0
<1>2. ASSUME NEW i \in 1..n PROVE f[i] = AskedNext(f[i - 1], s[i])
  <2>1. i \in 0..n /\ i # 0
    OBVIOUS
  <2> QED
    BY <1>0, <2>1
<1> QED
  BY <1>1, <1>2

LEMMA AskingUnique ==
  ASSUME NEW s, NEW t, NEW f, NEW g, NEW n \in Nat, NEW m \in Nat,
         n <= m, Same(s, t, n), Asking(f, s, n), Asking(g, t, m)
  PROVE  \A i \in 0..n : f[i] = g[i]
<1> DEFINE Good == {i \in 0..n : f[i] = g[i]}
<1>1. f[0] = <<>> /\ \A i \in 1..n : f[i] = AskedNext(f[i - 1], s[i])
  BY AskingSteps
<1>2. g[0] = <<>> /\ \A i \in 1..m : g[i] = AskedNext(g[i - 1], t[i])
  BY AskingSteps
<1>3. 0 \in Good
  BY <1>1, <1>2
<1>4. ASSUME NEW i \in 0..(n - 1), i \in Good PROVE i + 1 \in Good
  <2>1. i + 1 \in 1..n /\ i + 1 \in 1..m /\ i + 1 \in 0..n /\ (i + 1) - 1 = i
    OBVIOUS
  <2>2. s[i + 1] = t[i + 1]
    BY <2>1 DEF Same
  <2>3. f[i + 1] = AskedNext(f[i], s[i + 1]) /\ g[i + 1] = AskedNext(g[i], t[i + 1])
    BY <1>1, <1>2, <2>1
  <2>4. f[i] = g[i]
    BY <1>4
  <2> QED
    BY <2>1, <2>2, <2>3, <2>4
<1>5. \A i \in 0..n : i \in Good
  <2> HIDE DEF Good
  <2> QED
    BY <1>3, <1>4, UpTo
<1> QED
  BY <1>5

LEMMA AskedInIs ==
  ASSUME NEW s, NEW n \in Nat
  PROVE  \E f : Asking(f, s, n) /\ AskedIn(s, n) = f[n]
<1> DEFINE f == CHOOSE f : Asking(f, s, n)
<1>1. Asking(f, s, n)
  BY AskingExists
<1> QED
  BY <1>1 DEF AskedIn

LEMMA AskedFirst ==
  ASSUME NEW s
  PROVE  AskedIn(s, 0) = <<>>
<1>1. PICK f : Asking(f, s, 0) /\ AskedIn(s, 0) = f[0]
  BY AskedInIs
<1> QED
  BY <1>1, AskingSteps

LEMMA AskedMore ==
  ASSUME NEW s, NEW k \in Nat, NEW j \in Nat, j = k + 1
  PROVE  AskedIn(s, j) = AskedNext(AskedIn(s, k), s[j])
<1>1. PICK f : Asking(f, s, k) /\ AskedIn(s, k) = f[k]
  BY AskedInIs
<1>2. PICK g : Asking(g, s, j) /\ AskedIn(s, j) = g[j]
  BY AskedInIs
<1>3. Same(s, s, k) /\ k <= j /\ j \in 1..j /\ j - 1 = k /\ k \in 0..k
  BY DEF Same
<1>4. f[k] = g[k]
  BY <1>1, <1>2, <1>3, AskingUnique
<1>5. g[j] = AskedNext(g[k], s[j])
  BY <1>2, <1>3, AskingSteps
<1> QED
  BY <1>1, <1>2, <1>4, <1>5

(* Packets that are sent later change nothing in it.                       *)
LEMMA AskedBefore ==
  ASSUME NEW s \in Seq(Requests), NEW r \in Requests, NEW n \in Nat, n <= Len(s)
  PROVE  AskedIn(Append(s, r), n) = AskedIn(s, n)
<1>1. PICK t : t = Append(s, r)
  OBVIOUS
<1>2. Same(s, t, n)
  BY <1>1 DEF Same
<1>3. PICK f : Asking(f, s, n) /\ AskedIn(s, n) = f[n]
  BY AskedInIs
<1>4. PICK g : Asking(g, t, n) /\ AskedIn(t, n) = g[n]
  BY AskedInIs
<1>5. n <= n /\ n \in 0..n
  OBVIOUS
<1>6. f[n] = g[n]
  BY <1>2, <1>3, <1>4, <1>5, AskingUnique
<1> QED
  BY <1>1, <1>3, <1>4, <1>6

(* Everything that was asked for up to here is executed, or the connection *)
(* broke within the last packet, and nothing is left to be read.           *)
Executed ==
  WithoutColumns =>
    \/ executed = AskedIn(sent, handled)
    \/ /\ broken /\ wire = <<>>
       /\ handled > 0 /\ sent[handled].type = "query"
       /\ executed \in {AskedIn(sent, handled - 1),
                       Append(AskedIn(sent, handled - 1), sent[handled].text)}

LEMMA ExecutedIs == Executed <=> OnlyWhatWasSent
<1>1. \A n : Asked(n) = AskedIn(sent, n)
  BY Zenon DEF Asked, AskedIn, Asking
<1> QED
  BY <1>1, Zenon DEF Executed, OnlyWhatWasSent

LEMMA ExecutedInit == Init => Executed
<1>1. AskedIn(<<>>, 0) = <<>>
  BY AskedFirst
<1> QED
  BY <1>1 DEF Init, Executed

LEMMA ExecutedSend ==
  ASSUME TypeOK, Aligned, Executed, WithoutColumns, NEW r \in Requests, Send(r)
  PROVE  Executed'
<1>1. sent \in Seq(Requests) /\ handled \in Nat /\ handled <= Len(sent)
  BY DEF TypeOK, Aligned
<1>2. ~ broken /\ sent' = Append(sent, r) /\ handled' = handled /\ executed' = executed
  BY DEF Send
<1>3. AskedIn(sent', handled') = AskedIn(sent, handled)
  BY <1>1, <1>2, AskedBefore
<1>4. executed = AskedIn(sent, handled)
  BY <1>2 DEF Executed
<1>5. executed' = AskedIn(sent', handled')
  BY <1>2, <1>3, <1>4
<1> QED
  BY <1>5 DEF Executed

LEMMA ExecutedSimple ==
  ASSUME TypeOK, Aligned, Executed, WithoutColumns,
         SkipBlock \/ Ping \/ Cancel \/ ReHandshake \/ Unknown
  PROVE  Executed'
<1>1. PICK j : \E q : Handles(j, q) /\ sent[j].type # "query"
  BY SimpleHandled
<1>2. PICK q : Handles(j, q) /\ sent[j].type # "query"
  BY <1>1
<1>3. j = handled + 1 /\ handled' = j /\ sent' = sent /\ wire # <<>>
  BY <1>2 DEF Handles
<1>4. executed' = executed
  BY DEF SkipBlock, Ping, Cancel, ReHandshake, Unknown
<1>5. executed = AskedIn(sent, handled)
  BY <1>3 DEF Executed
<1>6. handled \in Nat /\ j \in Nat
  BY <1>3 DEF TypeOK
<1>7. AskedIn(sent, j) = AskedNext(AskedIn(sent, handled), sent[j])
  BY <1>3, <1>6, AskedMore
<1>8. AskedNext(AskedIn(sent, handled), sent[j]) = AskedIn(sent, handled)
  BY <1>2, Zenon DEF AskedNext, IsAsked
<1>9. executed' = AskedIn(sent', handled')
  BY <1>3, <1>4, <1>5, <1>7, <1>8
<1> QED
  BY <1>9 DEF Executed

LEMMA ExecutedQuery ==
  ASSUME TypeOK, Aligned, Executed, WithoutColumns, handleCHQuery
  PROVE  Executed'
<1>1. PICK j : \E q :
           /\ Handles(j, q) /\ sent[j].type = "query" /\ sent[j] \in Requests
           /\ Whole(wire, 1, Encode(sent[j])) => q.text = Wanted(sent[j])
           /\ ~ Whole(wire, 1, Encode(sent[j])) =>
                q.text \in {<<>>, sent[j].text, Wanted(sent[j])}
           /\ executed' = IF KindOf(q.text) = "blank" THEN executed
                          ELSE Append(executed, q.text)
  BY QueryHandled
<1>2. PICK q :
           /\ Handles(j, q) /\ sent[j].type = "query" /\ sent[j] \in Requests
           /\ Whole(wire, 1, Encode(sent[j])) => q.text = Wanted(sent[j])
           /\ ~ Whole(wire, 1, Encode(sent[j])) =>
                q.text \in {<<>>, sent[j].text, Wanted(sent[j])}
           /\ executed' = IF KindOf(q.text) = "blank" THEN executed
                          ELSE Append(executed, q.text)
  BY <1>1
<1>3. j = handled + 1 /\ handled' = j /\ sent' = sent /\ wire # <<>>
  BY <1>2 DEF Handles
<1>4. PICK x : x = AskedIn(sent, handled) /\ executed = x
  BY <1>3 DEF Executed
<1>5. handled \in Nat /\ j \in Nat /\ j > 0 /\ j - 1 = handled
  BY <1>3 DEF TypeOK
<1>6. AskedIn(sent, j) = AskedNext(x, sent[j])
  BY <1>3, <1>4, <1>5, AskedMore
<1>7. AskedNext(x, sent[j]) = IF KindOf(Wanted(sent[j])) # "blank"
                              THEN Append(x, Wanted(sent[j])) ELSE x
  BY <1>2, Zenon DEF AskedNext, IsAsked
<1>8. ASSUME q.text = Wanted(sent[j]) PROVE executed' = AskedIn(sent', handled')
  <2>1. executed' = IF KindOf(Wanted(sent[j])) = "blank" THEN x ELSE Append(x, Wanted(sent[j]))
    BY <1>2, <1>4, <1>8
  <2>2. executed' = AskedNext(x, sent[j])
    BY <1>7, <2>1
  <2> QED
    BY <1>3, <1>6, <2>2
<1>9. CASE q.text = Wanted(sent[j])
  BY <1>8, <1>9 DEF Executed
<1>10. CASE q.text # Wanted(sent[j])
  <2>1. ~ Whole(wire, 1, Encode(sent[j])) /\ q.text \in {<<>>, sent[j].text}
    BY <1>2, <1>10
  <2>2. broken' /\ wire' = <<>>
    BY <1>2, <2>1, HandlesOn
  <2>3. KindOf(<<>>) = "blank"
    BY NativeAssumption DEF KindOf
  <2>4. executed' \in {x, Append(x, sent[j].text)}
    BY <1>2, <1>4, <2>1, <2>3
  <2>5. AskedIn(sent', handled' - 1) = x /\ handled' > 0 /\ sent'[handled'] = sent[j]
    BY <1>3, <1>4, <1>5
  <2> QED
    BY <1>2, <2>2, <2>4, <2>5 DEF Executed
<1> QED
  BY <1>9, <1>10

LEMMA ExecutedStep ==
  ASSUME TypeOK, Aligned, Executed, [Next]_vars
  PROVE  Executed'
<1>1. CASE ~ WithoutColumns'
  BY <1>1 DEF Executed
<1>2. CASE WithoutColumns'
  <2>0. WithoutColumns
    BY <1>2, ColumnsGrow
  <2>1. ASSUME NEW r \in Requests, Send(r) PROVE Executed'
    BY <2>0, <2>1, ExecutedSend
  <2>2. ASSUME NEW k \in 0..Len(wire), Break(k) PROVE Executed'
    <3>1. ~ broken /\ UNCHANGED <<sent, handled, executed>>
      BY <2>2 DEF Break
    <3> QED
      BY <2>0, <3>1 DEF Executed
  <2>3. CASE Handshake
    <3>1. handled = 0 /\ UNCHANGED <<sent, handled, executed>>
      BY <2>0, <2>3 DEF Handshake, Aligned
    <3>2. executed = AskedIn(sent, handled)
      BY <2>0, <3>1 DEF Executed
    <3> QED
      BY <3>1, <3>2 DEF Executed
  <2>4. CASE HangUp
    <3>1. UNCHANGED <<sent, handled, executed, broken, wire>>
      BY <2>4 DEF HangUp
    <3> QED
      BY <2>0, <3>1 DEF Executed
  <2>5. CASE SkipBlock \/ Ping \/ Cancel \/ ReHandshake \/ Unknown
    BY <2>0, <2>5, ExecutedSimple
  <2>6. CASE handleCHQuery
    BY <2>0, <2>6, ExecutedQuery
  <2>7. CASE UNCHANGED vars
    <3>1. UNCHANGED <<sent, handled, executed, broken, wire>>
      BY <2>7 DEF vars
    <3> QED
      BY <2>0, <3>1 DEF Executed
  <2> QED
    BY <2>1, <2>2, <2>3, <2>4, <2>5, <2>6, <2>7 DEF Next
<1> QED
  BY <1>1, <1>2

(* The text of every query that was handled is executed, once and in the   *)
(* order of the packets, and nothing else is; of a query within which the  *)
(* connection breaks, no text or the first one as a whole                  *)
(* (http_server.go:530-577, varint.go:41-56).                              *)
THEOREM ExecutesWhatWasSent == Spec => []OnlyWhatWasSent
<1>1. TypeOK /\ Aligned /\ Executed /\ [Next]_vars => Executed'
  BY ExecutedStep
<1>2. Executed => OnlyWhatWasSent
  BY ExecutedIs
<1> QED
  BY <1>1, <1>2, ExecutedInit, TypeCorrect, AlignedAlways, PTL DEF Spec

-----------------------------------------------------------------------------
(* f holds what a client has read after each of the first packets of s.    *)
Unanswered == [whole |-> <<>>, open |-> <<>>]
Receiving(f, s, n) == f = [i \in 0..n |-> IF i = 0 THEN Unanswered ELSE Taking(f[i - 1], s[i])]
Received(s, n) == (CHOOSE f : Receiving(f, s, n))[n]
ReadOf(s) == Received(s, Len(s))

LEMMA ReceivingExtended ==
  ASSUME NEW s, NEW f, NEW n \in Nat, Receiving(f, s, n)
  PROVE  \E g : Receiving(g, s, n + 1)
<1> DEFINE x == Taking(f[n], s[n + 1])
           g == [i \in 0..(n + 1) |-> IF i = n + 1 THEN x ELSE f[i]]
<1>1. ASSUME NEW i \in 0..(n + 1)
      PROVE  g[i] = IF i = 0 THEN Unanswered ELSE Taking(g[i - 1], s[i])
  <2>1. CASE i = n + 1
    <3>1. i # 0 /\ i - 1 = n /\ g[n] = f[n] /\ g[i] = x
      BY <2>1
    <3> QED
      BY <2>1, <3>1
  <2>2. CASE i # n + 1
    <3>1. i \in 0..n /\ g[i] = f[i] /\ (i # 0 => g[i - 1] = f[i - 1])
      BY <2>2
    <3>2. f[i] = IF i = 0 THEN Unanswered ELSE Taking(f[i - 1], s[i])
      BY <3>1 DEF Receiving
    <3> QED
      BY <3>1, <3>2
  <2> QED
    BY <2>1, <2>2
<1>2. g = [i \in 0..(n + 1) |-> g[i]]
  OBVIOUS
<1> HIDE DEF g
<1>3. Receiving(g, s, n + 1)
  BY <1>1, <1>2 DEF Receiving
<1> QED
  BY <1>3

LEMMA ReceivingExists ==
  ASSUME NEW s, NEW m \in Nat
  PROVE  \E f : Receiving(f, s, m)
<1> DEFINE Good == {n \in 0..m : \E f : Receiving(f, s, n)}
<1>1. 0 \in Good
  <2> DEFINE f == [i \in 0..0 |-> Unanswered]
  <2>1. Receiving(f, s, 0)
    BY DEF Receiving
  <2> HIDE DEF f
  <2> QED
    BY <2>1
<1>2. \A n \in 0..(m - 1) : n \in Good => n + 1 \in Good
  BY ReceivingExtended
<1>3. \A n \in 0..m : n \in Good
  <2> HIDE DEF Good
  <2> QED
    BY <1>1, <1>2, UpTo
<1> QED
  BY <1>3

LEMMA ReceivingSteps ==
  ASSUME NEW s, NEW f, NEW n \in Nat, Receiving(f, s, n)
  PROVE  f[0] = Unanswered /\ \A i \in 1..n : f[i] = Taking(f[i - 1], s[i])
<1>1. f[0] = Unanswered
  BY DEF Receiving
<1>2. ASSUME NEW i \in 1..n PROVE f[i] = Taking(f[i - 1], s[i])
  <2>1. i \in 0..n /\ i # 0
    OBVIOUS
  <2> QED
    BY <2>1 DEF Receiving
<1> QED
  BY <1>1, <1>2

LEMMA ReceivingUnique ==
  ASSUME NEW s, NEW t, NEW f, NEW g, NEW n \in Nat, NEW m \in Nat,
         n <= m, Same(s, t, n), Receiving(f, s, n), Receiving(g, t, m)
  PROVE  \A i \in 0..n : f[i] = g[i]
<1> DEFINE Good == {i \in 0..n : f[i] = g[i]}
<1>1. f[0] = Unanswered /\ \A i \in 1..n : f[i] = Taking(f[i - 1], s[i])
  BY ReceivingSteps
<1>2. g[0] = Unanswered /\ \A i \in 1..m : g[i] = Taking(g[i - 1], t[i])
  BY ReceivingSteps
<1>3. 0 \in Good
  BY <1>1, <1>2
<1>4. ASSUME NEW i \in 0..(n - 1), i \in Good PROVE i + 1 \in Good
  <2>1. i + 1 \in 1..n /\ i + 1 \in 1..m /\ i + 1 \in 0..n /\ (i + 1) - 1 = i
    OBVIOUS
  <2>2. s[i + 1] = t[i + 1]
    BY <2>1 DEF Same
  <2>3. f[i + 1] = Taking(f[i], s[i + 1]) /\ g[i + 1] = Taking(g[i], t[i + 1])
    BY <1>1, <1>2, <2>1
  <2>4. f[i] = g[i]
    BY <1>4
  <2> QED
    BY <2>1, <2>2, <2>3, <2>4
<1>5. \A i \in 0..n : i \in Good
  <2> HIDE DEF Good
  <2> QED
    BY <1>3, <1>4, UpTo
<1> QED
  BY <1>5

LEMMA ReceivedIs ==
  ASSUME NEW s, NEW n \in Nat
  PROVE  \E f : Receiving(f, s, n) /\ Received(s, n) = f[n]
<1> DEFINE f == CHOOSE f : Receiving(f, s, n)
<1>1. Receiving(f, s, n)
  BY ReceivingExists
<1> QED
  BY <1>1 DEF Received

LEMMA ReadNothing == ReadOf(<<>>) = Unanswered
<1>0. PICK s : s = <<>>
  OBVIOUS
<1>1. PICK n \in Nat : n = 0 /\ s = <<>>
  BY <1>0
<1>2. PICK f : Receiving(f, s, n) /\ Received(s, n) = f[n]
  BY ReceivedIs
<1>3. f[0] = Unanswered
  BY <1>2, ReceivingSteps
<1>4. Len(s) = n
  BY <1>1
<1> QED
  BY <1>1, <1>2, <1>3, <1>4 DEF ReadOf

LEMMA ReadMore ==
  ASSUME NEW s \in Seq(Packets), NEW p \in Packets
  PROVE  ReadOf(Append(s, p)) = Taking(ReadOf(s), p)
<1>1. PICK k \in Nat : k = Len(s)
  OBVIOUS
<1>2. PICK t : t = Append(s, p)
  OBVIOUS
<1>3. PICK j \in Nat : j = k + 1
  OBVIOUS
<1>4. Len(t) = j /\ t[j] = p /\ Same(s, t, k)
  BY <1>1, <1>2, <1>3 DEF Same
<1>5. PICK f : Receiving(f, s, k) /\ Received(s, k) = f[k]
  BY ReceivedIs
<1>6. PICK g : Receiving(g, t, j) /\ Received(t, j) = g[j]
  BY ReceivedIs
<1>7. k <= j /\ j \in 1..j /\ j - 1 = k /\ k \in 0..k
  BY <1>3
<1>8. f[k] = g[k]
  BY <1>4, <1>5, <1>6, <1>7, ReceivingUnique
<1>9. g[j] = Taking(g[k], t[j])
  BY <1>6, <1>7, ReceivingSteps
<1>10. Received(t, j) = Taking(Received(s, k), p)
  BY <1>4, <1>5, <1>6, <1>8, <1>9
<1> QED
  BY <1>1, <1>2, <1>4, <1>10 DEF ReadOf

LEMMA AnswersReadIs == AnswersRead = ReadOf(out)
  BY Zenon DEF AnswersRead, ReadOf, Received, Receiving, Unanswered

(* A value is found at its own row and column.                             *)
LEMMA PlaceIs ==
  ASSUME NEW d \in Nat, NEW cols \in Nat, NEW rows \in Nat, NEW r \in Nat,
         d < cols, r < rows
  PROVE  /\ d * rows + r \in Nat /\ d * rows + r + 1 <= cols * rows
         /\ (d * rows + r) \div rows = d /\ (d * rows + r) % rows = r
<1>1. PICK m \in Nat : m = d * rows
  OBVIOUS
<1>2. d * rows + rows = (d + 1) * rows
  OBVIOUS
<1>3. (d + 1) * rows <= cols * rows
  OBVIOUS
<1>4. d * rows + r + 1 <= cols * rows
  BY <1>1, <1>2, <1>3
<1>5. (d * rows + r) \div rows = d /\ (d * rows + r) % rows = r
  OBVIOUS
<1> QED
  BY <1>1, <1>4, <1>5

LEMMA ColumnsDecode ==
  ASSUME NEW cols \in Nat \ {0}, NEW rows \in Nat
  PROVE  Decodes(Block(cols, rows, ByColumn(cols, rows)))
<1>1. PICK values \in Seq(Nat \X Nat) : values = ByColumn(cols, rows)
  BY ByColumnTyped
<1>2. ASSUME NEW c \in 1..cols, NEW r \in 1..rows
      PROVE  values[(c - 1) * rows + r] = <<c, r>>
  <2>1. PICK d \in Nat, e \in Nat : d = c - 1 /\ e = r - 1 /\ d < cols /\ e < rows
                                    /\ d + 1 = c /\ e + 1 = r
    <3>1. c - 1 \in Nat /\ r - 1 \in Nat /\ c - 1 < cols /\ r - 1 < rows
          /\ (c - 1) + 1 = c /\ (r - 1) + 1 = r
      OBVIOUS
    <3> QED
      BY <3>1
  <2>2. /\ d * rows + e \in Nat /\ d * rows + e + 1 <= cols * rows
        /\ (d * rows + e) \div rows = d /\ (d * rows + e) % rows = e
    BY <2>1, PlaceIs
  <2>3. PICK x \in Nat, y \in Nat : x = d * rows + e /\ y = cols * rows /\ x + 1 <= y
    BY <2>2
  <2>4. x + 1 \in 1..y /\ (x + 1) - 1 = x
    BY <2>3
  <2>5. values = [i \in 1..y |-> <<((i - 1) \div rows) + 1, ((i - 1) % rows) + 1>>]
    BY <1>1, <2>3 DEF ByColumn
  <2>6. values[x + 1] = <<(x \div rows) + 1, (x % rows) + 1>>
    BY <2>4, <2>5
  <2>7. values[x + 1] = <<c, r>>
    BY <2>1, <2>2, <2>3, <2>6
  <2>8. (c - 1) * rows + r = x + 1
    <3>1. (c - 1) * rows = d * rows
      BY <2>1
    <3>2. PICK z \in Nat : z = d * rows
      OBVIOUS
    <3> QED
      BY <2>1, <2>3, <3>1, <3>2
  <2> QED
    BY <2>7, <2>8
<1>3. PICK b : b = Block(cols, rows, values)
  OBVIOUS
<1>4. b.cols = cols /\ b.rows = rows /\ b.values = values
  BY <1>3 DEF Block
<1> QED
  BY <1>1, <1>2, <1>3, <1>4 DEF Decodes

-----------------------------------------------------------------------------
(* Every packet of an answer but the last is kept until the last comes.    *)
Kept(p) == p \in Packets /\ p.type \in {"progress", "data", "exception"}

LEMMA EndIs == EndOfStream \in Packets /\ EndOfStream.type = "end"
  BY SimplePackets DEF EndOfStream

LEMMA TakingIs ==
  ASSUME NEW read, NEW p
  PROVE  /\ Kept(p) => Taking(read, p) = [whole |-> read.whole, open |-> Append(read.open, p)]
         /\ Taking(read, EndOfStream) = [whole |-> Append(read.whole, read.open), open |-> <<>>]
         /\ p.type \in {"hello", "pong"} => Taking(read, p) = read
<1>1. p.type # "end" => p # EndOfStream
  BY EndIs
<1>2. Kept(p) => p # EndOfStream
  BY <1>1 DEF Kept
<1>3. p.type \in {"hello", "pong"} =>
        p # EndOfStream /\ ~ (p.type \in {"progress", "data", "exception"})
  BY <1>1
<1>4. Kept(p) => Taking(read, p) = [whole |-> read.whole, open |-> Append(read.open, p)]
  BY <1>2, Zenon DEF Kept, Taking
<1>5. Taking(read, EndOfStream) = [whole |-> Append(read.whole, read.open), open |-> <<>>]
  BY Zenon DEF Taking
<1>6. p.type \in {"hello", "pong"} => Taking(read, p) = read
  BY <1>3, Zenon DEF Taking
<1> QED
  BY <1>4, <1>5, <1>6

LEMMA OneByOne ==
  ASSUME NEW s \in Seq(Packets), NEW p \in Packets, NEW q \in Packets, NEW r \in Packets
  PROVE  /\ s \o <<p>> = Append(s, p)
         /\ s \o <<p, q>> = Append(Append(s, p), q)
         /\ s \o <<p, q, r>> = Append(Append(Append(s, p), q), r)
         /\ Append(<<>>, p) = <<p>> /\ Append(<<p>>, q) = <<p, q>>
<1>1. /\ <<>> \in Seq(Packets) /\ <<p>> \in Seq(Packets) /\ <<q>> \in Seq(Packets)
      /\ <<r>> \in Seq(Packets) /\ <<q, r>> \in Seq(Packets)
  OBVIOUS
<1>2. \A u \in Seq(Packets) : \A x \in Packets :
        Cat(u, <<x>>) = Append(u, x) /\ Append(u, x) \in Seq(Packets)
  BY AppendIsConcat, AppendProperties DEF Cat
<1>3. Cat(<<p>>, <<q>>) = <<p, q>> /\ Cat(<<p>>, <<q, r>>) = <<p, q, r>>
      /\ Cat(<<q>>, <<r>>) = <<q, r>>
  BY Pair, Triple DEF Cat
<1>0. ASSUME NEW u \in Seq(Packets), NEW v \in Seq(Packets), NEW w \in Seq(Packets)
      PROVE  Cat(Cat(u, v), w) = Cat(u, Cat(v, w))
  BY CatAssociative
<1>4. Cat(s, <<p>>) = Append(s, p)
  BY <1>2
<1>5. PICK s1 \in Seq(Packets) : s1 = Append(s, p)
  BY <1>2
<1>6. Cat(s, <<p, q>>) = Append(s1, q) /\ Append(s1, q) \in Seq(Packets)
  <2>1. Cat(s, Cat(<<p>>, <<q>>)) = Cat(Cat(s, <<p>>), <<q>>)
    BY <1>0, <1>1, ZenonT(30)
  <2> QED
    BY <1>2, <1>3, <1>4, <1>5, <2>1
<1>7. Cat(s, <<p, q, r>>) = Append(Append(s1, q), r)
  <2>1. Cat(s, Cat(<<p>>, <<q, r>>)) = Cat(Cat(s, <<p>>), <<q, r>>)
    BY <1>0, <1>1, ZenonT(30)
  <2>2. Cat(s1, Cat(<<q>>, <<r>>)) = Cat(Cat(s1, <<q>>), <<r>>)
    BY <1>0, <1>1, ZenonT(30)
  <2>3. Cat(s1, <<q>>) = Append(s1, q)
    BY <1>2
  <2>4. Cat(Append(s1, q), <<r>>) = Append(Append(s1, q), r)
    BY <1>2, <1>6
  <2>5. Cat(s, <<p, q, r>>) = Cat(s1, <<q, r>>)
    BY <1>3, <1>4, <1>5, <2>1
  <2>6. Cat(s1, <<q, r>>) = Cat(Append(s1, q), <<r>>)
    BY <1>3, <2>2, <2>3
  <2> QED
    BY <2>4, <2>5, <2>6
<1>8. Append(<<>>, p) = <<p>>
  <2>1. Cat(<<>>, <<p>>) = <<p>>
    BY <1>1, CatEmpty
  <2> QED
    BY <1>1, <1>2, <2>1
<1>9. Append(<<p>>, q) = <<p, q>>
  BY <1>1, <1>2, <1>3
<1> QED
  BY <1>4, <1>5, <1>6, <1>7, <1>8, <1>9 DEF Cat

LEMMA ReadTwo ==
  ASSUME NEW s \in Seq(Packets), NEW p \in Packets, NEW whole,
         Kept(p), ReadOf(s) = [whole |-> whole, open |-> <<>>]
  PROVE  ReadOf(s \o <<p, EndOfStream>>) = [whole |-> Append(whole, <<p>>), open |-> <<>>]
<1>1. PICK e \in Packets : e = EndOfStream
  BY EndIs
<1>2. PICK s1 \in Seq(Packets) : s1 = Append(s, p)
  BY AppendProperties
<1>3. ReadOf(s1) = [whole |-> whole, open |-> <<p>>]
  <2>1. ReadOf(s1) = Taking(ReadOf(s), p)
    BY <1>2, ReadMore
  <2>2. Taking(ReadOf(s), p) = [whole |-> ReadOf(s).whole, open |-> Append(ReadOf(s).open, p)]
    BY TakingIs
  <2>3. ReadOf(s).whole = whole /\ ReadOf(s).open = <<>> /\ Append(<<>>, p) = <<p>>
    BY OneByOne
  <2> QED
    BY <2>1, <2>2, <2>3
<1>4. ReadOf(Append(s1, e)) = [whole |-> Append(whole, <<p>>), open |-> <<>>]
  <2>1. ReadOf(Append(s1, e)) = Taking(ReadOf(s1), e)
    BY ReadMore
  <2>2. Taking(ReadOf(s1), e) = [whole |-> Append(ReadOf(s1).whole, ReadOf(s1).open), open |-> <<>>]
    BY <1>1, TakingIs
  <2>3. ReadOf(s1).whole = whole /\ ReadOf(s1).open = <<p>>
    BY <1>3
  <2> QED
    BY <2>1, <2>2, <2>3
<1>5. s \o <<p, e>> = Append(s1, e)
  BY <1>2, OneByOne
<1> QED
  BY <1>1, <1>4, <1>5

LEMMA ReadThree ==
  ASSUME NEW s \in Seq(Packets), NEW p \in Packets, NEW q \in Packets, NEW whole,
         Kept(p), Kept(q), ReadOf(s) = [whole |-> whole, open |-> <<>>]
  PROVE  ReadOf(s \o <<p, q, EndOfStream>>) = [whole |-> Append(whole, <<p, q>>), open |-> <<>>]
<1>1. PICK e \in Packets : e = EndOfStream
  BY EndIs
<1>2. PICK s1 \in Seq(Packets) : s1 = Append(s, p)
  BY AppendProperties
<1>3. PICK s2 \in Seq(Packets) : s2 = Append(s1, q)
  BY AppendProperties
<1>4. ReadOf(s1) = [whole |-> whole, open |-> <<p>>]
  <2>1. ReadOf(s1) = Taking(ReadOf(s), p)
    BY <1>2, ReadMore
  <2>2. Taking(ReadOf(s), p) = [whole |-> ReadOf(s).whole, open |-> Append(ReadOf(s).open, p)]
    BY TakingIs
  <2>3. ReadOf(s).whole = whole /\ ReadOf(s).open = <<>> /\ Append(<<>>, p) = <<p>>
    BY OneByOne
  <2> QED
    BY <2>1, <2>2, <2>3
<1>5. ReadOf(s2) = [whole |-> whole, open |-> <<p, q>>]
  <2>1. ReadOf(s2) = Taking(ReadOf(s1), q)
    BY <1>3, ReadMore
  <2>2. Taking(ReadOf(s1), q) = [whole |-> ReadOf(s1).whole, open |-> Append(ReadOf(s1).open, q)]
    BY TakingIs
  <2>3. ReadOf(s1).whole = whole /\ ReadOf(s1).open = <<p>>
    BY <1>4
  <2>4. Append(<<p>>, q) = <<p, q>>
    BY OneByOne
  <2> QED
    BY <2>1, <2>2, <2>3, <2>4
<1>6. ReadOf(Append(s2, e)) = [whole |-> Append(whole, <<p, q>>), open |-> <<>>]
  <2>1. ReadOf(Append(s2, e)) = Taking(ReadOf(s2), e)
    BY ReadMore
  <2>2. Taking(ReadOf(s2), e) = [whole |-> Append(ReadOf(s2).whole, ReadOf(s2).open), open |-> <<>>]
    BY <1>1, TakingIs
  <2>3. ReadOf(s2).whole = whole /\ ReadOf(s2).open = <<p, q>>
    BY <1>5
  <2> QED
    BY <2>1, <2>2, <2>3
<1>7. s \o <<p, q, e>> = Append(s2, e)
  BY <1>2, <1>3, OneByOne
<1> QED
  BY <1>1, <1>6, <1>7

(* What a sequence of packets answers, read from their types.              *)
LEMMA AnswersOne ==
  ASSUME NEW kind, NEW p \in Packets,
         p.type = "exception" \/ (kind \in {"insert", "write"} /\ p.type = "progress")
  PROVE  Answers(kind, <<p>>) /\ <<p>> \in Seq(Packets)
<1>1. [i \in DOMAIN <<p>> |-> <<p>>[i].type] = <<p.type>>
  OBVIOUS
<1>2. CASE p.type = "exception"
  BY <1>1, <1>2 DEF Answers
<1>3. CASE kind \in {"insert", "write"} /\ p.type = "progress"
  BY <1>1, <1>3 DEF Answers
<1> QED
  BY <1>2, <1>3

LEMMA AnswersTwo ==
  ASSUME NEW kind, NEW p \in Packets, NEW q \in Packets, p.type = "progress",
         \/ q.type = "exception"
         \/ q.type = "data" /\ (kind = "system" \/ (kind = "read" /\ Decodes(q)))
  PROVE  Answers(kind, <<p, q>>) /\ <<p, q>> \in Seq(Packets)
<1>1. [i \in DOMAIN <<p, q>> |-> <<p, q>>[i].type] = <<p.type, q.type>>
  OBVIOUS
<1>2. CASE q.type = "exception"
  BY <1>1, <1>2 DEF Answers
<1>3. CASE q.type = "data" /\ kind = "system"
  BY <1>1, <1>3 DEF Answers
<1>4. CASE q.type = "data" /\ kind = "read" /\ Decodes(q)
  <2>1. <<p, q>>[2] = q
    OBVIOUS
  <2> QED
    BY <1>1, <1>4, <2>1 DEF Answers
<1> QED
  BY <1>2, <1>3, <1>4

(* The packets of an answer are read as one answer to the query.           *)
LEMMA AnswerRead ==
  ASSUME NEW s \in Seq(Packets), NEW whole, NEW kind \in Kinds,
         NEW packets \in AnswersTo(kind), kind # "blank",
         ReadOf(s) = [whole |-> whole, open |-> <<>>]
  PROVE  \E answer \in Seq(Packets) :
           /\ Answers(kind, answer)
           /\ ReadOf(s \o packets) = [whole |-> Append(whole, answer), open |-> <<>>]
<1>1. PICK progress \in Packets :
        progress = Packet("progress") /\ progress.type = "progress" /\ Kept(progress)
  BY SimplePackets DEF Kept
<1>2. PICK exception \in Packets :
        exception = Packet("exception") /\ exception.type = "exception" /\ Kept(exception)
  BY SimplePackets DEF Kept
<1>3. ASSUME NEW t \in Tables, NEW n \in Nat
      PROVE  /\ Kept(Block(t.cols, n, ByRow(t.cols, n)))
             /\ Kept(Block(t.cols, n, ByColumn(t.cols, n)))
             /\ Block(t.cols, n, ByRow(t.cols, n)).type = "data"
             /\ Block(t.cols, n, ByColumn(t.cols, n)).type = "data"
             /\ Decodes(Block(t.cols, n, ByColumn(t.cols, n)))
  <2>1. t.cols \in Nat \ {0} /\ t.cols \in Nat
    BY NativeAssumption
  <2>2. /\ ByRow(t.cols, n) \in Seq(Nat \X Nat) /\ Len(ByRow(t.cols, n)) = t.cols * n
        /\ ByColumn(t.cols, n) \in Seq(Nat \X Nat) /\ Len(ByColumn(t.cols, n)) = t.cols * n
    BY <2>1, ByRowTyped, ByColumnTyped
  <2>3. /\ Block(t.cols, n, ByRow(t.cols, n)) \in Packets
        /\ Block(t.cols, n, ByRow(t.cols, n)).type = "data"
    BY <2>1, <2>2, BlockTyped
  <2>4. /\ Block(t.cols, n, ByColumn(t.cols, n)) \in Packets
        /\ Block(t.cols, n, ByColumn(t.cols, n)).type = "data"
    BY <2>1, <2>2, BlockTyped
  <2>5. Decodes(Block(t.cols, n, ByColumn(t.cols, n)))
    BY <2>1, ColumnsDecode
  <2> QED
    BY <2>3, <2>4, <2>5 DEF Kept
<1>4. CASE kind = "system" /\ \E t \in Tables : packets = sendNativeResponse(t)
  <2>1. PICK t \in Tables : packets = sendNativeResponse(t)
    BY <1>4
  <2>2. t.rows \in Nat
    BY NativeAssumption
  <2>3. PICK b \in Packets : b = Block(t.cols, t.rows, ByRow(t.cols, t.rows))
                             /\ Kept(b) /\ b.type = "data"
    BY <1>3, <2>2 DEF Kept
  <2>4. packets = <<progress, b, EndOfStream>>
    BY <1>1, <2>1, <2>3 DEF sendNativeResponse
  <2>5. Answers(kind, <<progress, b>>) /\ <<progress, b>> \in Seq(Packets)
    BY <1>1, <1>4, <2>3, AnswersTwo
  <2>6. ReadOf(s \o packets) = [whole |-> Append(whole, <<progress, b>>), open |-> <<>>]
    <3>1. Kept(progress) /\ Kept(b)
      BY <1>1, <2>3
    <3> QED
      BY <2>4, <3>1, ReadThree
  <2> QED
    BY <2>5, <2>6
<1>5. CASE kind \in {"insert", "write"} /\ packets = sendNativeProgress
  <2>1. packets = <<progress, EndOfStream>>
    BY <1>1, <1>5 DEF sendNativeProgress
  <2>2. Answers(kind, <<progress>>) /\ <<progress>> \in Seq(Packets)
    BY <1>1, <1>5, AnswersOne
  <2>3. ReadOf(s \o packets) = [whole |-> Append(whole, <<progress>>), open |-> <<>>]
    BY <1>1, <2>1, ReadTwo
  <2> QED
    BY <2>2, <2>3
<1>6. CASE kind = "read" /\ \E t \in Tables : \E n \in 0..t.rows : packets = sendNativeData(t, n)
  <2>1. PICK t \in Tables : \E n \in 0..t.rows : packets = sendNativeData(t, n)
    BY <1>6
  <2>2. t.rows \in Nat
    BY NativeAssumption
  <2>3. PICK n \in 0..t.rows : packets = sendNativeData(t, n)
    BY <2>1
  <2>4. n \in Nat
    BY <2>2
  <2>5. PICK b \in Packets : b = Block(t.cols, n, ByColumn(t.cols, n))
                             /\ Kept(b) /\ b.type = "data" /\ Decodes(b)
    BY <1>3, <2>4 DEF Kept
  <2>6. packets = <<progress, b, EndOfStream>>
    BY <1>1, <2>3, <2>5 DEF sendNativeData
  <2>7. Answers(kind, <<progress, b>>) /\ <<progress, b>> \in Seq(Packets)
    BY <1>1, <1>6, <2>5, AnswersTwo
  <2>8. ReadOf(s \o packets) = [whole |-> Append(whole, <<progress, b>>), open |-> <<>>]
    <3>1. Kept(progress) /\ Kept(b)
      BY <1>1, <2>5
    <3> QED
      BY <2>6, <3>1, ReadThree
  <2> QED
    BY <2>7, <2>8
<1>7. CASE kind = "read" /\ packets = <<Packet("progress")>> \o sendNativeError
  <2>1. packets = <<progress, exception, EndOfStream>>
    BY <1>1, <1>2, <1>7, ExceptionAfter
  <2>2. Answers(kind, <<progress, exception>>) /\ <<progress, exception>> \in Seq(Packets)
    BY <1>1, <1>2, AnswersTwo
  <2>3. ReadOf(s \o packets) = [whole |-> Append(whole, <<progress, exception>>), open |-> <<>>]
    BY <1>1, <1>2, <2>1, ReadThree
  <2> QED
    BY <2>2, <2>3
<1>8. CASE packets = sendNativeError
  <2>1. packets = <<exception, EndOfStream>>
    BY <1>2, <1>8 DEF sendNativeError
  <2>2. Answers(kind, <<exception>>) /\ <<exception>> \in Seq(Packets)
    BY <1>2, AnswersOne
  <2>3. ReadOf(s \o packets) = [whole |-> Append(whole, <<exception>>), open |-> <<>>]
    BY <1>2, <2>1, ReadTwo
  <2> QED
    BY <2>2, <2>3
<1> QED
  BY <1>4, <1>5, <1>6, <1>7, <1>8, AnswersAre

-----------------------------------------------------------------------------
AsksAll == \A i \in DOMAIN sent : sent[i].type = "query" => IsAsked(sent[i])

(* What a client has read answers what was executed.                       *)
Fits(read, texts) ==
  /\ read.whole \in Seq(Seq(Packets)) /\ read.open \in Seq(Packets)
  /\ read = [whole |-> read.whole, open |-> read.open]
  /\ Len(read.whole) = Len(texts)
  /\ \A k \in DOMAIN texts : Answers(KindOf(texts[k]), read.whole[k])
Answered ==
  WithoutColumns /\ AsksAll =>
    /\ Fits(ReadOf(out), executed)
    /\ ReadOf(out).open = <<>> \/ (broken /\ wire = <<>>)

LEMMA FitsMore ==
  ASSUME NEW read, NEW texts \in Seq(Seq(Byte)), NEW text \in Seq(Byte),
         NEW answer \in Seq(Packets), NEW more, Fits(read, texts),
         Answers(KindOf(text), answer),
         more = [whole |-> Append(read.whole, answer), open |-> <<>>]
  PROVE  Fits(more, Append(texts, text)) /\ more.open = <<>>
<1>1. PICK w \in Seq(Seq(Packets)), n \in Nat : w = read.whole /\ n = Len(w) /\ n = Len(texts)
  BY DEF Fits
<1>2. \A k \in 1..n : Answers(KindOf(texts[k]), w[k])
  BY <1>1 DEF Fits
<1>3. PICK u : u = Append(w, answer)
  OBVIOUS
<1>4. u \in Seq(Seq(Packets)) /\ Len(u) = n + 1 /\ u[n + 1] = answer /\ \A k \in 1..n : u[k] = w[k]
  <2>1. Append(w, answer) \in Seq(Seq(Packets)) /\ Len(Append(w, answer)) = Len(w) + 1
        /\ Append(w, answer)[Len(w) + 1] = answer
        /\ \A k \in 1..Len(w) : Append(w, answer)[k] = w[k]
    BY AppendProperties
  <2>2. Len(w) = n
    BY <1>1
  <2> QED
    BY <1>3, <2>1, <2>2, Zenon
<1>5. PICK x : x = Append(texts, text)
  OBVIOUS
<1>6. DOMAIN x = 1..(n + 1) /\ Len(x) = n + 1 /\ x[n + 1] = text /\ \A k \in 1..n : x[k] = texts[k]
  BY <1>1, <1>5
<1>7. ASSUME NEW k \in 1..(n + 1) PROVE Answers(KindOf(x[k]), u[k])
  <2>1. CASE k = n + 1
    BY <1>4, <1>6, <2>1
  <2>2. CASE k # n + 1
    <3>1. k \in 1..n
      BY <2>2
    <3>2. x[k] = texts[k] /\ u[k] = w[k]
      BY <1>4, <1>6, <3>1
    <3> QED
      BY <1>2, <3>1, <3>2
  <2> QED
    BY <2>1, <2>2
<1>8. more.whole = u /\ more.open = <<>> /\ more = [whole |-> more.whole, open |-> more.open]
  BY <1>1, <1>3
<1>9. <<>> \in Seq(Packets)
  OBVIOUS
<1> QED
  BY <1>4, <1>5, <1>6, <1>7, <1>8, <1>9 DEF Fits

LEMMA FitsOpen ==
  ASSUME NEW read, NEW texts, NEW p \in Packets, NEW more, Fits(read, texts),
         more = [whole |-> read.whole, open |-> Append(read.open, p)]
  PROVE  Fits(more, texts)
<1>1. more.whole = read.whole /\ more.open = Append(read.open, p)
  OBVIOUS
<1>2. Append(read.open, p) \in Seq(Packets)
  BY AppendProperties DEF Fits
<1> QED
  BY <1>1, <1>2 DEF Fits

LEMMA AnsweredInit == Init => Answered
<1> SUFFICES ASSUME Init PROVE Answered
  OBVIOUS
<1>1. PICK read : read = ReadOf(out)
  OBVIOUS
<1>2. read = [whole |-> <<>>, open |-> <<>>] /\ executed = <<>>
  BY <1>1, ReadNothing DEF Init, Unanswered
<1>3. read.whole = <<>> /\ read.open = <<>>
  BY <1>2
<1>4. /\ <<>> \in Seq(Seq(Packets)) /\ <<>> \in Seq(Packets) /\ Len(<<>>) = 0
      /\ \A k \in DOMAIN <<>> : FALSE
  OBVIOUS
<1>5. Fits(read, executed)
  BY <1>2, <1>3, <1>4 DEF Fits
<1> QED
  BY <1>1, <1>3, <1>5 DEF Answered

LEMMA AsksGrow ==
  ASSUME TypeOK, [Next]_vars, AsksAll'
  PROVE  AsksAll
<1>1. CASE sent' = sent
  BY <1>1 DEF AsksAll
<1>2. CASE \E r \in Requests : sent' = Append(sent, r)
  <2>1. PICK r \in Requests : sent' = Append(sent, r)
    BY <1>2
  <2>2. sent \in Seq(Requests)
    BY DEF TypeOK
  <2>3. \A i \in DOMAIN sent : i \in DOMAIN Append(sent, r) /\ Append(sent, r)[i] = sent[i]
    BY <2>2
  <2> QED
    BY <2>1, <2>3 DEF AsksAll
<1>3. sent' = sent \/ \E r \in Requests : sent' = Append(sent, r)
  BY DEF Next, Send, Break, Handshake, HangUp, SkipBlock, Ping, Cancel, ReHandshake, Unknown,
         handleCHQuery, Took, vars
<1> QED
  BY <1>1, <1>2, <1>3

(* Packets without an answer to a query do not count.                      *)
LEMMA NotCounted ==
  ASSUME TypeOK, Handshake \/ HangUp \/ SkipBlock \/ Ping \/ Cancel \/ ReHandshake \/ Unknown
  PROVE  ReadOf(out') = ReadOf(out) /\ executed' = executed /\ broken' = broken
<1>1. out \in Seq(Packets)
  BY DEF TypeOK
<1>2. ASSUME NEW type \in {"hello", "pong"}, out' = out \o <<Packet(type)>>
      PROVE  ReadOf(out') = ReadOf(out)
  <2>1. PICK p \in Packets : p = Packet(type) /\ p.type = type
    BY SimplePackets
  <2>2. out' = Append(out, p)
    BY <1>1, <1>2, <2>1, OneByOne
  <2>3. ReadOf(Append(out, p)) = Taking(ReadOf(out), p)
    BY <1>1, ReadMore
  <2>4. Taking(ReadOf(out), p) = ReadOf(out)
    BY <2>1, TakingIs
  <2> QED
    BY <2>2, <2>3, <2>4
<1>3. \/ out' = out \/ out' = out \o <<Packet("hello")>> \/ out' = out \o <<Packet("pong")>>
  BY DEF Handshake, HangUp, SkipBlock, Ping, Cancel, ReHandshake, Unknown, Reply
<1>4. ReadOf(out') = ReadOf(out)
  BY <1>2, <1>3
<1>5. executed' = executed /\ broken' = broken
  BY DEF Handshake, HangUp, SkipBlock, Ping, Cancel, ReHandshake, Unknown, Took
<1> QED
  BY <1>4, <1>5

LEMMA AnsweredQuery ==
  ASSUME TypeOK, Aligned, Answered, WithoutColumns, AsksAll, handleCHQuery
  PROVE  Answered'
<1>1. PICK j : \E q :
           /\ Handles(j, q) /\ sent[j].type = "query" /\ sent[j] \in Requests
           /\ Whole(wire, 1, Encode(sent[j])) => q.text = Wanted(sent[j])
           /\ ~ Whole(wire, 1, Encode(sent[j])) =>
                q.text \in {<<>>, sent[j].text, Wanted(sent[j])}
           /\ executed' = IF KindOf(q.text) = "blank" THEN executed
                          ELSE Append(executed, q.text)
           /\ \E packets \in AnswersTo(KindOf(q.text)) : out' = out \o packets
  BY QueryHandled
<1>2. PICK q :
           /\ Handles(j, q) /\ sent[j].type = "query" /\ sent[j] \in Requests
           /\ Whole(wire, 1, Encode(sent[j])) => q.text = Wanted(sent[j])
           /\ ~ Whole(wire, 1, Encode(sent[j])) =>
                q.text \in {<<>>, sent[j].text, Wanted(sent[j])}
           /\ executed' = IF KindOf(q.text) = "blank" THEN executed
                          ELSE Append(executed, q.text)
           /\ \E packets \in AnswersTo(KindOf(q.text)) : out' = out \o packets
  BY <1>1
<1>3. wire # <<>> /\ j \in 1..Len(sent)
  BY <1>2 DEF Handles
<1>4. out \in Seq(Packets) /\ executed \in Seq(Seq(Byte)) /\ sent \in Seq(Requests)
  BY DEF TypeOK
<1>5. PICK read : read = ReadOf(out)
  OBVIOUS
<1>6. Fits(read, executed) /\ read.open = <<>> /\ read = [whole |-> read.whole, open |-> read.open]
  BY <1>3, <1>5 DEF Answered, Fits
<1>7. read = [whole |-> read.whole, open |-> <<>>]
  BY <1>6
<1>8. PICK kind \in Kinds : kind = KindOf(q.text)
  BY KindTyped
<1>9. PICK packets \in AnswersTo(kind) : out' = out \o packets
  BY <1>2, <1>8
<1>10. CASE kind = "blank"
  <2>1. executed' = executed
    BY <1>2, <1>8, <1>10
  <2>2. packets = sendEmptyBlock
    BY <1>9, <1>10, AnswersAre, Zenon
  <2>3. PICK b \in Packets : b = Block(0, 0, <<>>) /\ Kept(b)
    <3>1. PICK z \in Nat : z = 0
      OBVIOUS
    <3>2. PICK v \in Seq(Nat \X Nat) : v = <<>>
      BY EmptySeq
    <3>3. Len(v) = z * z
      BY <3>1, <3>2
    <3>4. Block(z, z, v) \in Packets /\ Block(z, z, v).type = "data"
      BY <3>3, BlockTyped
    <3> QED
      BY <3>1, <3>2, <3>4 DEF Kept
  <2>4. out' = Append(out, b)
    BY <1>4, <1>9, <2>2, <2>3, OneByOne DEF sendEmptyBlock
  <2>5. ReadOf(out') = [whole |-> read.whole, open |-> Append(read.open, b)]
    <3>1. ReadOf(Append(out, b)) = Taking(ReadOf(out), b)
      BY <1>4, ReadMore
    <3> QED
      BY <1>5, <2>3, <2>4, <3>1, TakingIs
  <2>6. Fits(ReadOf(out'), executed')
    BY <1>6, <2>1, <2>5, FitsOpen
  <2>7. ~ Whole(wire, 1, Encode(sent[j]))
    <3>1. IsAsked(sent[j])
      BY <1>2, <1>3, <1>4 DEF AsksAll
    <3>2. KindOf(Wanted(sent[j])) # "blank"
      BY <3>1, Zenon DEF IsAsked
    <3> QED
      BY <1>2, <1>8, <1>10, <3>2
  <2>8. broken' /\ wire' = <<>>
    BY <1>2, <2>7, HandlesOn
  <2> QED
    BY <2>6, <2>8 DEF Answered
<1>11. CASE kind # "blank"
  <2>1. q.text \in Seq(Byte)
    <3>1. <<>> \in Seq(Byte)
      OBVIOUS
    <3>2. sent[j].text \in Seq(Byte) /\ sent[j].secondary \in Seq(Byte)
      BY <1>2, NativeAssumption
    <3>3. Wanted(sent[j]) \in Seq(Byte)
      BY <3>2 DEF Wanted
    <3> QED
      BY <1>2, <3>1, <3>2, <3>3
  <2>2. PICK text \in Seq(Byte) : text = q.text
    BY <2>1
  <2>3. executed' = Append(executed, text)
    BY <1>2, <1>8, <1>11, <2>2
  <2>4. PICK answer \in Seq(Packets) :
          /\ Answers(kind, answer)
          /\ ReadOf(out \o packets) = [whole |-> Append(read.whole, answer), open |-> <<>>]
    BY <1>4, <1>5, <1>7, <1>9, <1>11, AnswerRead
  <2>5. PICK more : more = ReadOf(out')
    OBVIOUS
  <2>6. more = [whole |-> Append(read.whole, answer), open |-> <<>>]
    BY <1>9, <2>4, <2>5
  <2>7. Answers(KindOf(text), answer)
    BY <1>8, <2>2, <2>4
  <2>8. Fits(more, Append(executed, text)) /\ more.open = <<>>
    <3>1. PICK texts \in Seq(Seq(Byte)) : texts = executed
      BY <1>4
    <3>2. Fits(read, texts)
      BY <1>6, <3>1
    <3>3. Fits(more, Append(texts, text)) /\ more.open = <<>>
      BY <2>6, <2>7, <3>2, FitsMore
    <3> QED
      BY <3>1, <3>3
  <2> QED
    BY <2>3, <2>5, <2>8 DEF Answered
<1> QED
  BY <1>10, <1>11

LEMMA AnsweredStep ==
  ASSUME TypeOK, Aligned, Answered, [Next]_vars
  PROVE  Answered'
<1>1. CASE ~ (WithoutColumns' /\ AsksAll')
  BY <1>1 DEF Answered
<1>2. CASE WithoutColumns' /\ AsksAll'
  <2>0. WithoutColumns /\ AsksAll
    BY <1>2, ColumnsGrow, AsksGrow
  <2>a. Fits(ReadOf(out), executed) /\ (ReadOf(out).open = <<>> \/ (broken /\ wire = <<>>))
    BY <2>0 DEF Answered
  <2>1. ASSUME NEW r \in Requests, Send(r) PROVE Answered'
    <3>1. ~ broken /\ UNCHANGED <<executed, out>>
      BY <2>1 DEF Send
    <3> QED
      BY <2>a, <3>1 DEF Answered
  <2>2. ASSUME NEW k \in 0..Len(wire), Break(k) PROVE Answered'
    <3>1. ~ broken /\ UNCHANGED <<executed, out>>
      BY <2>2 DEF Break
    <3> QED
      BY <2>a, <3>1 DEF Answered
  <2>3. CASE Handshake
    <3>1. ReadOf(out') = ReadOf(out) /\ executed' = executed /\ broken' = broken
      BY <2>3, NotCounted
    <3>2. wire = <<>> => wire' = <<>>
      <4>1. PICK hello : hello = ReadFields(wire, 1, HelloFields) /\ Consume(hello.next)
        BY <2>3 DEF Handshake
      <4>2. HelloFields \in Seq(FieldKinds) /\ 1 \in Nat /\ 1 >= 1
        BY DEF HelloFields, FieldKinds
      <4>3. hello.next \in Nat /\ hello.next >= 1
        BY <4>1, <4>2, FieldsPlaced DEF Placed, TypeOK
      <4> QED
        BY <4>1, <4>3 DEF Consume
    <3> QED
      BY <2>a, <3>1, <3>2 DEF Answered
  <2>4. CASE HangUp
    <3>1. ReadOf(out') = ReadOf(out) /\ executed' = executed /\ broken' = broken
      BY <2>4, NotCounted
    <3>2. wire' = wire
      BY <2>4 DEF HangUp
    <3> QED
      BY <2>a, <3>1, <3>2 DEF Answered
  <2>5. CASE SkipBlock \/ Ping \/ Cancel \/ ReHandshake \/ Unknown
    <3>1. ReadOf(out') = ReadOf(out) /\ executed' = executed /\ broken' = broken
      BY <2>5, NotCounted
    <3>2. wire # <<>>
      BY <2>5 DEF SkipBlock, Ping, Cancel, ReHandshake, Unknown, Takes
    <3> QED
      BY <2>a, <3>1, <3>2 DEF Answered
  <2>6. CASE handleCHQuery
    BY <2>0, <2>6, AnsweredQuery
  <2>7. CASE UNCHANGED vars
    BY <2>a, <2>7 DEF Answered, vars
  <2> QED
    BY <2>1, <2>2, <2>3, <2>4, <2>5, <2>6, <2>7 DEF Next
<1> QED
  BY <1>1, <1>2

LEMMA AnsweredIs == Answered => OneAnswerEach
<1>1. AnswersRead = ReadOf(out)
  BY AnswersReadIs
<1> QED
  BY <1>1, Zenon DEF Answered, Fits, AsksAll, OneAnswerEach

(* A client that sends neither columns nor blank texts gets exactly one    *)
(* answer to each query, in order, that fits the query and shows every     *)
(* value of a SELECT in its own row and column; every answer ends, unless  *)
(* the connection broke within the query (http_server.go:694-830).         *)
THEOREM AnswersEachOnce == Spec => []OneAnswerEach
<1>1. TypeOK /\ Aligned /\ Answered /\ [Next]_vars => Answered'
  BY AnsweredStep
<1> QED
  BY <1>1, AnsweredIs, AnsweredInit, TypeCorrect, AlignedAlways, PTL DEF Spec
=============================================================================
