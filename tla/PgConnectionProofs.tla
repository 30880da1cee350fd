------------------------- MODULE PgConnectionProofs -------------------------
(***************************************************************************)
(* Proofs about one connection, for all clients of the protocol: any       *)
(* requests and start-ups that it can express, in any number, cut off      *)
(* anywhere.                                                               *)
(*                                                                         *)
(* First, what the readers of PgWire return for what its writers, or a     *)
(* client, wrote: for every number, text, value and frame that the         *)
(* protocol can express, wherever it stands in a stream.  At(b, p, s) says *)
(* that the bytes s stand in b from position p on.  A reader that repeats  *)
(* another one (Chain) is proved to return what was written by an          *)
(* induction on how often; it is unrolled once for shorts, longs, values   *)
(* and parts.                                                              *)
(*                                                                         *)
(* Then the connection.  The server reads what was sent                    *)
(* (ReadsWhatWasSent): each body is read back as the message it was made   *)
(* from, each frame ends where the next begins, and the stream that waits  *)
(* is always the unread rest of what was sent, or the beginning of that    *)
(* rest.  With that a session starts with the parameters that were asked   *)
(* for (StartsAsAsked).  The client can read what it gets                  *)
(* (AnswersInFrames, ReadyForEach): out is always a sequence of whole      *)
(* messages, each answer adds whole messages to it, and with them one      *)
(* ReadyForQuery where one is due (Told).                                  *)
(***************************************************************************)
EXTENDS PgConnection, StreamLemmas, FiniteSetTheorems

(* q holds n, and n divided by 256 as often as k times.                    *)
Shifts(q, n, k) == q = [i \in 0..k |-> IF i = 0 THEN n ELSE q[i - 1] \div 256]

LEMMA ShiftsIs ==
  ASSUME NEW n \in Nat, NEW k \in 0..3
  PROVE  \E q : Shifts(q, n, k) /\ Shifted(n, k) = q[k]
<1> DEFINE a == n \div 256
           b == a \div 256
           c == b \div 256
           w == [i \in 0..k |-> IF i = 0 THEN n ELSE IF i = 1 THEN a ELSE IF i = 2 THEN b ELSE c]
<1>1. w = [i \in 0..k |-> IF i = 0 THEN n ELSE w[i - 1] \div 256]
  <2> SUFFICES ASSUME NEW i \in 0..k
               PROVE  w[i] = IF i = 0 THEN n ELSE w[i - 1] \div 256
    OBVIOUS
  <2>1. i = 0 \/ i = 1 \/ i = 2 \/ i = 3
    OBVIOUS
  <2> QED
    BY <2>1
<1>2. Shifts(w, n, k)
  BY <1>1 DEF Shifts
<1> DEFINE q == CHOOSE q : Shifts(q, n, k)
<1>3. Shifts(q, n, k)
  <2> HIDE DEF w
  <2> QED
    BY <1>2
<1>4. Shifted(n, k) = q[k]
  BY Zenon DEF Shifted, Shifts
<1> QED
  BY <1>3, <1>4

LEMMA ShiftedIs ==
  ASSUME NEW n \in Nat
  PROVE  /\ Shifted(n, 0) = n
         /\ Shifted(n, 1) = n \div 256
         /\ Shifted(n, 2) = (n \div 256) \div 256
         /\ Shifted(n, 3) = ((n \div 256) \div 256) \div 256
<1>0. PICK q : Shifts(q, n, 0) /\ Shifted(n, 0) = q[0]
  BY ShiftsIs
<1>1. PICK r : Shifts(r, n, 1) /\ Shifted(n, 1) = r[1]
  BY ShiftsIs
<1>2. PICK s : Shifts(s, n, 2) /\ Shifted(n, 2) = s[2]
  BY ShiftsIs
<1>3. PICK t : Shifts(t, n, 3) /\ Shifted(n, 3) = t[3]
  BY ShiftsIs
<1>4. Shifted(n, 0) = n
  BY <1>0 DEF Shifts
<1>5. Shifted(n, 1) = n \div 256
  <2>1. r[0] = n /\ r[1] = r[0] \div 256
    BY <1>1 DEF Shifts
  <2> QED
    BY <1>1, <2>1
<1>6. Shifted(n, 2) = (n \div 256) \div 256
  <2>1. s[0] = n /\ s[1] = s[0] \div 256 /\ s[2] = s[1] \div 256
    BY <1>2 DEF Shifts
  <2> QED
    BY <1>2, <2>1
<1>7. Shifted(n, 3) = ((n \div 256) \div 256) \div 256
  <2>1. t[0] = n /\ t[1] = t[0] \div 256 /\ t[2] = t[1] \div 256 /\ t[3] = t[2] \div 256
    BY <1>3 DEF Shifts
  <2> QED
    BY <1>3, <2>1
<1> QED
  BY <1>4, <1>5, <1>6, <1>7

LEMMA Division ==
  ASSUME NEW n \in Nat
  PROVE  n \div 256 \in Nat /\ n % 256 \in Byte /\ n = 256 * (n \div 256) + (n % 256)
<1>1. n \div 256 \in Nat /\ n = 256 * (n \div 256) + (n % 256)
  OBVIOUS
<1>2. n % 256 \in Byte
  BY DEF Byte
<1> QED
  BY <1>1, <1>2

(* The bytes of a number that fits into two and into four bytes.           *)
LEMMA BigEndian2 ==
  ASSUME NEW n \in Shorts
  PROVE  \E r \in Byte, s \in Byte :
           BigEndian(n, 2) = <<r, s>> /\ r < 128 /\ n = 256 * r + s
<1>1. n \in Nat /\ n \div 256 < 128
  BY DEF Shorts
<1>2. PICK r \in Nat, s \in Byte : r = n \div 256 /\ s = n % 256 /\ n = 256 * r + s
  BY <1>1, Division
<1>3. r < 128 /\ r % 256 = r /\ r \in Byte
  BY <1>1, <1>2 DEF Byte
<1>4. Shifted(n, 0) = n /\ Shifted(n, 1) = r
  BY <1>1, <1>2, ShiftedIs
<1>5. BigEndian(n, 2) = <<Shifted(n, 1) % 256, Shifted(n, 0) % 256>>
  BY DEF BigEndian
<1>6. BigEndian(n, 2) = <<r, s>>
  BY <1>2, <1>3, <1>4, <1>5
<1> QED
  BY <1>2, <1>3, <1>6

LEMMA BigEndian4 ==
  ASSUME NEW n \in Longs
  PROVE  \E r \in Byte, s \in Byte, t \in Byte, u \in Byte :
           /\ BigEndian(n, 4) = <<r, s, t, u>>
           /\ r < 128 /\ n = 256 * (256 * (256 * r + s) + t) + u
<1>0. n \in Nat /\ ((n \div 256) \div 256) \div 256 < 128
  <2>1. n \in Nat /\ n <= 2147483647
    BY SMT DEF Longs
  <2>2. PICK a \in Nat : a = n \div 256 /\ a <= 8388607
    BY <2>1, SMT
  <2>3. PICK b \in Nat : b = a \div 256 /\ b <= 32767
    BY <2>2, SMT
  <2> QED
    BY <2>1, <2>2, <2>3, SMT
<1>1. PICK a \in Nat, u \in Byte : a = n \div 256 /\ u = n % 256 /\ n = 256 * a + u
  BY <1>0, Division
<1>2. PICK b \in Nat, t \in Byte : b = a \div 256 /\ t = a % 256 /\ a = 256 * b + t
  BY <1>1, Division
<1>3. PICK r \in Nat, s \in Byte : r = b \div 256 /\ s = b % 256 /\ b = 256 * r + s
  BY <1>2, Division
<1>4. r < 128 /\ r % 256 = r /\ r \in Byte
  <2>1. r < 128
    BY <1>0, <1>1, <1>2, <1>3
  <2> QED
    BY <2>1 DEF Byte
<1>5. Shifted(n, 0) = n /\ Shifted(n, 1) = a /\ Shifted(n, 2) = b /\ Shifted(n, 3) = r
  BY <1>0, <1>1, <1>2, <1>3, ShiftedIs
<1>6. BigEndian(n, 4) = <<Shifted(n, 3) % 256, Shifted(n, 2) % 256,
                          Shifted(n, 1) % 256, Shifted(n, 0) % 256>>
  BY DEF BigEndian
<1>7. BigEndian(n, 4) = <<r, s, t, u>>
  BY <1>1, <1>2, <1>3, <1>4, <1>5, <1>6
<1>8. n = 256 * (256 * (256 * r + s) + t) + u
  BY <1>1, <1>2, <1>3
<1> QED
  BY <1>4, <1>7, <1>8

LEMMA BigEndianTyped ==
  /\ \A n \in Shorts : BigEndian(n, 2) \in Seq(Byte) /\ Len(BigEndian(n, 2)) = 2
  /\ \A n \in Longs : BigEndian(n, 4) \in Seq(Byte) /\ Len(BigEndian(n, 4)) = 4
<1>1. ASSUME NEW n \in Shorts
      PROVE  BigEndian(n, 2) \in Seq(Byte) /\ Len(BigEndian(n, 2)) = 2
  <2>1. PICK r \in Byte, s \in Byte : BigEndian(n, 2) = <<r, s>>
    BY BigEndian2
  <2>2. <<r, s>> \in Seq(Byte) /\ Len(<<r, s>>) = 2
    OBVIOUS
  <2> QED
    BY <2>1, <2>2, Zenon
<1>2. ASSUME NEW n \in Longs
      PROVE  BigEndian(n, 4) \in Seq(Byte) /\ Len(BigEndian(n, 4)) = 4
  <2>1. PICK r \in Byte, s \in Byte, t \in Byte, u \in Byte : BigEndian(n, 4) = <<r, s, t, u>>
    BY BigEndian4
  <2>2. <<r, s, t, u>> \in Seq(Byte) /\ Len(<<r, s, t, u>>) = 4
    OBVIOUS
  <2> QED
    BY <2>1, <2>2, Zenon
<1> QED
  BY <1>1, <1>2

(* v holds the number that the first bytes from position p on make.        *)
Sums(v, b, p, width) ==
  v = [i \in 1..width |->
         IF i = 1 THEN b[p] - 256 * (b[p] \div 128) ELSE 256 * v[i - 1] + b[p + i - 1]]

LEMMA Number2 ==
  ASSUME NEW b, NEW p \in Nat, NEW r \in Byte, NEW s \in Byte,
         b[p] = r, b[p + 1] = s, r < 128
  PROVE  Number(b, p, 2) = Got(256 * r + s, p + 2)
<1> DEFINE w == [i \in 1..2 |-> IF i = 1 THEN r ELSE 256 * r + s]
<1>1. r - 256 * (r \div 128) = r
  BY DEF Byte
<1>2. w = [i \in 1..2 |-> IF i = 1 THEN b[p] - 256 * (b[p] \div 128)
                          ELSE 256 * w[i - 1] + b[p + i - 1]]
  <2> SUFFICES ASSUME NEW i \in 1..2
               PROVE  w[i] = IF i = 1 THEN b[p] - 256 * (b[p] \div 128)
                             ELSE 256 * w[i - 1] + b[p + i - 1]
    OBVIOUS
  <2>1. i = 1 \/ (i = 2 /\ p + i - 1 = p + 1)
    OBVIOUS
  <2> QED
    BY <1>1, <2>1
<1>3. Sums(w, b, p, 2)
  BY <1>2 DEF Sums
<1> DEFINE v == CHOOSE v : Sums(v, b, p, 2)
<1>4. Sums(v, b, p, 2)
  <2> HIDE DEF w
  <2> QED
    BY <1>3
<1>5. Number(b, p, 2) = Got(v[2], p + 2)
  BY Zenon DEF Number, Sums
<1> HIDE DEF v
<1>6. v[1] = b[p] - 256 * (b[p] \div 128) /\ v[2] = 256 * v[1] + b[p + 1]
  BY <1>4 DEF Sums
<1>7. v[1] = r
  BY <1>1, <1>6
<1> QED
  BY <1>5, <1>6, <1>7

(* h is the byte r with its highest bit as the sign.                       *)
Signed(r, h) == h = r - 256 * (r \div 128)

LEMMA Number4 ==
  ASSUME NEW b, NEW p \in Nat, NEW r \in Byte, NEW s \in Byte, NEW t \in Byte, NEW u \in Byte,
         NEW h \in Int, Signed(r, h),
         b[p] = r, b[p + 1] = s, b[p + 2] = t, b[p + 3] = u
  PROVE  Number(b, p, 4) = Got(256 * (256 * (256 * h + s) + t) + u, p + 4)
<1> DEFINE x == 256 * h + s
           y == 256 * x + t
           w == [i \in 1..4 |-> IF i = 1 THEN h ELSE IF i = 2 THEN x
                                ELSE IF i = 3 THEN y ELSE 256 * y + u]
<1>1. h = b[p] - 256 * (b[p] \div 128) /\ s \in Int /\ t \in Int /\ u \in Int
  BY DEF Byte, Signed
<1>2. w = [i \in 1..4 |-> IF i = 1 THEN b[p] - 256 * (b[p] \div 128)
                          ELSE 256 * w[i - 1] + b[p + i - 1]]
  <2> SUFFICES ASSUME NEW i \in 1..4
               PROVE  w[i] = IF i = 1 THEN b[p] - 256 * (b[p] \div 128)
                             ELSE 256 * w[i - 1] + b[p + i - 1]
    OBVIOUS
  <2>1. \/ i = 1
        \/ i = 2 /\ p + i - 1 = p + 1
        \/ i = 3 /\ p + i - 1 = p + 2
        \/ i = 4 /\ p + i - 1 = p + 3
    OBVIOUS
  <2> QED
    BY <1>1, <2>1
<1>3. Sums(w, b, p, 4)
  BY <1>2 DEF Sums
<1> HIDE DEF w
<1> DEFINE v == CHOOSE v : Sums(v, b, p, 4)
<1>4. Sums(v, b, p, 4)
  BY <1>3
<1>5. Number(b, p, 4) = Got(v[4], p + 4)
  BY Zenon DEF Number, Sums
<1> HIDE DEF v
<1>6. /\ v[1] = b[p] - 256 * (b[p] \div 128) /\ v[2] = 256 * v[1] + b[p + 1]
      /\ v[3] = 256 * v[2] + b[p + 2] /\ v[4] = 256 * v[3] + b[p + 3]
  BY <1>4 DEF Sums
<1>7. v[1] = h
  BY <1>1, <1>6
<1> QED
  BY <1>5, <1>6, <1>7
-----------------------------------------------------------------------------
(* The stream s stands in b from position p on.                            *)
At(b, p, s) ==
  /\ b \in Seq(Byte) /\ s \in Seq(Byte) /\ p \in Nat /\ p >= 1 /\ p + Len(s) <= Len(b) + 1
  /\ \A i \in 1..Len(s) : b[p - 1 + i] = s[i]

LEMMA AtWhole ==
  ASSUME NEW b \in Seq(Byte)
  PROVE  At(b, 1, b)
  BY DEF At

LEMMA AtCat ==
  ASSUME NEW b, NEW p, NEW s \in Seq(Byte), NEW t \in Seq(Byte), At(b, p, Cat(s, t))
  PROVE  At(b, p, s) /\ At(b, p + Len(s), t)
<1>1. b \in Seq(Byte) /\ p \in Nat /\ p >= 1 /\ Len(b) \in Nat /\ Len(s) \in Nat /\ Len(t) \in Nat
  BY DEF At
<1>2. p + Len(s) + Len(t) <= Len(b) + 1
  BY <1>1, CatTyped DEF At
<1>3. /\ \A i \in 1..Len(s) : b[p - 1 + i] = s[i]
      /\ \A i \in 1..Len(t) : b[p + Len(s) - 1 + i] = t[i]
  <2>1. \A i \in 1..(Len(s) + Len(t)) : b[p - 1 + i] = Cat(s, t)[i]
    BY CatTyped DEF At
  <2>2. \A i \in 1..Len(s) : Cat(s, t)[i] = s[i]
    BY DEF Cat
  <2>3. \A i \in 1..Len(t) : Cat(s, t)[Len(s) + i] = t[i]
    BY DEF Cat
  <2>4. ASSUME NEW i \in 1..Len(t) PROVE b[p + Len(s) - 1 + i] = t[i]
    <3>1. PICK j \in 1..(Len(s) + Len(t)) : j = Len(s) + i /\ p - 1 + j = p + Len(s) - 1 + i
      BY <1>1
    <3> QED
      BY <2>1, <2>3, <3>1
  <2>5. \A i \in 1..Len(s) : i \in 1..(Len(s) + Len(t))
    BY <1>1
  <2> QED
    BY <2>1, <2>2, <2>4, <2>5
<1>4. At(b, p, s)
  BY <1>1, <1>2, <1>3 DEF At
<1>5. PICK q \in Nat : q = p + Len(s) /\ q >= 1
  BY <1>1
<1>6. At(b, q, t)
  <2>1. q + Len(t) <= Len(b) + 1
    BY <1>1, <1>2, <1>5
  <2>2. ASSUME NEW i \in 1..Len(t) PROVE b[q - 1 + i] = t[i]
    <3>1. b[p + Len(s) - 1 + i] = t[i]
      BY <1>3, Zenon
    <3>2. p + Len(s) - 1 + i = q - 1 + i
      BY <1>1, <1>5
    <3> QED
      BY <3>1, <3>2
  <2> QED
    BY <1>1, <1>5, <2>1, <2>2, Zenon DEF At
<1> QED
  BY <1>4, <1>5, <1>6

LEMMA AtSub ==
  ASSUME NEW b, NEW p, NEW s, At(b, p, s)
  PROVE  SubSeq(b, p, p - 1 + Len(s)) = s
<1>1. /\ b \in Seq(Byte) /\ p \in Nat /\ p >= 1 /\ s \in Seq(Byte)
      /\ p - 1 + Len(s) <= Len(b) /\ Len(s) \in Nat
      /\ \A i \in 1..Len(s) : b[p - 1 + i] = s[i]
  BY DEF At
<1> DEFINE u == SubSeq(b, p, p - 1 + Len(s))
<1>2. u \in Seq(Byte) /\ Len(u) = Len(s) /\ \A i \in 1..Len(s) : u[i] = b[p - 1 + i]
  <2>1. u = [i \in 1..Len(s) |-> b[p - 1 + i]]
    BY <1>1
  <2>2. \A i \in 1..Len(s) : b[p - 1 + i] \in Byte
    BY <1>1
  <2> QED
    BY <1>1, <2>1, <2>2
<1> QED
  BY <1>1, <1>2, SeqEqual

LEMMA AtShort ==
  ASSUME NEW b, NEW p, NEW n \in Shorts, At(b, p, BigEndian(n, 2))
  PROVE  Short(b, p) = Got(n, p + 2)
<1>1. PICK r \in Byte, s \in Byte : BigEndian(n, 2) = <<r, s>> /\ r < 128 /\ n = 256 * r + s
  BY BigEndian2
<1>2. p \in Nat /\ b[p] = r /\ b[p + 1] = s
  <2>1. At(b, p, <<r, s>>)
    BY <1>1
  <2>2. p \in Nat /\ b[p - 1 + 1] = r /\ b[p - 1 + 2] = s
    BY <2>1 DEF At
  <2> QED
    BY <2>2
<1> QED
  BY <1>1, <1>2, Number2 DEF Short

LEMMA AtLong ==
  ASSUME NEW b, NEW p, NEW n \in Longs, At(b, p, BigEndian(n, 4))
  PROVE  Long(b, p) = Got(n, p + 4)
<1>1. PICK r \in Byte, s \in Byte, t \in Byte, u \in Byte :
        /\ BigEndian(n, 4) = <<r, s, t, u>>
        /\ r < 128 /\ n = 256 * (256 * (256 * r + s) + t) + u
  BY BigEndian4
<1>2. p \in Nat /\ b[p] = r /\ b[p + 1] = s /\ b[p + 2] = t /\ b[p + 3] = u
  <2>1. At(b, p, <<r, s, t, u>>)
    BY <1>1
  <2>2. p \in Nat /\ b[p - 1 + 1] = r /\ b[p - 1 + 2] = s /\ b[p - 1 + 3] = t /\ b[p - 1 + 4] = u
    BY <2>1 DEF At
  <2> QED
    BY <2>2
<1>3. r \in Int /\ Signed(r, r)
  BY <1>1 DEF Byte, Signed
<1> QED
  BY <1>1, <1>2, <1>3, Number4 DEF Long

LEMMA TextTyped ==
  ASSUME NEW s \in Texts
  PROVE  s \in Seq(Byte) /\ Text(s) \in Seq(Byte) /\ Len(Text(s)) = Len(s) + 1
<1>1. s \in Seq(Byte)
  <2>1. Letters \subseteq Byte
    BY DEF Letters, Byte
  <2> QED
    BY <2>1 DEF Texts
<1>2. 0 \in Byte
  BY DEF Byte
<1> QED
  BY <1>1, <1>2 DEF Text

LEMMA AtText ==
  ASSUME NEW b, NEW p, NEW s \in Texts, At(b, p, Text(s))
  PROVE  TextAt(b, p) = Got(s, p + Len(Text(s)))
<1>1. s \in Seq(Byte) /\ Text(s) \in Seq(Byte) /\ Len(Text(s)) = Len(s) + 1 /\ Len(s) \in Nat
  BY TextTyped
<1>2. b \in Seq(Byte) /\ p \in Nat /\ p >= 1 /\ p + Len(s) <= Len(b) /\ Len(b) \in Nat
  BY <1>1 DEF At
<1>3. /\ \A i \in 1..Len(s) : b[p - 1 + i] = s[i] /\ s[i] # 0
      /\ b[p - 1 + (Len(s) + 1)] = 0
  <2>1. /\ \A i \in 1..(Len(s) + 1) : b[p - 1 + i] = Text(s)[i]
        /\ \A i \in 1..Len(s) : Text(s)[i] = s[i]
        /\ Text(s)[Len(s) + 1] = 0
    BY <1>1 DEF At, Text
  <2>2. \A i \in 1..Len(s) : s[i] # 0
    <3>1. \A i \in 1..Len(s) : s[i] \in Letters
      BY DEF Texts
    <3>2. \A c \in Letters : c # 0
      BY DEF Letters
    <3> QED
      BY <3>1, <3>2
  <2>3. Len(s) + 1 \in 1..(Len(s) + 1) /\ \A i \in 1..Len(s) : i \in 1..(Len(s) + 1)
    BY <1>1
  <2> QED
    BY <2>1, <2>2, <2>3
<1>4. PICK e \in Nat : e = p + Len(s) /\ e = p - 1 + (Len(s) + 1)
  BY <1>1, <1>2
<1> DEFINE Z == {i \in p..Len(b) : b[i] = 0}
<1>5. e \in Z
  BY <1>2, <1>3, <1>4
<1>6. \A i \in Z : e <= i
  <2> SUFFICES ASSUME NEW i \in p..Len(b), i < e PROVE b[i] # 0
    BY <1>2, <1>4
  <2>1. PICK j \in 1..Len(s) : i = p - 1 + j
    <3>1. i - p + 1 \in 1..Len(s) /\ i = p - 1 + (i - p + 1)
      BY <1>1, <1>2, <1>4
    <3> QED
      BY <3>1
  <2> QED
    BY <1>3, <2>1
<1>7. Min(Z) = e
  <2>1. \A i \in Z : i \in Nat
    BY <1>2
  <2> HIDE DEF Z
  <2> DEFINE m == CHOOSE x \in Z : \A y \in Z : x <= y
  <2>2. m \in Z /\ \A y \in Z : m <= y
    BY <1>5, <1>6
  <2>3. m <= e /\ e <= m /\ m \in Nat
    BY <1>5, <1>6, <2>1, <2>2
  <2>4. m = e
    BY <2>3
  <2> QED
    BY <2>4, Zenon DEF Min
<1>8. SubSeq(b, p, e - 1) = s
  <2>1. At(b, p, s)
    BY <1>1, <1>2, <1>3 DEF At
  <2>2. SubSeq(b, p, p - 1 + Len(s)) = s
    BY <2>1, AtSub
  <2>3. e - 1 = p - 1 + Len(s)
    BY <1>1, <1>2, <1>4
  <2> QED
    BY <2>2, <2>3
<1>9. TextAt(b, p) = Got(SubSeq(b, p, Min(Z) - 1), Min(Z) + 1)
  BY Zenon DEF TextAt
<1>10. e + 1 = p + Len(Text(s))
  BY <1>1, <1>2, <1>4
<1> QED
  BY <1>7, <1>8, <1>9, <1>10

(* The length -1 stands for no value, any other for as many bytes.         *)
LEMMA AtNull ==
  ASSUME NEW b, NEW p, At(b, p, <<255, 255, 255, 255>>)
  PROVE  ValueAt(b, p) = Got(Null, p + 4)
<1>1. p \in Nat /\ b[p] = 255 /\ b[p + 1] = 255 /\ b[p + 2] = 255 /\ b[p + 3] = 255
  <2>1. p \in Nat /\ b[p - 1 + 1] = 255 /\ b[p - 1 + 2] = 255
        /\ b[p - 1 + 3] = 255 /\ b[p - 1 + 4] = 255
    BY DEF At
  <2> QED
    BY <2>1
<1>2. 255 \in Byte /\ Signed(255, -1)
  BY DEF Byte, Signed
<1>3. Long(b, p) = Got(256 * (256 * (256 * (-1) + 255) + 255) + 255, p + 4)
  BY <1>1, <1>2, Number4 DEF Long
<1>4. Long(b, p).val = -1
  BY <1>3 DEF Got
<1> QED
  BY <1>4, Zenon DEF ValueAt

LEMMA AtValue ==
  ASSUME NEW b, NEW p, NEW v \in Seq(Byte), Len(v) \in Longs,
         At(b, p, Cat(BigEndian(Len(v), 4), v))
  PROVE  ValueAt(b, p) = Got(v, p + 4 + Len(v))
<1>1. PICK n \in Longs : n = Len(v)
  OBVIOUS
<1>2. PICK h \in Seq(Byte) : h = BigEndian(n, 4) /\ Len(h) = 4
  BY BigEndianTyped
<1>3. At(b, p, Cat(h, v))
  BY <1>1, <1>2
<1>4. At(b, p, h) /\ At(b, p + 4, v)
  BY <1>2, <1>3, AtCat
<1>5. Long(b, p) = Got(n, p + 4)
  BY <1>2, <1>4, AtLong
<1>6. Long(b, p).val = n /\ n \in Nat /\ p \in Nat
  BY <1>4, <1>5, SMT DEF Got, Longs, At
<1>7. PICK q \in Nat : q = p + 4
  BY <1>6
<1>8. SubSeq(b, q, q - 1 + Len(v)) = v
  BY <1>4, <1>7, AtSub
<1>9. q - 1 + Len(v) = p + 3 + n /\ n # -1
  BY <1>1, <1>6, <1>7
<1>10. ValueAt(b, p) = Got(SubSeq(b, p + 4, p + 3 + n), p + 4 + n)
  BY <1>6, <1>9 DEF ValueAt
<1> QED
  BY <1>1, <1>7, <1>8, <1>9, <1>10
-----------------------------------------------------------------------------
(* w[i] is what a Chain has read of the streams s, which stand one behind  *)
(* the other, and hold the values vals, when it has read i of them.        *)
Place(p, s, i) == p + Len(FlattenSeq(SubSeq(s, 1, i)))
Reading(p, s, vals) == [i \in 0..Len(s) |-> Got(SubSeq(vals, 1, i), Place(p, s, i))]

LEMMA ReadingSteps ==
  ASSUME NEW b, NEW p, NEW s \in Seq(Seq(Byte)), NEW V, NEW vals \in Seq(V),
         Len(vals) = Len(s), At(b, p, FlattenSeq(s))
  PROVE  /\ Reading(p, s, vals)[0] = Got(<<>>, p)
         /\ Reading(p, s, vals)[Len(s)] = Got(vals, p + Len(FlattenSeq(s)))
         /\ \A i \in 1..Len(s) :
              /\ At(b, Reading(p, s, vals)[i - 1].next, s[i])
              /\ Reading(p, s, vals)[i] =
                   Got(Append(Reading(p, s, vals)[i - 1].val, vals[i]),
                       Reading(p, s, vals)[i - 1].next + Len(s[i]))
<1> DEFINE n == Len(s)
           Left(i) == FlattenSeq(SubSeq(s, i + 1, n))
<1>0. n \in Nat /\ p \in Nat
  BY DEF At
<1>1. Place(p, s, 0) = p
  <2>1. SubSeq(s, 1, 0) = <<>>
    BY SubSeqEmpty
  <2>2. Len(FlattenSeq(SubSeq(s, 1, 0))) = 0
    BY <2>1, FlattenEmpty, EmptySeq
  <2>3. Place(p, s, 0) = p + Len(FlattenSeq(SubSeq(s, 1, 0)))
    BY Zenon DEF Place
  <2> QED
    BY <1>0, <2>2, <2>3
<1>2. SubSeq(vals, 1, 0) = <<>>
  BY SubSeqEmpty
<1>3. SubSeq(s, 1, n) = s /\ SubSeq(vals, 1, n) = vals
  BY SubSeqFull
<1>4. ASSUME NEW i \in Nat, NEW j \in 1..n, j = i + 1
      PROVE  Place(p, s, j) = Place(p, s, i) + Len(s[j]) /\ Place(p, s, i) \in Nat
  <2>1. SubSeq(s, 1, j) = Append(SubSeq(s, 1, i), s[j])
    BY <1>4, PrefixExtended
  <2>2. PICK t \in Seq(Seq(Byte)) : t = SubSeq(s, 1, i)
    BY <1>4, PrefixExtended
  <2>3. PICK e \in Seq(Byte) : e = s[j]
    OBVIOUS
  <2>4. FlattenSeq(Append(t, e)) = Cat(FlattenSeq(t), e)
    BY FlattenAppend
  <2>5. FlattenSeq(t) \in Seq(Byte) /\ Len(FlattenSeq(t)) \in Nat /\ Len(e) \in Nat
    BY FlattenTyped
  <2>6. Len(Cat(FlattenSeq(t), e)) = Len(FlattenSeq(t)) + Len(e)
    BY <2>5, CatTyped
  <2>7. Place(p, s, i) = p + Len(FlattenSeq(t)) /\ Place(p, s, j) = p + Len(Cat(FlattenSeq(t), e))
    BY <2>1, <2>2, <2>3, <2>4, Zenon DEF Place
  <2>8. Len(s[j]) = Len(e)
    BY <2>3
  <2> HIDE DEF Left
  <2> QED
    BY <1>0, <2>5, <2>6, <2>7, <2>8
<1>5. ASSUME NEW i \in Nat, NEW j \in 1..n, j = i + 1, At(b, Place(p, s, i), Left(i))
      PROVE  At(b, Place(p, s, i), s[j]) /\ At(b, Place(p, s, j), Left(j))
  <2>1. PICK r \in Seq(Seq(Byte)) :
          /\ r = SubSeq(s, j, n) /\ r # <<>> /\ r[1] = s[j] /\ Tail(r) = SubSeq(s, j + 1, n)
    BY RestShortened
  <2>2. FlattenSeq(r) = Cat(r[1], FlattenSeq(Tail(r)))
    BY <2>1, FlattenTail
  <2>3. PICK e \in Seq(Byte), u \in Seq(Byte) : e = s[j] /\ u = FlattenSeq(Tail(r)) /\ u = Left(j)
    <3>1. s[j] \in Seq(Byte)
      OBVIOUS
    <3>2. Tail(r) \in Seq(Seq(Byte))
      BY <2>1
    <3>3. FlattenSeq(Tail(r)) \in Seq(Byte)
      BY <3>2, FlattenTyped
    <3> QED
      BY <2>1, <3>1, <3>3
  <2>4. Left(i) = Cat(e, u)
    BY <1>5, <2>1, <2>2, <2>3
  <2>5. At(b, Place(p, s, i), e) /\ At(b, Place(p, s, i) + Len(e), u)
    BY <1>5, <2>4, AtCat
  <2> QED
    BY <1>4, <1>5, <2>3, <2>5
<1> DEFINE Good == {i \in 0..n : At(b, Place(p, s, i), Left(i))}
<1>6. 0 \in Good
  <2>1. SubSeq(s, 0 + 1, n) = SubSeq(s, 1, n)
    OBVIOUS
  <2>2. Left(0) = FlattenSeq(s)
    BY <1>3, <2>1, Zenon
  <2>3. At(b, Place(p, s, 0), Left(0))
    BY <1>1, <2>2
  <2> QED
    BY <1>0, <2>3
<1>7. \A i \in 0..(n - 1) : i \in Good => i + 1 \in Good
  BY <1>5
<1>8. \A i \in 0..n : i \in Good
  <2> HIDE DEF Good
  <2> QED
    BY <1>0, <1>6, <1>7, UpTo
<1> DEFINE w == Reading(p, s, vals)
<1>9. \A i \in 0..n : w[i] = Got(SubSeq(vals, 1, i), Place(p, s, i))
  BY DEF Reading
<1>10. ASSUME NEW j \in 1..n
       PROVE  /\ At(b, w[j - 1].next, s[j])
              /\ w[j] = Got(Append(w[j - 1].val, vals[j]), w[j - 1].next + Len(s[j]))
  <2>1. PICK i \in Nat : i = j - 1 /\ j = i + 1 /\ i \in 0..n /\ j \in 0..n
    BY <1>0
  <2>2. w[i] = Got(SubSeq(vals, 1, i), Place(p, s, i)) /\ w[j] = Got(SubSeq(vals, 1, j), Place(p, s, j))
    BY <1>9, <2>1
  <2>3. w[i].val = SubSeq(vals, 1, i) /\ w[i].next = Place(p, s, i)
    BY <2>2 DEF Got
  <2>4. SubSeq(vals, 1, j) = Append(SubSeq(vals, 1, i), vals[j])
    BY <2>1, PrefixExtended
  <2>5. At(b, Place(p, s, i), s[j])
    BY <1>5, <1>8, <2>1
  <2>6. Place(p, s, j) = Place(p, s, i) + Len(s[j])
    BY <1>4, <2>1
  <2> HIDE DEF w
  <2> QED
    BY <2>1, <2>2, <2>3, <2>4, <2>5, <2>6
<1>11. w[0] = Got(<<>>, p)
  <2>1. 0 \in 0..n
    BY <1>0
  <2>2. w[0] = Got(SubSeq(vals, 1, 0), Place(p, s, 0))
    BY <1>9, <2>1, Zenon
  <2> QED
    BY <1>1, <1>2, <2>2, Zenon
<1>12. w[n] = Got(vals, p + Len(FlattenSeq(s)))
  <2>1. n \in 0..n
    BY <1>0
  <2>2. w[n] = Got(SubSeq(vals, 1, n), Place(p, s, n))
    BY <1>9, <2>1, Zenon
  <2>3. Place(p, s, n) = p + Len(FlattenSeq(s))
    BY <1>3, Zenon DEF Place
  <2> QED
    BY <1>3, <2>2, <2>3, Zenon
<1> QED
  BY <1>10, <1>11, <1>12
-----------------------------------------------------------------------------
(* Chain over numbers of two bytes.                                        *)
ShortsAt(b, p, n) == Chain(p, n, LAMBDA i, q : Short(b, q))
ShortsRead(f, b, p, n) ==
  f = [i \in 0..n |->
        IF i = 0 THEN Got(<<>>, p)
        ELSE CHOOSE r \in UNION {{Got(Append(before.val, v.val), v.next) :
                                    v \in {Short(b, before.next)}} :
                                 before \in {f[i - 1]}} : TRUE]

LEMMA ShortsChosen ==
  ASSUME NEW b, NEW w, NEW v, v = Short(b, w.next)
  PROVE  (CHOOSE r \in UNION {{Got(Append(before.val, x.val), x.next) : x \in {Short(b, before.next)}} :
                               before \in {w}} : TRUE)
           = Got(Append(w.val, v.val), v.next)
<1> DEFINE S == UNION {{Got(Append(before.val, x.val), x.next) : x \in {Short(b, before.next)}} :
                       before \in {w}}
           g == Got(Append(w.val, v.val), v.next)
<1>1. S = {g}
  <2>1. ASSUME NEW before, before = w
        PROVE  {Got(Append(before.val, x.val), x.next) : x \in {Short(b, before.next)}} = {g}
    <3> DEFINE c == Short(b, before.next)
    <3>1. c = v
      BY <2>1
    <3> HIDE DEF c
    <3>2. {Got(Append(before.val, x.val), x.next) : x \in {c}} = {g}
      BY <2>1, <3>1
    <3> QED
      BY <3>2 DEF c
  <2>2. \A r : r \in S <=> r = g
    BY <2>1, Zenon
  <2> QED
    BY <2>2
<1> HIDE DEF S, g
<1>2. (CHOOSE r \in S : TRUE) = g
  BY <1>1
<1> QED
  BY <1>2, Zenon DEF S, g

LEMMA ShortsChain ==
  ASSUME NEW b, NEW p, NEW s \in Seq(Seq(Byte)), NEW V, NEW vals \in Seq(V),
         Len(vals) = Len(s), At(b, p, FlattenSeq(s)),
         \A i \in 1..Len(s) : \A q :
           At(b, q, s[i]) => Short(b, q) = Got(vals[i], q + Len(s[i]))
  PROVE  ShortsAt(b, p, Len(s)) = Got(vals, p + Len(FlattenSeq(s)))
<1> DEFINE n == Len(s)
           w == Reading(p, s, vals)
           f == CHOOSE f : ShortsRead(f, b, p, n)
<1>0. n \in Nat
  OBVIOUS
<1>1. w[0] = Got(<<>>, p) /\ w[n] = Got(vals, p + Len(FlattenSeq(s)))
  BY ReadingSteps
<1>9. \A i \in 1..n : /\ At(b, w[i - 1].next, s[i])
                     /\ w[i] = Got(Append(w[i - 1].val, vals[i]), w[i - 1].next + Len(s[i]))
  BY ReadingSteps
<1>2. ASSUME NEW i \in Nat, NEW j \in 1..n, j = i + 1
      PROVE  \E v : v = Short(b, w[i].next) /\ w[j] = Got(Append(w[i].val, v.val), v.next)
  <2>1. /\ At(b, w[j - 1].next, s[j])
        /\ w[j] = Got(Append(w[j - 1].val, vals[j]), w[j - 1].next + Len(s[j]))
    <3> HIDE DEF w
    <3> QED
      BY <1>9
  <2>2. j - 1 = i
    BY <1>2
  <2> HIDE DEF w
  <2>3. PICK u : u = Short(b, w[i].next)
    OBVIOUS
  <2>4. u = Got(vals[j], w[i].next + Len(s[j]))
    BY <2>1, <2>2, <2>3
  <2> QED
    BY <2>1, <2>2, <2>3, <2>4 DEF Got
<1>3. ShortsRead(w, b, p, n)
  <2>1. w = [i \in 0..n |-> w[i]]
    BY DEF Reading
  <2> HIDE DEF w
  <2>2. ASSUME NEW j \in 0..n
        PROVE  w[j] = IF j = 0 THEN Got(<<>>, p)
                      ELSE CHOOSE r \in UNION {{Got(Append(before.val, v.val), v.next) :
                                                  v \in {Short(b, before.next)}} :
                                               before \in {w[j - 1]}} : TRUE
    <3>1. CASE j = 0
      BY <1>1, <3>1, Zenon
    <3>2. CASE j # 0
      <4>1. PICK i \in Nat : i = j - 1 /\ j = i + 1 /\ j \in 1..n
        BY <1>0, <3>2
      <4>2. PICK u : u = Short(b, w[i].next) /\ w[j] = Got(Append(w[i].val, u.val), u.next)
        BY <1>2, <4>1
      <4>3. w[j] = CHOOSE r \in UNION {{Got(Append(before.val, v.val), v.next) :
                                         v \in {Short(b, before.next)}} :
                                      before \in {w[i]}} : TRUE
        BY <4>2, ShortsChosen
      <4> QED
        BY <3>2, <4>1, <4>3, Zenon
    <3> QED
      BY <3>1, <3>2
  <2> QED
    BY <2>1, <2>2, Zenon DEF ShortsRead
<1>4. ShortsRead(f, b, p, n)
  <2> HIDE DEF w
  <2> QED
    BY <1>3, Zenon
<1>5. ShortsAt(b, p, n) = f[n]
  BY Zenon DEF ShortsAt, Chain, ShortsRead
<1> HIDE DEF f, w
<1> DEFINE Good == {i \in 0..n : f[i] = w[i]}
<1>6. 0 \in Good
  <2>1. 0 \in 0..n
    BY <1>0
  <2>2. f[0] = Got(<<>>, p)
    BY <1>4, <2>1, Zenon DEF ShortsRead
  <2> QED
    BY <1>1, <2>1, <2>2
<1>7. ASSUME NEW i \in 0..(n - 1), i \in Good PROVE i + 1 \in Good
  <2>1. PICK j \in 1..n : j = i + 1 /\ i = j - 1 /\ j # 0 /\ i \in Nat /\ j \in 0..n
    BY <1>0
  <2>2. PICK u : u = Short(b, w[i].next) /\ w[j] = Got(Append(w[i].val, u.val), u.next)
    BY <1>2, <2>1
  <2>3. f[j - 1] = w[i]
    BY <1>7, <2>1
  <2>4. f[j] = CHOOSE r \in UNION {{Got(Append(before.val, v.val), v.next) :
                                     v \in {Short(b, before.next)}} :
                                  before \in {f[j - 1]}} : TRUE
    <3>1. j # 0 /\ j \in 0..n
      BY <2>1
    <3> HIDE DEF Good, n
    <3> QED
      BY <1>4, <3>1, Zenon DEF ShortsRead
  <2>5. f[j] = Got(Append(w[i].val, u.val), u.next)
    BY <2>2, <2>3, <2>4, ShortsChosen
  <2> QED
    BY <2>1, <2>2, <2>5
<1>8. n \in Good
  <2> HIDE DEF Good
  <2>1. \A i \in 0..n : i \in Good
    BY <1>0, <1>6, <1>7, UpTo
  <2> QED
    BY <1>0, <2>1
<1> QED
  BY <1>1, <1>5, <1>8

(* Chain over numbers of four bytes.                                       *)
LongsAt(b, p, n) == Chain(p, n, LAMBDA i, q : Long(b, q))
LongsRead(f, b, p, n) ==
  f = [i \in 0..n |->
        IF i = 0 THEN Got(<<>>, p)
        ELSE CHOOSE r \in UNION {{Got(Append(before.val, v.val), v.next) :
                                    v \in {Long(b, before.next)}} :
                                 before \in {f[i - 1]}} : TRUE]

LEMMA LongsChosen ==
  ASSUME NEW b, NEW w, NEW v, v = Long(b, w.next)
  PROVE  (CHOOSE r \in UNION {{Got(Append(before.val, x.val), x.next) : x \in {Long(b, before.next)}} :
                               before \in {w}} : TRUE)
           = Got(Append(w.val, v.val), v.next)
<1> DEFINE S == UNION {{Got(Append(before.val, x.val), x.next) : x \in {Long(b, before.next)}} :
                       before \in {w}}
           g == Got(Append(w.val, v.val), v.next)
<1>1. S = {g}
  <2>1. ASSUME NEW before, before = w
        PROVE  {Got(Append(before.val, x.val), x.next) : x \in {Long(b, before.next)}} = {g}
    <3> DEFINE c == Long(b, before.next)
    <3>1. c = v
      BY <2>1
    <3> HIDE DEF c
    <3>2. {Got(Append(before.val, x.val), x.next) : x \in {c}} = {g}
      BY <2>1, <3>1
    <3> QED
      BY <3>2 DEF c
  <2>2. \A r : r \in S <=> r = g
    BY <2>1, Zenon
  <2> QED
    BY <2>2
<1> HIDE DEF S, g
<1>2. (CHOOSE r \in S : TRUE) = g
  BY <1>1
<1> QED
  BY <1>2, Zenon DEF S, g

LEMMA LongsChain ==
  ASSUME NEW b, NEW p, NEW s \in Seq(Seq(Byte)), NEW V, NEW vals \in Seq(V),
         Len(vals) = Len(s), At(b, p, FlattenSeq(s)),
         \A i \in 1..Len(s) : \A q :
           At(b, q, s[i]) => Long(b, q) = Got(vals[i], q + Len(s[i]))
  PROVE  LongsAt(b, p, Len(s)) = Got(vals, p + Len(FlattenSeq(s)))
<1> DEFINE n == Len(s)
           w == Reading(p, s, vals)
           f == CHOOSE f : LongsRead(f, b, p, n)
<1>0. n \in Nat
  OBVIOUS
<1>1. w[0] = Got(<<>>, p) /\ w[n] = Got(vals, p + Len(FlattenSeq(s)))
  BY ReadingSteps
<1>9. \A i \in 1..n : /\ At(b, w[i - 1].next, s[i])
                     /\ w[i] = Got(Append(w[i - 1].val, vals[i]), w[i - 1].next + Len(s[i]))
  BY ReadingSteps
<1>2. ASSUME NEW i \in Nat, NEW j \in 1..n, j = i + 1
      PROVE  \E v : v = Long(b, w[i].next) /\ w[j] = Got(Append(w[i].val, v.val), v.next)
  <2>1. /\ At(b, w[j - 1].next, s[j])
        /\ w[j] = Got(Append(w[j - 1].val, vals[j]), w[j - 1].next + Len(s[j]))
    <3> HIDE DEF w
    <3> QED
      BY <1>9
  <2>2. j - 1 = i
    BY <1>2
  <2> HIDE DEF w
  <2>3. PICK u : u = Long(b, w[i].next)
    OBVIOUS
  <2>4. u = Got(vals[j], w[i].next + Len(s[j]))
    BY <2>1, <2>2, <2>3
  <2> QED
    BY <2>1, <2>2, <2>3, <2>4 DEF Got
<1>3. LongsRead(w, b, p, n)
  <2>1. w = [i \in 0..n |-> w[i]]
    BY DEF Reading
  <2> HIDE DEF w
  <2>2. ASSUME NEW j \in 0..n
        PROVE  w[j] = IF j = 0 THEN Got(<<>>, p)
                      ELSE CHOOSE r \in UNION {{Got(Append(before.val, v.val), v.next) :
                                                  v \in {Long(b, before.next)}} :
                                               before \in {w[j - 1]}} : TRUE
    <3>1. CASE j = 0
      BY <1>1, <3>1, Zenon
    <3>2. CASE j # 0
      <4>1. PICK i \in Nat : i = j - 1 /\ j = i + 1 /\ j \in 1..n
        BY <1>0, <3>2
      <4>2. PICK u : u = Long(b, w[i].next) /\ w[j] = Got(Append(w[i].val, u.val), u.next)
        BY <1>2, <4>1
      <4>3. w[j] = CHOOSE r \in UNION {{Got(Append(before.val, v.val), v.next) :
                                         v \in {Long(b, before.next)}} :
                                      before \in {w[i]}} : TRUE
        BY <4>2, LongsChosen
      <4> QED
        BY <3>2, <4>1, <4>3, Zenon
    <3> QED
      BY <3>1, <3>2
  <2> QED
    BY <2>1, <2>2, Zenon DEF LongsRead
<1>4. LongsRead(f, b, p, n)
  <2> HIDE DEF w
  <2> QED
    BY <1>3, Zenon
<1>5. LongsAt(b, p, n) = f[n]
  BY Zenon DEF LongsAt, Chain, LongsRead
<1> HIDE DEF f, w
<1> DEFINE Good == {i \in 0..n : f[i] = w[i]}
<1>6. 0 \in Good
  <2>1. 0 \in 0..n
    BY <1>0
  <2>2. f[0] = Got(<<>>, p)
    BY <1>4, <2>1, Zenon DEF LongsRead
  <2> QED
    BY <1>1, <2>1, <2>2
<1>7. ASSUME NEW i \in 0..(n - 1), i \in Good PROVE i + 1 \in Good
  <2>1. PICK j \in 1..n : j = i + 1 /\ i = j - 1 /\ j # 0 /\ i \in Nat /\ j \in 0..n
    BY <1>0
  <2>2. PICK u : u = Long(b, w[i].next) /\ w[j] = Got(Append(w[i].val, u.val), u.next)
    BY <1>2, <2>1
  <2>3. f[j - 1] = w[i]
    BY <1>7, <2>1
  <2>4. f[j] = CHOOSE r \in UNION {{Got(Append(before.val, v.val), v.next) :
                                     v \in {Long(b, before.next)}} :
                                  before \in {f[j - 1]}} : TRUE
    <3>1. j # 0 /\ j \in 0..n
      BY <2>1
    <3> HIDE DEF Good, n
    <3> QED
      BY <1>4, <3>1, Zenon DEF LongsRead
  <2>5. f[j] = Got(Append(w[i].val, u.val), u.next)
    BY <2>2, <2>3, <2>4, LongsChosen
  <2> QED
    BY <2>1, <2>2, <2>5
<1>8. n \in Good
  <2> HIDE DEF Good
  <2>1. \A i \in 0..n : i \in Good
    BY <1>0, <1>6, <1>7, UpTo
  <2> QED
    BY <1>0, <2>1
<1> QED
  BY <1>1, <1>5, <1>8

(* Chain over values.                                                      *)
ValuesAt(b, p, n) == Chain(p, n, LAMBDA i, q : ValueAt(b, q))
ValuesRead(f, b, p, n) ==
  f = [i \in 0..n |->
        IF i = 0 THEN Got(<<>>, p)
        ELSE CHOOSE r \in UNION {{Got(Append(before.val, v.val), v.next) :
                                    v \in {ValueAt(b, before.next)}} :
                                 before \in {f[i - 1]}} : TRUE]

LEMMA ValuesChosen ==
  ASSUME NEW b, NEW w, NEW v, v = ValueAt(b, w.next)
  PROVE  (CHOOSE r \in UNION {{Got(Append(before.val, x.val), x.next) : x \in {ValueAt(b, before.next)}} :
                               before \in {w}} : TRUE)
           = Got(Append(w.val, v.val), v.next)
<1> DEFINE S == UNION {{Got(Append(before.val, x.val), x.next) : x \in {ValueAt(b, before.next)}} :
                       before \in {w}}
           g == Got(Append(w.val, v.val), v.next)
<1>1. S = {g}
  <2>1. ASSUME NEW before, before = w
        PROVE  {Got(Append(before.val, x.val), x.next) : x \in {ValueAt(b, before.next)}} = {g}
    <3> DEFINE c == ValueAt(b, before.next)
    <3>1. c = v
      BY <2>1
    <3> HIDE DEF c
    <3>2. {Got(Append(before.val, x.val), x.next) : x \in {c}} = {g}
      BY <2>1, <3>1
    <3> QED
      BY <3>2 DEF c
  <2>2. \A r : r \in S <=> r = g
    BY <2>1, Zenon
  <2> QED
    BY <2>2
<1> HIDE DEF S, g
<1>2. (CHOOSE r \in S : TRUE) = g
  BY <1>1
<1> QED
  BY <1>2, Zenon DEF S, g

LEMMA ValuesChain ==
  ASSUME NEW b, NEW p, NEW s \in Seq(Seq(Byte)), NEW V, NEW vals \in Seq(V),
         Len(vals) = Len(s), At(b, p, FlattenSeq(s)),
         \A i \in 1..Len(s) : \A q :
           At(b, q, s[i]) => ValueAt(b, q) = Got(vals[i], q + Len(s[i]))
  PROVE  ValuesAt(b, p, Len(s)) = Got(vals, p + Len(FlattenSeq(s)))
<1> DEFINE n == Len(s)
           w == Reading(p, s, vals)
           f == CHOOSE f : ValuesRead(f, b, p, n)
<1>0. n \in Nat
  OBVIOUS
<1>1. w[0] = Got(<<>>, p) /\ w[n] = Got(vals, p + Len(FlattenSeq(s)))
  BY ReadingSteps
<1>9. \A i \in 1..n : /\ At(b, w[i - 1].next, s[i])
                     /\ w[i] = Got(Append(w[i - 1].val, vals[i]), w[i - 1].next + Len(s[i]))
  BY ReadingSteps
<1>2. ASSUME NEW i \in Nat, NEW j \in 1..n, j = i + 1
      PROVE  \E v : v = ValueAt(b, w[i].next) /\ w[j] = Got(Append(w[i].val, v.val), v.next)
  <2>1. /\ At(b, w[j - 1].next, s[j])
        /\ w[j] = Got(Append(w[j - 1].val, vals[j]), w[j - 1].next + Len(s[j]))
    <3> HIDE DEF w
    <3> QED
      BY <1>9
  <2>2. j - 1 = i
    BY <1>2
  <2> HIDE DEF w
  <2>3. PICK u : u = ValueAt(b, w[i].next)
    OBVIOUS
  <2>4. u = Got(vals[j], w[i].next + Len(s[j]))
    BY <2>1, <2>2, <2>3
  <2> QED
    BY <2>1, <2>2, <2>3, <2>4 DEF Got
<1>3. ValuesRead(w, b, p, n)
  <2>1. w = [i \in 0..n |-> w[i]]
    BY DEF Reading
  <2> HIDE DEF w
  <2>2. ASSUME NEW j \in 0..n
        PROVE  w[j] = IF j = 0 THEN Got(<<>>, p)
                      ELSE CHOOSE r \in UNION {{Got(Append(before.val, v.val), v.next) :
                                                  v \in {ValueAt(b, before.next)}} :
                                               before \in {w[j - 1]}} : TRUE
    <3>1. CASE j = 0
      BY <1>1, <3>1, Zenon
    <3>2. CASE j # 0
      <4>1. PICK i \in Nat : i = j - 1 /\ j = i + 1 /\ j \in 1..n
        BY <1>0, <3>2
      <4>2. PICK u : u = ValueAt(b, w[i].next) /\ w[j] = Got(Append(w[i].val, u.val), u.next)
        BY <1>2, <4>1
      <4>3. w[j] = CHOOSE r \in UNION {{Got(Append(before.val, v.val), v.next) :
                                         v \in {ValueAt(b, before.next)}} :
                                      before \in {w[i]}} : TRUE
        BY <4>2, ValuesChosen
      <4> QED
        BY <3>2, <4>1, <4>3, Zenon
    <3> QED
      BY <3>1, <3>2
  <2> QED
    BY <2>1, <2>2, Zenon DEF ValuesRead
<1>4. ValuesRead(f, b, p, n)
  <2> HIDE DEF w
  <2> QED
    BY <1>3, Zenon
<1>5. ValuesAt(b, p, n) = f[n]
  BY Zenon DEF ValuesAt, Chain, ValuesRead
<1> HIDE DEF f, w
<1> DEFINE Good == {i \in 0..n : f[i] = w[i]}
<1>6. 0 \in Good
  <2>1. 0 \in 0..n
    BY <1>0
  <2>2. f[0] = Got(<<>>, p)
    BY <1>4, <2>1, Zenon DEF ValuesRead
  <2> QED
    BY <1>1, <2>1, <2>2
<1>7. ASSUME NEW i \in 0..(n - 1), i \in Good PROVE i + 1 \in Good
  <2>1. PICK j \in 1..n : j = i + 1 /\ i = j - 1 /\ j # 0 /\ i \in Nat /\ j \in 0..n
    BY <1>0
  <2>2. PICK u : u = ValueAt(b, w[i].next) /\ w[j] = Got(Append(w[i].val, u.val), u.next)
    BY <1>2, <2>1
  <2>3. f[j - 1] = w[i]
    BY <1>7, <2>1
  <2>4. f[j] = CHOOSE r \in UNION {{Got(Append(before.val, v.val), v.next) :
                                     v \in {ValueAt(b, before.next)}} :
                                  before \in {f[j - 1]}} : TRUE
    <3>1. j # 0 /\ j \in 0..n
      BY <2>1
    <3> HIDE DEF Good, n
    <3> QED
      BY <1>4, <3>1, Zenon DEF ValuesRead
  <2>5. f[j] = Got(Append(w[i].val, u.val), u.next)
    BY <2>2, <2>3, <2>4, ValuesChosen
  <2> QED
    BY <2>1, <2>2, <2>5
<1>8. n \in Good
  <2> HIDE DEF Good
  <2>1. \A i \in 0..n : i \in Good
    BY <1>0, <1>6, <1>7, UpTo
  <2> QED
    BY <1>0, <2>1
<1> QED
  BY <1>1, <1>5, <1>8

(* Chain over the parts of a body.                                         *)
PartsAt(b, p, n, kinds) == Chain(p, n, LAMBDA i, q : PartAt(b, q, kinds[i]))
PartsRead(f, b, p, n, kinds) ==
  f = [i \in 0..n |->
        IF i = 0 THEN Got(<<>>, p)
        ELSE CHOOSE r \in UNION {{Got(Append(before.val, v.val), v.next) :
                                    v \in {PartAt(b, before.next, kinds[i])}} :
                                 before \in {f[i - 1]}} : TRUE]

LEMMA PartsChosen ==
  ASSUME NEW b, NEW w, NEW v, NEW kinds, NEW i, v = PartAt(b, w.next, kinds[i])
  PROVE  (CHOOSE r \in UNION {{Got(Append(before.val, x.val), x.next) : x \in {PartAt(b, before.next, kinds[i])}} :
                               before \in {w}} : TRUE)
           = Got(Append(w.val, v.val), v.next)
<1> DEFINE S == UNION {{Got(Append(before.val, x.val), x.next) : x \in {PartAt(b, before.next, kinds[i])}} :
                       before \in {w}}
           g == Got(Append(w.val, v.val), v.next)
<1>1. S = {g}
  <2>1. ASSUME NEW before, before = w
        PROVE  {Got(Append(before.val, x.val), x.next) : x \in {PartAt(b, before.next, kinds[i])}} = {g}
    <3> DEFINE c == PartAt(b, before.next, kinds[i])
    <3>1. c = v
      BY <2>1
    <3> HIDE DEF c
    <3>2. {Got(Append(before.val, x.val), x.next) : x \in {c}} = {g}
      BY <2>1, <3>1
    <3> QED
      BY <3>2 DEF c
  <2>2. \A r : r \in S <=> r = g
    BY <2>1, Zenon
  <2> QED
    BY <2>2
<1> HIDE DEF S, g
<1>2. (CHOOSE r \in S : TRUE) = g
  BY <1>1
<1> QED
  BY <1>2, Zenon DEF S, g

(* Wherever s stands, the reader for its kind returns v.                   *)
Reads(b, s, kind, v) == \A q : At(b, q, s) => PartAt(b, q, kind) = Got(v, q + Len(s))

LEMMA PartsChain ==
  ASSUME NEW b, NEW p, NEW s \in Seq(Seq(Byte)), NEW V, NEW vals \in Seq(V), NEW kinds,
         Len(vals) = Len(s), At(b, p, FlattenSeq(s)),
         \A i \in 1..Len(s) : Reads(b, s[i], kinds[i], vals[i])
  PROVE  PartsAt(b, p, Len(s), kinds) = Got(vals, p + Len(FlattenSeq(s)))
<1> DEFINE n == Len(s)
           w == Reading(p, s, vals)
           f == CHOOSE f : PartsRead(f, b, p, n, kinds)
<1>0. n \in Nat
  OBVIOUS
<1>1. w[0] = Got(<<>>, p) /\ w[n] = Got(vals, p + Len(FlattenSeq(s)))
  BY ReadingSteps
<1>9. \A i \in 1..n : /\ At(b, w[i - 1].next, s[i])
                     /\ w[i] = Got(Append(w[i - 1].val, vals[i]), w[i - 1].next + Len(s[i]))
  BY ReadingSteps
<1>2. ASSUME NEW i \in Nat, NEW j \in 1..n, j = i + 1
      PROVE  \E v : v = PartAt(b, w[i].next, kinds[j]) /\ w[j] = Got(Append(w[i].val, v.val), v.next)
  <2>1. /\ At(b, w[j - 1].next, s[j])
        /\ w[j] = Got(Append(w[j - 1].val, vals[j]), w[j - 1].next + Len(s[j]))
    <3> HIDE DEF w
    <3> QED
      BY <1>9
  <2>2. j - 1 = i
    BY <1>2
  <2> HIDE DEF w
  <2>3. PICK u : u = PartAt(b, w[i].next, kinds[j])
    OBVIOUS
  <2>4. u = Got(vals[j], w[i].next + Len(s[j]))
    <3>1. At(b, w[i].next, s[j])
      BY <2>1, <2>2
    <3>2. Reads(b, s[j], kinds[j], vals[j])
      OBVIOUS
    <3> QED
      BY <2>3, <3>1, <3>2, Zenon DEF Reads
  <2> QED
    BY <2>1, <2>2, <2>3, <2>4 DEF Got
<1>3. PartsRead(w, b, p, n, kinds)
  <2>1. w = [i \in 0..n |-> w[i]]
    BY DEF Reading
  <2> HIDE DEF w
  <2>2. ASSUME NEW j \in 0..n
        PROVE  w[j] = IF j = 0 THEN Got(<<>>, p)
                      ELSE CHOOSE r \in UNION {{Got(Append(before.val, v.val), v.next) :
                                                  v \in {PartAt(b, before.next, kinds[j])}} :
                                               before \in {w[j - 1]}} : TRUE
    <3>1. CASE j = 0
      BY <1>1, <3>1, Zenon
    <3>2. CASE j # 0
      <4>1. PICK i \in Nat : i = j - 1 /\ j = i + 1 /\ j \in 1..n
        BY <1>0, <3>2
      <4>2. PICK u : u = PartAt(b, w[i].next, kinds[j]) /\ w[j] = Got(Append(w[i].val, u.val), u.next)
        BY <1>2, <4>1
      <4>3. w[j] = CHOOSE r \in UNION {{Got(Append(before.val, v.val), v.next) :
                                         v \in {PartAt(b, before.next, kinds[j])}} :
                                      before \in {w[i]}} : TRUE
        BY <4>2, PartsChosen
      <4> QED
        BY <3>2, <4>1, <4>3, Zenon
    <3> QED
      BY <3>1, <3>2
  <2> QED
    BY <2>1, <2>2, Zenon DEF PartsRead
<1>4. PartsRead(f, b, p, n, kinds)
  <2> HIDE DEF w
  <2> QED
    BY <1>3, Zenon
<1>5. PartsAt(b, p, n, kinds) = f[n]
  BY Zenon DEF PartsAt, Chain, PartsRead
<1> HIDE DEF f, w
<1> DEFINE Good == {i \in 0..n : f[i] = w[i]}
<1>6. 0 \in Good
  <2>1. 0 \in 0..n
    BY <1>0
  <2>2. f[0] = Got(<<>>, p)
    BY <1>4, <2>1, Zenon DEF PartsRead
  <2> QED
    BY <1>1, <2>1, <2>2
<1>7. ASSUME NEW i \in 0..(n - 1), i \in Good PROVE i + 1 \in Good
  <2>1. PICK j \in 1..n : j = i + 1 /\ i = j - 1 /\ j # 0 /\ i \in Nat /\ j \in 0..n
    BY <1>0
  <2>2. PICK u : u = PartAt(b, w[i].next, kinds[j]) /\ w[j] = Got(Append(w[i].val, u.val), u.next)
    BY <1>2, <2>1
  <2>3. f[j - 1] = w[i]
    BY <1>7, <2>1
  <2>4. f[j] = CHOOSE r \in UNION {{Got(Append(before.val, v.val), v.next) :
                                     v \in {PartAt(b, before.next, kinds[j])}} :
                                  before \in {f[j - 1]}} : TRUE
    <3>1. j # 0 /\ j \in 0..n
      BY <2>1
    <3> HIDE DEF Good, n
    <3> QED
      BY <1>4, <3>1, Zenon DEF PartsRead
  <2>5. f[j] = Got(Append(w[i].val, u.val), u.next)
    BY <2>2, <2>3, <2>4, PartsChosen
  <2> QED
    BY <2>1, <2>2, <2>5
<1>8. n \in Good
  <2> HIDE DEF Good
  <2>1. \A i \in 0..n : i \in Good
    BY <1>0, <1>6, <1>7, UpTo
  <2> QED
    BY <1>0, <2>1
<1> QED
  BY <1>1, <1>5, <1>8
-----------------------------------------------------------------------------
LEMMA Enumerated ==
  ASSUME NEW S, NEW s, NEW n \in Nat, s = [i \in 1..n |-> s[i]], \A i \in 1..n : s[i] \in S
  PROVE  s \in Seq(S) /\ Len(s) = n
  OBVIOUS

LEMMA ByteCat ==
  ASSUME NEW s \in Seq(Byte), NEW t \in Seq(Byte)
  PROVE  /\ Cat(s, t) \in Seq(Byte) /\ Len(s) \in Nat /\ Len(t) \in Nat
         /\ Len(Cat(s, t)) = Len(s) + Len(t)
<1>1. Cat(s, t) \in Seq(Byte) /\ Len(Cat(s, t)) = Len(s) + Len(t)
  BY CatTyped
<1>2. Len(s) \in Nat /\ Len(t) \in Nat
  OBVIOUS
<1> QED
  BY <1>1, <1>2

(* What PartAt reads of each kind of part.                                 *)
LEMMA PartKinds ==
  ASSUME NEW b, NEW p
  PROVE  /\ PartAt(b, p, "text") = TextAt(b, p)
         /\ PartAt(b, p, "long") = Long(b, p)
         /\ PartAt(b, p, "shorts") = ShortsAt(b, p + 2, Short(b, p).val)
         /\ PartAt(b, p, "longs") = LongsAt(b, p + 2, Short(b, p).val)
         /\ PartAt(b, p, "values") = ValuesAt(b, p + 2, Short(b, p).val)
<1>1. PartAt(b, p, "text") = TextAt(b, p)
  BY Zenon DEF PartAt
<1>2. PartAt(b, p, "long") = Long(b, p)
  BY Zenon DEF PartAt
<1>3. PartAt(b, p, "shorts") = ShortsAt(b, p + 2, Short(b, p).val)
  BY Zenon DEF PartAt, ShortsAt
<1>4. PartAt(b, p, "longs") = LongsAt(b, p + 2, Short(b, p).val)
  BY Zenon DEF PartAt, LongsAt
<1>5. PartAt(b, p, "values") = ValuesAt(b, p + 2, Short(b, p).val)
  BY Zenon DEF PartAt, ValuesAt
<1> QED
  BY <1>1, <1>2, <1>3, <1>4, <1>5, Zenon

(* A list has its length in two bytes in front.                            *)
LEMMA AtList ==
  ASSUME NEW b, NEW p, NEW s \in Seq(Seq(Byte)), Len(s) \in Shorts,
         At(b, p, Cat(BigEndian(Len(s), 2), FlattenSeq(s)))
  PROVE  /\ Short(b, p).val = Len(s) /\ At(b, p + 2, FlattenSeq(s))
         /\ p + Len(Cat(BigEndian(Len(s), 2), FlattenSeq(s))) = (p + 2) + Len(FlattenSeq(s))
<1>1. PICK n \in Shorts : n = Len(s)
  OBVIOUS
<1>2. PICK h \in Seq(Byte) : h = BigEndian(n, 2) /\ Len(h) = 2
  BY BigEndianTyped
<1>0. Len(h) = 2
  BY <1>2
<1>3. PICK t \in Seq(Byte) : t = FlattenSeq(s)
  BY FlattenTyped
<1>4. At(b, p, Cat(h, t))
  BY <1>1, <1>2, <1>3
<1>5. At(b, p, h) /\ At(b, p + 2, t) /\ p \in Nat
  <2>1. At(b, p, h) /\ At(b, p + Len(h), t)
    BY <1>4, AtCat
  <2>2. p \in Nat
    BY <1>4 DEF At
  <2> QED
    BY <1>0, <2>1, <2>2
<1>6. Short(b, p) = Got(n, p + 2)
  BY <1>2, <1>5, AtShort
<1>7. Short(b, p).val = n
  BY <1>6 DEF Got
<1>8. Len(Cat(h, t)) = 2 + Len(t) /\ Len(t) \in Nat
  BY <1>0, ByteCat
<1>9. p + Len(Cat(h, t)) = (p + 2) + Len(t)
  BY <1>5, <1>8
<1> QED
  BY <1>1, <1>2, <1>3, <1>5, <1>7, <1>9

LEMMA PartText ==
  ASSUME NEW b, NEW p, NEW s \in Texts, At(b, p, Text(s))
  PROVE  PartAt(b, p, "text") = Got(s, p + Len(Text(s)))
<1>1. TextAt(b, p) = Got(s, p + Len(Text(s)))
  BY AtText
<1> QED
  BY <1>1, PartKinds, Zenon

LEMMA PartLong ==
  ASSUME NEW b, NEW p, NEW n \in Longs, At(b, p, BigEndian(n, 4))
  PROVE  PartAt(b, p, "long") = Got(n, p + Len(BigEndian(n, 4)))
<1>1. Len(BigEndian(n, 4)) = 4
  BY BigEndianTyped
<1>2. Long(b, p) = Got(n, p + 4)
  BY AtLong
<1> QED
  BY <1>1, <1>2, PartKinds, Zenon

LEMMA ShortsItems ==
  ASSUME NEW s, NEW ns \in Seq(Shorts),
         s = [i \in DOMAIN ns |-> BigEndian(ns[i], 2)]
  PROVE  s \in Seq(Seq(Byte)) /\ Len(s) = Len(ns) /\ \A i \in 1..Len(s) : s[i] = BigEndian(ns[i], 2)
<1>1. \A i \in 1..Len(ns) : BigEndian(ns[i], 2) \in Seq(Byte)
  BY BigEndianTyped
<1>2. DOMAIN ns = 1..Len(ns) /\ Len(ns) \in Nat
  OBVIOUS
<1>3. DOMAIN s = 1..Len(ns) /\ \A i \in 1..Len(ns) : s[i] = BigEndian(ns[i], 2)
  BY <1>2
<1>4. s = [i \in 1..Len(ns) |-> s[i]]
  BY <1>2
<1> QED
  BY <1>1, <1>2, <1>3, <1>4, Enumerated

LEMMA PartShorts ==
  ASSUME NEW b, NEW p, NEW s, NEW ns \in Seq(Shorts), Len(ns) \in Shorts,
         s = [i \in DOMAIN ns |-> BigEndian(ns[i], 2)],
         At(b, p, Cat(BigEndian(Len(s), 2), FlattenSeq(s)))
  PROVE  PartAt(b, p, "shorts") = Got(ns, p + Len(Cat(BigEndian(Len(s), 2), FlattenSeq(s))))
<1>1. s \in Seq(Seq(Byte)) /\ Len(s) = Len(ns) /\ \A i \in 1..Len(s) : s[i] = BigEndian(ns[i], 2)
  BY ShortsItems
<1>2. PICK q : q = p + 2
  OBVIOUS
<1>3. /\ Short(b, p).val = Len(s) /\ At(b, q, FlattenSeq(s))
      /\ p + Len(Cat(BigEndian(Len(s), 2), FlattenSeq(s))) = q + Len(FlattenSeq(s))
  BY <1>1, <1>2, AtList
<1>4. ASSUME NEW i \in 1..Len(s), NEW r, At(b, r, s[i])
      PROVE  Short(b, r) = Got(ns[i], r + Len(s[i]))
  <2>1. PICK n \in Shorts : n = ns[i] /\ s[i] = BigEndian(n, 2)
    BY <1>1
  <2>2. At(b, r, BigEndian(n, 2)) /\ Len(s[i]) = 2
    BY <1>4, <2>1, BigEndianTyped
  <2> QED
    BY <2>1, <2>2, AtShort
<1>5. ShortsAt(b, q, Len(s)) = Got(ns, q + Len(FlattenSeq(s)))
  <2>1. \A i \in 1..Len(s) : \A r :
          At(b, r, s[i]) => Short(b, r) = Got(ns[i], r + Len(s[i]))
    BY <1>4, Zenon
  <2>2. s \in Seq(Seq(Byte)) /\ Len(ns) = Len(s)
    BY <1>1
  <2> QED
    BY <1>3, <2>1, <2>2, ShortsChain, Zenon
<1> QED
  BY <1>1, <1>2, <1>3, <1>5, PartKinds

LEMMA LongsItems ==
  ASSUME NEW s, NEW ns \in Seq(Longs),
         s = [i \in DOMAIN ns |-> BigEndian(ns[i], 4)]
  PROVE  s \in Seq(Seq(Byte)) /\ Len(s) = Len(ns) /\ \A i \in 1..Len(s) : s[i] = BigEndian(ns[i], 4)
<1>1. \A i \in 1..Len(ns) : BigEndian(ns[i], 4) \in Seq(Byte)
  BY BigEndianTyped
<1>2. DOMAIN ns = 1..Len(ns) /\ Len(ns) \in Nat
  OBVIOUS
<1>3. DOMAIN s = 1..Len(ns) /\ \A i \in 1..Len(ns) : s[i] = BigEndian(ns[i], 4)
  BY <1>2
<1>4. s = [i \in 1..Len(ns) |-> s[i]]
  BY <1>2
<1> QED
  BY <1>1, <1>2, <1>3, <1>4, Enumerated

LEMMA PartLongs ==
  ASSUME NEW b, NEW p, NEW s, NEW ns \in Seq(Longs), Len(ns) \in Shorts,
         s = [i \in DOMAIN ns |-> BigEndian(ns[i], 4)],
         At(b, p, Cat(BigEndian(Len(s), 2), FlattenSeq(s)))
  PROVE  PartAt(b, p, "longs") = Got(ns, p + Len(Cat(BigEndian(Len(s), 2), FlattenSeq(s))))
<1>1. s \in Seq(Seq(Byte)) /\ Len(s) = Len(ns) /\ \A i \in 1..Len(s) : s[i] = BigEndian(ns[i], 4)
  BY LongsItems
<1>2. PICK q : q = p + 2
  OBVIOUS
<1>3. /\ Short(b, p).val = Len(s) /\ At(b, q, FlattenSeq(s))
      /\ p + Len(Cat(BigEndian(Len(s), 2), FlattenSeq(s))) = q + Len(FlattenSeq(s))
  BY <1>1, <1>2, AtList
<1>4. ASSUME NEW i \in 1..Len(s), NEW r, At(b, r, s[i])
      PROVE  Long(b, r) = Got(ns[i], r + Len(s[i]))
  <2>1. PICK n \in Longs : n = ns[i] /\ s[i] = BigEndian(n, 4)
    BY <1>1
  <2>2. At(b, r, BigEndian(n, 4)) /\ Len(s[i]) = 4
    BY <1>4, <2>1, BigEndianTyped
  <2> QED
    BY <2>1, <2>2, AtLong
<1>5. LongsAt(b, q, Len(s)) = Got(ns, q + Len(FlattenSeq(s)))
  <2>1. \A i \in 1..Len(s) : \A r :
          At(b, r, s[i]) => Long(b, r) = Got(ns[i], r + Len(s[i]))
    BY <1>4, Zenon
  <2>2. s \in Seq(Seq(Byte)) /\ Len(ns) = Len(s)
    BY <1>1
  <2> QED
    BY <1>3, <2>1, <2>2, LongsChain, Zenon
<1> QED
  BY <1>1, <1>2, <1>3, <1>5, PartKinds

(* What a client writes for a value.                                       *)
ValueOf(v) == IF v = Null THEN <<255, 255, 255, 255>> ELSE Cat(BigEndian(Len(v), 4), v)
Valued(v) == v = Null \/ (v # Null /\ v \in Seq(Byte) /\ Len(v) \in Longs)

LEMMA ValueRead ==
  ASSUME NEW v, Valued(v)
  PROVE  /\ ValueOf(v) \in Seq(Byte)
         /\ \A b, p : At(b, p, ValueOf(v)) => ValueAt(b, p) = Got(v, p + Len(ValueOf(v)))
<1>1. CASE v = Null
  <2>1. ValueOf(v) = <<255, 255, 255, 255>>
    BY <1>1 DEF ValueOf
  <2>2. PICK w : w = <<255, 255, 255, 255>>
    OBVIOUS
  <2>3. w \in Seq(Byte) /\ Len(w) = 4
    <3>1. 255 \in Byte
      BY DEF Byte
    <3> QED
      BY <2>2, <3>1
  <2>4. ASSUME NEW b, NEW p, At(b, p, w) PROVE ValueAt(b, p) = Got(v, p + Len(w))
    <3>1. ValueAt(b, p) = Got(Null, p + 4)
      BY <2>2, <2>4, AtNull
    <3> QED
      BY <1>1, <2>3, <3>1
  <2> QED
    BY <2>1, <2>2, <2>3, <2>4, Zenon
<1>2. CASE v # Null
  <2>1. v \in Seq(Byte) /\ Len(v) \in Longs
    BY <1>2 DEF Valued
  <2>2. PICK h \in Seq(Byte) : h = BigEndian(Len(v), 4)
    BY <2>1, BigEndianTyped
  <2>0. Len(h) = 4
    BY <2>1, <2>2, BigEndianTyped
  <2>3. ValueOf(v) = Cat(h, v)
    BY <1>2, <2>2 DEF ValueOf
  <2>4. Cat(h, v) \in Seq(Byte) /\ Len(Cat(h, v)) = 4 + Len(v) /\ Len(v) \in Nat
    BY <2>0, <2>1, ByteCat
  <2>5. ASSUME NEW b, NEW p, At(b, p, Cat(h, v)) PROVE ValueAt(b, p) = Got(v, p + Len(Cat(h, v)))
    <3>1. ValueAt(b, p) = Got(v, p + 4 + Len(v))
      BY <2>1, <2>2, <2>5, AtValue
    <3>2. p \in Nat
      BY <2>5 DEF At
    <3>3. p + 4 + Len(v) = p + Len(Cat(h, v))
      BY <2>4, <3>2
    <3> QED
      BY <3>1, <3>3
  <2> QED
    BY <2>3, <2>4, <2>5, Zenon
<1> QED
  BY <1>1, <1>2

LEMMA ValuesItems ==
  ASSUME NEW s, NEW V, NEW vs \in Seq(V),
         \A i \in 1..Len(vs) : Valued(vs[i]),
         s = [i \in DOMAIN vs |-> ValueOf(vs[i])]
  PROVE  s \in Seq(Seq(Byte)) /\ Len(s) = Len(vs) /\ \A i \in 1..Len(s) : s[i] = ValueOf(vs[i])
<1>1. \A i \in 1..Len(vs) : ValueOf(vs[i]) \in Seq(Byte)
  BY ValueRead
<1>2. DOMAIN vs = 1..Len(vs) /\ Len(vs) \in Nat
  OBVIOUS
<1>3. DOMAIN s = 1..Len(vs) /\ \A i \in 1..Len(vs) : s[i] = ValueOf(vs[i])
  BY <1>2
<1>4. s = [i \in 1..Len(vs) |-> s[i]]
  BY <1>2
<1> QED
  BY <1>1, <1>2, <1>3, <1>4, Enumerated

LEMMA PartValues ==
  ASSUME NEW b, NEW p, NEW s, NEW V, NEW vs \in Seq(V), Len(vs) \in Shorts,
         \A i \in 1..Len(vs) : Valued(vs[i]),
         s = [i \in DOMAIN vs |-> ValueOf(vs[i])],
         At(b, p, Cat(BigEndian(Len(s), 2), FlattenSeq(s)))
  PROVE  PartAt(b, p, "values") = Got(vs, p + Len(Cat(BigEndian(Len(s), 2), FlattenSeq(s))))
<1>1. s \in Seq(Seq(Byte)) /\ Len(s) = Len(vs) /\ \A i \in 1..Len(s) : s[i] = ValueOf(vs[i])
  BY ValuesItems
<1>2. PICK q : q = p + 2
  OBVIOUS
<1>3. /\ Short(b, p).val = Len(s) /\ At(b, q, FlattenSeq(s))
      /\ p + Len(Cat(BigEndian(Len(s), 2), FlattenSeq(s))) = q + Len(FlattenSeq(s))
  BY <1>1, <1>2, AtList
<1>4. ASSUME NEW i \in 1..Len(s), NEW r, At(b, r, s[i])
      PROVE  ValueAt(b, r) = Got(vs[i], r + Len(s[i]))
  <2>1. PICK v : v = vs[i] /\ Valued(v) /\ s[i] = ValueOf(v)
    BY <1>1
  <2>2. At(b, r, ValueOf(v))
    BY <1>4, <2>1
  <2>3. ValueAt(b, r) = Got(v, r + Len(ValueOf(v)))
    BY <2>1, <2>2, ValueRead
  <2> QED
    BY <2>1, <2>3
<1>5. ValuesAt(b, q, Len(s)) = Got(vs, q + Len(FlattenSeq(s)))
  <2>1. \A i \in 1..Len(s) : \A r :
          At(b, r, s[i]) => ValueAt(b, r) = Got(vs[i], r + Len(s[i]))
    BY <1>4, Zenon
  <2>2. s \in Seq(Seq(Byte)) /\ Len(vs) = Len(s)
    BY <1>1
  <2> QED
    BY <1>3, <2>1, <2>2, ValuesChain, Zenon
<1> QED
  BY <1>1, <1>2, <1>3, <1>5, PartKinds

LEMMA AppendIs ==
  ASSUME NEW S, NEW s, NEW e, NEW t, NEW n, NEW m, s \in Seq(S), e \in S, t \in Seq(S),
         n \in Nat, m = n + 1, Len(s) = n, Len(t) = m, Same(s, t, n), t[m] = e
  PROVE  Append(s, e) = t
  BY DEF Same

LEMMA Tuple2 ==
  ASSUME NEW S, NEW a, NEW b,
         a \in S, b \in S
  PROVE  Append(<<a>>, b) = <<a, b>>
<1>1. <<a>> \in Seq(S) /\ Len(<<a>>) = 1
  OBVIOUS
<1>2. <<a, b>> \in Seq(S) /\ Len(<<a, b>>) = 2 /\ <<a, b>>[2] = b
  OBVIOUS
<1>3. Same(<<a>>, <<a, b>>, 1)
  BY DEF Same
<1>4. 1 \in Nat /\ 2 = 1 + 1
  OBVIOUS
<1> QED
  BY <1>1, <1>2, <1>3, <1>4, AppendIs, Zenon

LEMMA Tuple3 ==
  ASSUME NEW S, NEW a, NEW b, NEW c,
         a \in S, b \in S, c \in S
  PROVE  Append(<<a, b>>, c) = <<a, b, c>>
<1>1. <<a, b>> \in Seq(S) /\ Len(<<a, b>>) = 2
  OBVIOUS
<1>2. <<a, b, c>> \in Seq(S) /\ Len(<<a, b, c>>) = 3 /\ <<a, b, c>>[3] = c
  OBVIOUS
<1>3. Same(<<a, b>>, <<a, b, c>>, 2)
  BY DEF Same
<1>4. 2 \in Nat /\ 3 = 2 + 1
  OBVIOUS
<1> QED
  BY <1>1, <1>2, <1>3, <1>4, AppendIs, Zenon

LEMMA Tuple4 ==
  ASSUME NEW S, NEW a, NEW b, NEW c, NEW d,
         a \in S, b \in S, c \in S, d \in S
  PROVE  Append(<<a, b, c>>, d) = <<a, b, c, d>>
<1>1. <<a, b, c>> \in Seq(S) /\ Len(<<a, b, c>>) = 3
  OBVIOUS
<1>2. <<a, b, c, d>> \in Seq(S) /\ Len(<<a, b, c, d>>) = 4 /\ <<a, b, c, d>>[4] = d
  OBVIOUS
<1>3. Same(<<a, b, c>>, <<a, b, c, d>>, 3)
  BY DEF Same
<1>4. 3 \in Nat /\ 4 = 3 + 1
  OBVIOUS
<1> QED
  BY <1>1, <1>2, <1>3, <1>4, AppendIs, Zenon

LEMMA Tuple5 ==
  ASSUME NEW S, NEW a, NEW b, NEW c, NEW d, NEW e,
         a \in S, b \in S, c \in S, d \in S, e \in S
  PROVE  Append(<<a, b, c, d>>, e) = <<a, b, c, d, e>>
<1>1. <<a, b, c, d>> \in Seq(S) /\ Len(<<a, b, c, d>>) = 4
  OBVIOUS
<1>2. <<a, b, c, d, e>> \in Seq(S) /\ Len(<<a, b, c, d, e>>) = 5 /\ <<a, b, c, d, e>>[5] = e
  OBVIOUS
<1>3. Same(<<a, b, c, d>>, <<a, b, c, d, e>>, 4)
  BY DEF Same
<1>4. 4 \in Nat /\ 5 = 4 + 1
  OBVIOUS
<1> QED
  BY <1>1, <1>2, <1>3, <1>4, AppendIs, Zenon

LEMMA FlattenTwo ==
  ASSUME NEW a \in Seq(Byte), NEW b \in Seq(Byte)
  PROVE  FlattenSeq(<<a, b>>) = Cat(a, b)
<1>1. FlattenSeq(Append(<<>>, a)) = Cat(FlattenSeq(<<>>), a)
  <2>1. <<>> \in Seq(Seq(Byte))
    BY EmptySeq
  <2> QED
    BY <2>1, FlattenAppend
<1>2. FlattenSeq(<<a>>) = a
  <2>1. Append(<<>>, a) = <<a>>
    OBVIOUS
  <2>2. Cat(<<>>, a) = a
    BY CatEmpty
  <2> QED
    BY <1>1, <2>1, <2>2, FlattenEmpty, Zenon
<1>3. FlattenSeq(Append(<<a>>, b)) = Cat(FlattenSeq(<<a>>), b)
  <2>1. <<a>> \in Seq(Seq(Byte))
    OBVIOUS
  <2> QED
    BY <2>1, FlattenAppend
<1>4. Append(<<a>>, b) = <<a, b>>
  BY Tuple2
<1> QED
  BY <1>2, <1>3, <1>4, Zenon

LEMMA FlattenThree ==
  ASSUME NEW a \in Seq(Byte), NEW b \in Seq(Byte), NEW c \in Seq(Byte)
  PROVE  FlattenSeq(<<a, b, c>>) = Cat(Cat(a, b), c)
<1>1. FlattenSeq(Append(<<a, b>>, c)) = Cat(FlattenSeq(<<a, b>>), c)
  <2>1. <<a, b>> \in Seq(Seq(Byte))
    OBVIOUS
  <2> QED
    BY <2>1, FlattenAppend
<1>2. Append(<<a, b>>, c) = <<a, b, c>>
  BY Tuple3
<1> QED
  BY <1>1, <1>2, FlattenTwo, Zenon

LEMMA FlattenFive ==
  ASSUME NEW a \in Seq(Byte), NEW b \in Seq(Byte), NEW c \in Seq(Byte),
         NEW d \in Seq(Byte), NEW e \in Seq(Byte)
  PROVE  FlattenSeq(<<a, b, c, d, e>>) = Cat(Cat(Cat(Cat(a, b), c), d), e)
<1>1. FlattenSeq(Append(<<a, b, c>>, d)) = Cat(FlattenSeq(<<a, b, c>>), d)
  <2>1. <<a, b, c>> \in Seq(Seq(Byte))
    OBVIOUS
  <2> QED
    BY <2>1, FlattenAppend
<1>2. Append(<<a, b, c>>, d) = <<a, b, c, d>>
  BY Tuple4
<1>3. FlattenSeq(Append(<<a, b, c, d>>, e)) = Cat(FlattenSeq(<<a, b, c, d>>), e)
  <2>1. <<a, b, c, d>> \in Seq(Seq(Byte))
    OBVIOUS
  <2> QED
    BY <2>1, FlattenAppend
<1>4. Append(<<a, b, c, d>>, e) = <<a, b, c, d, e>>
  BY Tuple5
<1>5. FlattenSeq(<<a, b, c>>) = Cat(Cat(a, b), c)
  BY FlattenThree
<1>6. FlattenSeq(<<a, b, c, d>>) = Cat(Cat(Cat(a, b), c), d)
  BY <1>1, <1>2, <1>5, Zenon
<1>7. FlattenSeq(<<a, b, c, d, e>>) = Cat(FlattenSeq(<<a, b, c, d>>), e)
  BY <1>3, <1>4, Zenon
<1> QED
  BY <1>6, <1>7, Zenon

(* A body that is made of parts is read back part by part.                 *)
LEMMA PartsOf ==
  ASSUME NEW b, NEW s \in Seq(Seq(Byte)), NEW V, NEW vals \in Seq(V), NEW kinds,
         Len(vals) = Len(s), Len(kinds) = Len(s), b = FlattenSeq(s),
         \A i \in 1..Len(s) : Reads(b, s[i], kinds[i], vals[i])
  PROVE  Parts(b, kinds) = vals
<1>1. At(b, 1, FlattenSeq(s))
  BY FlattenTyped, AtWhole
<1>3. PartsAt(b, 1, Len(s), kinds) = Got(vals, 1 + Len(FlattenSeq(s)))
  BY <1>1, PartsChain
<1>4. Parts(b, kinds) = PartsAt(b, 1, Len(kinds), kinds).val
  BY Zenon DEF Parts, PartsAt
<1> QED
  BY <1>3, <1>4 DEF Got
-----------------------------------------------------------------------------
(* The stream w has arrived of the stream t.                               *)
Prefix(w, t) ==
  /\ w \in Seq(Byte) /\ t \in Seq(Byte) /\ Len(w) <= Len(t)
  /\ \A i \in 1..Len(w) : w[i] = t[i]

LEMMA CatIndex ==
  ASSUME NEW s \in Seq(Byte), NEW t \in Seq(Byte)
  PROVE  /\ \A i \in 1..Len(s) : Cat(s, t)[i] = s[i]
         /\ \A i \in 1..Len(t) : Cat(s, t)[Len(s) + i] = t[i]
  BY DEF Cat

LEMMA PrefixHead ==
  ASSUME NEW w, NEW s \in Seq(Byte), NEW t \in Seq(Byte), Prefix(w, Cat(s, t)), Len(s) <= Len(w)
  PROVE  At(w, 1, s)
<1>1. /\ w \in Seq(Byte) /\ Len(w) \in Nat /\ Len(s) \in Nat
      /\ \A i \in 1..Len(w) : w[i] = Cat(s, t)[i]
  BY DEF Prefix
<1>2. \A i \in 1..Len(s) : Cat(s, t)[i] = s[i]
  BY CatIndex
<1>3. \A i \in 1..Len(s) : w[1 - 1 + i] = s[i]
  BY <1>1, <1>2
<1> QED
  BY <1>1, <1>3 DEF At

(* u is as much shorter than w as s is long.                               *)
Divides(s, u, w) == \E n \in Nat : n = Len(u) /\ Len(w) = Len(s) + n

LEMMA PrefixTail ==
  ASSUME NEW w, NEW u, NEW s \in Seq(Byte), NEW t \in Seq(Byte), Prefix(w, Cat(s, t)),
         Len(s) <= Len(w), u = SubSeq(w, Len(s) + 1, Len(w))
  PROVE  Prefix(u, t) /\ Divides(s, u, w)
<1>1. /\ w \in Seq(Byte) /\ Len(w) \in Nat /\ Len(s) \in Nat /\ Len(t) \in Nat
      /\ Len(w) <= Len(s) + Len(t) /\ Len(Cat(s, t)) = Len(s) + Len(t)
      /\ \A i \in 1..Len(w) : w[i] = Cat(s, t)[i]
  BY ByteCat DEF Prefix
<1>2. \A i \in 1..Len(t) : Cat(s, t)[Len(s) + i] = t[i]
  BY CatIndex
<1> DEFINE n == Len(w) - Len(s)
<1>3. n \in Nat /\ n <= Len(t)
  BY <1>1
<1>4. u \in Seq(Byte) /\ Len(u) = n /\ \A i \in 1..n : u[i] = w[Len(s) + i]
  BY <1>1
<1>5. ASSUME NEW i \in 1..n PROVE u[i] = t[i]
  <2>1. PICK j \in 1..Len(w) : j = Len(s) + i /\ i \in 1..Len(t)
    BY <1>1, <1>3
  <2> QED
    BY <1>1, <1>2, <1>4, <2>1
<1>6. Prefix(u, t)
  BY <1>3, <1>4, <1>5 DEF Prefix
<1>7. n = Len(u) /\ Len(w) = Len(s) + n
  BY <1>1, <1>3, <1>4
<1> HIDE DEF n
<1> QED
  BY <1>3, <1>6, <1>7 DEF Divides

(* w is t, or the beginning of t where the stream was cut off.             *)
Stream(w, t, cut) == Prefix(w, t) /\ (cut # TRUE => Len(w) = Len(t))

LEMMA StreamTail ==
  ASSUME NEW w, NEW u, NEW cut, NEW s \in Seq(Byte), NEW t \in Seq(Byte),
         Stream(w, Cat(s, t), cut), Len(s) <= Len(w), u = SubSeq(w, Len(s) + 1, Len(w))
  PROVE  Stream(u, t, cut)
<1>1. Prefix(w, Cat(s, t))
  BY DEF Stream
<1>2. Prefix(u, t)
  BY <1>1, PrefixTail
<1>3. CASE cut = TRUE
  BY <1>2, <1>3 DEF Stream
<1>4. CASE cut # TRUE
  <2>1. Len(w) = Len(Cat(s, t))
    BY <1>4 DEF Stream
  <2>2. Len(w) = Len(s) + Len(t) /\ Len(s) \in Nat /\ Len(t) \in Nat
    BY <2>1, ByteCat, Zenon
  <2>3. Divides(s, u, w)
    BY <1>1, PrefixTail
  <2>4. Len(u) = Len(t)
    BY <2>2, <2>3 DEF Divides
  <2> QED
    BY <1>2, <2>3, <2>4 DEF Stream
<1> QED
  BY <1>3, <1>4

(* A frame: a type, its length, and a body.                                *)
Frame(t, body) == Cat(Cat(<<t>>, BigEndian(Len(body) + 4, 4)), body)

LEMMA FrameParts ==
  ASSUME NEW t \in Byte, NEW body \in Seq(Byte), Len(body) + 4 \in Longs
  PROVE  \E h \in Seq(Byte), l \in Seq(Byte) :
           /\ h = <<t>> /\ Len(h) = 1 /\ h[1] = t
           /\ l = BigEndian(Len(body) + 4, 4) /\ Len(l) = 4
           /\ Cat(h, l) \in Seq(Byte) /\ Len(Cat(h, l)) = 5
           /\ Frame(t, body) = Cat(Cat(h, l), body)
           /\ Frame(t, body) \in Seq(Byte) /\ Len(Frame(t, body)) = 5 + Len(body)
<1>1. PICK h : h = <<t>>
  OBVIOUS
<1>2. h \in Seq(Byte) /\ Len(h) = 1 /\ h[1] = t
  BY <1>1
<1>3. PICK l \in Seq(Byte) : l = BigEndian(Len(body) + 4, 4)
  BY BigEndianTyped
<1>4. Len(l) = 4
  BY <1>3, BigEndianTyped
<1>5. Cat(h, l) \in Seq(Byte) /\ Len(Cat(h, l)) = 5
  <2>1. h \in Seq(Byte)
    BY <1>2
  <2>2. Cat(h, l) \in Seq(Byte) /\ Len(Cat(h, l)) = Len(h) + Len(l)
    BY <2>1, ByteCat
  <2> QED
    BY <1>2, <1>4, <2>2
<1>6. Frame(t, body) = Cat(Cat(h, l), body)
  BY <1>1, <1>3, Zenon DEF Frame
<1>7. Frame(t, body) \in Seq(Byte) /\ Len(Frame(t, body)) = 5 + Len(body)
  <2>1. PICK g \in Seq(Byte) : g = Cat(h, l) /\ Len(g) = 5
    BY <1>5
  <2>2. Len(g) = 5
    BY <2>1
  <2>3. Cat(g, body) \in Seq(Byte) /\ Len(Cat(g, body)) = 5 + Len(body)
    BY <2>2, ByteCat
  <2> QED
    BY <1>6, <2>1, <2>3
<1> QED
  BY <1>1, <1>2, <1>3, <1>4, <1>5, <1>6, <1>7

(* ReadMessage reads a frame that stands in a stream.                      *)
LEMMA FrameAt ==
  ASSUME NEW in, NEW p, NEW t \in Byte, NEW body \in Seq(Byte), Len(body) + 4 \in Longs,
         At(in, p, Frame(t, body))
  PROVE  ReadMessage(in, p) = [type |-> t, body |-> body, next |-> p + Len(Frame(t, body))]
<1>1. PICK h \in Seq(Byte), l \in Seq(Byte) :
           /\ h = <<t>> /\ Len(h) = 1 /\ h[1] = t
           /\ l = BigEndian(Len(body) + 4, 4) /\ Len(l) = 4
           /\ Cat(h, l) \in Seq(Byte) /\ Len(Cat(h, l)) = 5
           /\ Frame(t, body) = Cat(Cat(h, l), body)
           /\ Frame(t, body) \in Seq(Byte) /\ Len(Frame(t, body)) = 5 + Len(body)
  BY FrameParts
<1>2. At(in, p, Cat(Cat(h, l), body))
  BY <1>1
<1>3. PICK g \in Seq(Byte) : g = Cat(h, l)
  BY <1>1
<1>4. Len(g) = 5 /\ Len(h) = 1 /\ h[1] = t
  BY <1>1, <1>3
<1>5. At(in, p, g) /\ At(in, p + Len(g), body)
  BY <1>2, <1>3, AtCat
<1>6. At(in, p, h) /\ At(in, p + Len(h), l)
  BY <1>3, <1>5, AtCat
<1>7. p \in Nat /\ p >= 1 /\ in \in Seq(Byte) /\ Len(in) \in Nat /\ Len(body) \in Nat
      /\ p + 5 + Len(body) <= Len(in) + 1 /\ in[p] = t
  <2>1. p \in Nat /\ p >= 1 /\ in \in Seq(Byte) /\ in[p - 1 + 1] = t
    BY <1>4, <1>6 DEF At
  <2>2. p + Len(g) + Len(body) <= Len(in) + 1
    BY <1>5 DEF At
  <2> QED
    BY <1>4, <2>1, <2>2
<1>8. PICK q, r, n : q = p + 1 /\ r = p + 5 /\ n = Len(body) + 4
  OBVIOUS
<1>13. n \in Nat
  BY <1>7, <1>8
<1>9. Long(in, q).val = n
  <2>1. At(in, q, BigEndian(n, 4)) /\ n \in Longs
    BY <1>1, <1>4, <1>6, <1>8
  <2> QED
    BY <2>1, AtLong DEF Got
<1>10. SubSeq(in, r, p + n) = body
  <2>1. At(in, r, body)
    BY <1>4, <1>5, <1>8
  <2>2. SubSeq(in, r, r - 1 + Len(body)) = body
    BY <2>1, AtSub
  <2>3. r - 1 + Len(body) = p + n
    BY <1>7, <1>8
  <2> QED
    BY <2>2, <2>3
<1>11. p + 4 <= Len(in) /\ n >= 4 /\ p + n <= Len(in) /\ p + 1 + n = p + Len(Frame(t, body))
  <2>1. PICK f : f = Len(Frame(t, body)) /\ f = 5 + Len(body)
    BY <1>1
  <2>2. p + 4 <= Len(in) /\ n >= 4 /\ p + n <= Len(in) /\ p + 1 + n = p + f
    BY <1>7, <1>8, <2>1
  <2> QED
    BY <2>1, <2>2
<1>12. ReadMessage(in, p) = [type |-> in[p], body |-> SubSeq(in, p + 5, p + n), next |-> p + 1 + n]
  <2>1. Long(in, p + 1).val = n
    BY <1>8, <1>9
  <2>2. n = IF p + 4 <= Len(in) THEN Long(in, p + 1).val ELSE 0
    BY <1>11, <2>1, Zenon
  <2>3. ~(n < 4) /\ ~(p + n > Len(in))
    BY <1>7, <1>11, <1>13
  <2> QED
    BY <2>2, <2>3, Zenon DEF ReadMessage
<1> QED
  BY <1>7, <1>8, <1>10, <1>11, <1>12

(* What has arrived of a stream that begins with a frame: the type, and,   *)
(* when a message can be read, all of the frame.                           *)
LEMMA FrameRead ==
  ASSUME NEW w, NEW t \in Byte, NEW body \in Seq(Byte), NEW rest \in Seq(Byte),
         Len(body) + 4 \in Longs, Prefix(w, Cat(Frame(t, body), rest))
  PROVE  /\ w # <<>> => w[1] = t
         /\ ReadMessage(w, 1).next # 0 =>
              /\ Len(Frame(t, body)) <= Len(w)
              /\ ReadMessage(w, 1) = [type |-> t, body |-> body, next |-> 1 + Len(Frame(t, body))]
<1>1. PICK h \in Seq(Byte), l \in Seq(Byte) :
           /\ h = <<t>> /\ Len(h) = 1 /\ h[1] = t
           /\ l = BigEndian(Len(body) + 4, 4) /\ Len(l) = 4
           /\ Cat(h, l) \in Seq(Byte) /\ Len(Cat(h, l)) = 5
           /\ Frame(t, body) = Cat(Cat(h, l), body)
           /\ Frame(t, body) \in Seq(Byte) /\ Len(Frame(t, body)) = 5 + Len(body)
  BY FrameParts
<1>2. PICK g \in Seq(Byte) : g = Cat(h, l)
  BY <1>1
<1>3. Len(g) = 5 /\ Len(h) = 1 /\ h[1] = t
  BY <1>1, <1>2
<1>4. PICK z \in Seq(Byte) : z = Cat(body, rest)
  BY ByteCat
<1>5. Cat(Frame(t, body), rest) = Cat(g, z)
  <2>1. Cat(Cat(g, body), rest) = Cat(g, Cat(body, rest))
    BY CatAssociative
  <2> QED
    BY <1>1, <1>2, <1>4, <2>1
<1>6. Prefix(w, Cat(g, z)) /\ w \in Seq(Byte) /\ Len(w) \in Nat /\ Len(body) \in Nat
  BY <1>5 DEF Prefix
<1>7. ASSUME w # <<>> PROVE w[1] = t
  <2>1. PICK y \in Seq(Byte) : y = Cat(l, z)
    BY ByteCat
  <2>2. Cat(g, z) = Cat(h, y)
    BY <1>2, <2>1, CatAssociative
  <2>3. Prefix(w, Cat(h, y)) /\ Len(h) <= Len(w)
    BY <1>3, <1>6, <1>7, <2>2
  <2>4. At(w, 1, h)
    BY <2>3, PrefixHead
  <2> QED
    BY <1>3, <2>4 DEF At
<1>8. ASSUME ReadMessage(w, 1).next # 0
      PROVE  /\ Len(Frame(t, body)) <= Len(w)
             /\ ReadMessage(w, 1) = [type |-> t, body |-> body, next |-> 1 + Len(Frame(t, body))]
  <2>1. PICK n : n = IF 1 + 4 <= Len(w) THEN Long(w, 1 + 1).val ELSE 0
    OBVIOUS
  <2>2. ~(n < 4 \/ 1 + n > Len(w))
    BY <1>8, <2>1 DEF ReadMessage, NoFrame
  <2>3. 5 <= Len(w)
    BY <1>6, <2>1, <2>2
  <2>4. At(w, 1, g)
    BY <1>3, <1>6, <2>3, PrefixHead
  <2>5. At(w, 2, l)
    <3>1. At(w, 1 + Len(h), l)
      BY <1>2, <2>4, AtCat
    <3> QED
      BY <1>3, <3>1
  <2>6. Long(w, 2).val = Len(body) + 4
    <3>1. At(w, 2, BigEndian(Len(body) + 4, 4))
      BY <1>1, <2>5
    <3> QED
      BY <3>1, AtLong DEF Got
  <2>7. n = Len(body) + 4
    BY <1>6, <2>1, <2>3, <2>6
  <2>8. Len(Frame(t, body)) <= Len(w)
    BY <1>1, <1>6, <2>2, <2>7
  <2>9. At(w, 1, Frame(t, body))
    BY <1>1, <2>8, PrefixHead
  <2> QED
    BY <2>8, <2>9, FrameAt
<1> QED
  BY <1>7, <1>8

(* A message that is read ends behind its start.                           *)
LEMMA NextBeyond ==
  ASSUME NEW in \in Seq(Byte), NEW p \in Nat, p >= 1
  PROVE  \/ ReadMessage(in, p).next = 0
         \/ ReadMessage(in, p).next \in (p + 1)..(Len(in) + 1)
<1>1. CASE p + 4 <= Len(in)
  <2>1. PICK r \in Byte, s \in Byte, t \in Byte, u \in Byte :
          in[p + 1] = r /\ in[p + 1 + 1] = s /\ in[p + 1 + 2] = t /\ in[p + 1 + 3] = u
    <3>1. /\ in[p + 1] \in Byte /\ in[p + 1 + 1] \in Byte
          /\ in[p + 1 + 2] \in Byte /\ in[p + 1 + 3] \in Byte
      BY <1>1
    <3> QED
      BY <3>1, Zenon
  <2>2. PICK h \in Int : Signed(r, h)
    BY DEF Byte, Signed
  <2>3. PICK q \in Nat : q = p + 1
    OBVIOUS
  <2>4. in[q] = r /\ in[q + 1] = s /\ in[q + 2] = t /\ in[q + 3] = u
    BY <2>1, <2>3
  <2>5. Number(in, q, 4) = Got(256 * (256 * (256 * h + s) + t) + u, q + 4)
    BY <2>2, <2>4, Number4
  <2>6. PICK n \in Int : n = Number(in, q, 4).val
    <3>1. 256 * (256 * (256 * h + s) + t) + u \in Int
      BY DEF Byte
    <3> QED
      BY <2>5, <3>1 DEF Got
  <2>7. ReadMessage(in, p) = IF n < 4 \/ p + n > Len(in) THEN NoFrame
          ELSE [type |-> in[p], body |-> SubSeq(in, p + 5, p + n), next |-> p + 1 + n]
    BY <1>1, <2>3, <2>6 DEF ReadMessage, Long
  <2> QED
    BY <2>7 DEF NoFrame
<1>2. CASE ~ (p + 4 <= Len(in))
  <2>1. ReadMessage(in, p) = NoFrame
    BY <1>2 DEF ReadMessage
  <2> QED
    BY <2>1 DEF NoFrame
<1> QED
  BY <1>1, <1>2

(* What Frames finds from position p on, f being that of later positions.  *)
Found(in, p, f) ==
  LET m == ReadMessage(in, p)
  IN  IF m.next = 0 THEN <<>> ELSE Cat(<<[type |-> m.type, body |-> m.body]>>, f[m.next])
Scanned(in, f, k) == f = [p \in k..(Len(in) + 1) |-> Found(in, p, f)]

LEMMA FoundSame ==
  ASSUME NEW in \in Seq(Byte), NEW p \in Nat, NEW f, NEW g, p >= 1,
         \A q \in (p + 1)..(Len(in) + 1) : f[q] = g[q]
  PROVE  Found(in, p, f) = Found(in, p, g)
<1>1. CASE ReadMessage(in, p).next = 0
  BY <1>1 DEF Found
<1>2. CASE ReadMessage(in, p).next # 0
  <2>1. ReadMessage(in, p).next \in (p + 1)..(Len(in) + 1)
    BY <1>2, NextBeyond
  <2>2. f[ReadMessage(in, p).next] = g[ReadMessage(in, p).next]
    BY <2>1
  <2> QED
    BY <1>2, <2>2, Zenon DEF Found
<1> QED
  BY <1>1, <1>2

LEMMA ScannedExtended ==
  ASSUME NEW in \in Seq(Byte), NEW j \in Nat, NEW k \in Nat, NEW f,
         j >= 1, k = j + 1, k <= Len(in) + 1, Scanned(in, f, k)
  PROVE  \E g : Scanned(in, g, j)
<1> DEFINE v == Found(in, j, f)
           g == [p \in j..(Len(in) + 1) |-> IF p = j THEN v ELSE f[p]]
<1>0. \A q \in k..(Len(in) + 1) : g[q] = f[q]
  OBVIOUS
<1>1. ASSUME NEW p \in j..(Len(in) + 1) PROVE g[p] = Found(in, p, g)
  <2>1. p \in Nat /\ p >= 1 /\ \A q \in (p + 1)..(Len(in) + 1) : f[q] = g[q]
    BY <1>0
  <2>2. Found(in, p, f) = Found(in, p, g)
    <3> HIDE DEF g
    <3> QED
      BY <2>1, FoundSame
  <2>3. CASE p = j
    <3>1. g[p] = Found(in, p, f)
      BY <2>3
    <3> QED
      BY <2>2, <3>1, Zenon
  <2>4. CASE p # j
    <3>1. p \in k..(Len(in) + 1)
      BY <2>4
    <3>2. f[p] = Found(in, p, f)
      BY <3>1, Zenon DEF Scanned
    <3> QED
      BY <1>0, <2>2, <3>1, <3>2, Zenon
  <2> QED
    BY <2>3, <2>4
<1>2. g = [p \in j..(Len(in) + 1) |-> g[p]]
  OBVIOUS
<1> HIDE DEF g
<1>3. Scanned(in, g, j)
  BY <1>1, <1>2, Zenon DEF Scanned
<1> QED
  BY <1>3

LEMMA ScannedExists ==
  ASSUME NEW in \in Seq(Byte)
  PROVE  \E f : Scanned(in, f, 1)
<1>1. PICK m \in Nat : m = Len(in)
  OBVIOUS
<1> DEFINE Good == {n \in 0..m : \E f : Scanned(in, f, m + 1 - n)}
<1>2. 0 \in Good
  <2> DEFINE v == Found(in, m + 1, <<>>)
             f == [p \in (m + 1)..(m + 1) |-> v]
  <2>1. f[m + 1] = v
    OBVIOUS
  <2>2. v = Found(in, m + 1, f)
    <3> HIDE DEF f
    <3>1. \A q \in ((m + 1) + 1)..(Len(in) + 1) : <<>>[q] = f[q]
      BY <1>1
    <3>2. m + 1 \in Nat /\ m + 1 >= 1
      OBVIOUS
    <3> QED
      BY <3>1, <3>2, FoundSame
  <2>3. f = [p \in (m + 1)..(m + 1) |-> f[p]] /\ \A p \in (m + 1)..(m + 1) : p = m + 1
    OBVIOUS
  <2> HIDE DEF f
  <2>4. \A p \in (m + 1)..(m + 1) : f[p] = Found(in, p, f)
    BY <2>1, <2>2, <2>3, Zenon
  <2>5. Scanned(in, f, m + 1)
    BY <1>1, <2>3, <2>4, Zenon DEF Scanned
  <2>6. m + 1 - 0 = m + 1 /\ 0 \in 0..m
    OBVIOUS
  <2> QED
    BY <2>5, <2>6
<1>3. ASSUME NEW n \in 0..(m - 1), n \in Good PROVE n + 1 \in Good
  <2>1. PICK k \in Nat : k = m + 1 - n /\ k <= Len(in) + 1
    <3>1. m + 1 - n \in Nat /\ m + 1 - n <= m + 1
      OBVIOUS
    <3> QED
      BY <1>1, <3>1, Zenon
  <2>2. PICK j \in Nat : j = m + 1 - (n + 1) /\ j >= 1 /\ k = j + 1
    BY <1>1, <2>1
  <2>3. PICK f : Scanned(in, f, k)
    BY <1>3, <2>1
  <2>4. \E g : Scanned(in, g, j)
    BY <2>1, <2>2, <2>3, ScannedExtended
  <2> QED
    BY <2>2, <2>4
<1>4. \A n \in 0..m : n \in Good
  <2> HIDE DEF Good
  <2> QED
    BY <1>2, <1>3, UpTo
<1>5. PICK f : Scanned(in, f, m + 1 - m)
  BY <1>4
<1>6. m + 1 - m = 1
  OBVIOUS
<1> QED
  BY <1>5, <1>6

LEMMA FramesIs ==
  ASSUME NEW in \in Seq(Byte)
  PROVE  \E f : Scanned(in, f, 1) /\ Frames(in) = f[1]
<1> DEFINE f == CHOOSE f : Scanned(in, f, 1)
<1>1. Scanned(in, f, 1)
  BY ScannedExists, Zenon
<1>2. Frames(in) = f[1]
  BY Zenon DEF Frames, Scanned, Found, Cat
<1> QED
  BY <1>1, <1>2

(* Messages of a size that their length can express, and their bytes.      *)
Messages == {m \in [type : Byte, body : Seq(Byte)] : Len(m.body) + 4 \in Longs}
Framed(m) == Frame(m.type, m.body)
Bytes(ms) == FlattenSeq([i \in DOMAIN ms |-> Framed(ms[i])])

LEMMA FramedTyped ==
  ASSUME NEW m \in Messages
  PROVE  /\ m.type \in Byte /\ m.body \in Seq(Byte) /\ Len(m.body) + 4 \in Longs
         /\ m = [type |-> m.type, body |-> m.body]
         /\ Framed(m) \in Seq(Byte) /\ Len(Framed(m)) = 5 + Len(m.body)
<1>1. /\ m.type \in Byte /\ m.body \in Seq(Byte) /\ Len(m.body) + 4 \in Longs
      /\ m = [type |-> m.type, body |-> m.body]
  BY DEF Messages
<1>2. Framed(m) \in Seq(Byte) /\ Len(Framed(m)) = 5 + Len(m.body)
  BY <1>1, FrameParts DEF Framed
<1> QED
  BY <1>1, <1>2

LEMMA BytesSeq ==
  ASSUME NEW ms \in Seq(Messages)
  PROVE  \E t \in Seq(Seq(Byte)) :
           /\ t = [i \in DOMAIN ms |-> Framed(ms[i])] /\ Bytes(ms) = FlattenSeq(t)
           /\ Len(t) = Len(ms) /\ \A i \in 1..Len(ms) : t[i] = Framed(ms[i])
<1>1. PICK t : t = [i \in DOMAIN ms |-> Framed(ms[i])]
  OBVIOUS
<1>2. DOMAIN ms = 1..Len(ms) /\ Len(ms) \in Nat /\ \A i \in 1..Len(ms) : ms[i] \in Messages
  OBVIOUS
<1>3. t = [i \in 1..Len(ms) |-> t[i]] /\ \A i \in 1..Len(ms) : t[i] = Framed(ms[i])
  BY <1>1, <1>2
<1>4. \A i \in 1..Len(ms) : t[i] \in Seq(Byte)
  BY <1>2, <1>3, FramedTyped
<1>5. t \in Seq(Seq(Byte)) /\ Len(t) = Len(ms)
  BY <1>2, <1>3, <1>4, Enumerated
<1> QED
  BY <1>1, <1>3, <1>5 DEF Bytes

LEMMA BytesTyped ==
  ASSUME NEW ms \in Seq(Messages)
  PROVE  Bytes(ms) \in Seq(Byte)
  BY BytesSeq, FlattenTyped

LEMMA BytesEmpty == Bytes(<<>>) = <<>>
<1>1. [i \in DOMAIN <<>> |-> Framed(<<>>[i])] = <<>>
  OBVIOUS
<1> QED
  BY <1>1, FlattenEmpty, Zenon DEF Bytes

LEMMA BytesAppend ==
  ASSUME NEW ms \in Seq(Messages), NEW m \in Messages
  PROVE  Append(ms, m) \in Seq(Messages) /\ Bytes(Append(ms, m)) = Cat(Bytes(ms), Framed(m))
<1>1. PICK t \in Seq(Seq(Byte)) :
           /\ t = [i \in DOMAIN ms |-> Framed(ms[i])] /\ Bytes(ms) = FlattenSeq(t)
           /\ Len(t) = Len(ms) /\ \A i \in 1..Len(ms) : t[i] = Framed(ms[i])
  BY BytesSeq
<1>2. PICK ns \in Seq(Messages) : ns = Append(ms, m)
  <2>1. Append(ms, m) \in Seq(Messages)
    BY AppendProperties
  <2> QED
    BY <2>1, Zenon
<1>3. PICK u \in Seq(Seq(Byte)) :
           /\ Bytes(ns) = FlattenSeq(u)
           /\ Len(u) = Len(ns) /\ \A i \in 1..Len(ns) : u[i] = Framed(ns[i])
  BY BytesSeq
<1>4. PICK n \in Nat : n = Len(ms)
  OBVIOUS
<1>5. Len(ns) = n + 1 /\ ns[n + 1] = m /\ \A i \in 1..n : ns[i] = ms[i]
  BY <1>2, <1>4
<1>6. PICK e \in Seq(Byte) : e = Framed(m)
  BY FramedTyped
<1>7. PICK k \in Nat : k = n + 1
  OBVIOUS
<1>8. Same(t, u, n)
  <2>1. \A i \in 1..n : i \in 1..Len(ns) /\ i \in 1..Len(ms)
    BY <1>4, <1>5
  <2>2. \A i \in 1..n : t[i] = u[i]
    BY <1>1, <1>3, <1>5, <2>1, Zenon
  <2> QED
    BY <2>2 DEF Same
<1>9. u[k] = e
  <2>1. k \in 1..Len(ns) /\ ns[k] = m
    BY <1>5, <1>7
  <2> QED
    BY <1>3, <1>6, <2>1, Zenon
<1>10. Append(t, e) = u
  <2>1. Len(t) = n /\ Len(u) = k
    BY <1>1, <1>3, <1>4, <1>5, <1>7
  <2> QED
    BY <1>7, <1>8, <1>9, <2>1, AppendIs
<1>11. FlattenSeq(Append(t, e)) = Cat(FlattenSeq(t), e)
  BY FlattenAppend
<1> QED
  BY <1>1, <1>2, <1>3, <1>6, <1>10, <1>11, Zenon

LEMMA BytesHead ==
  ASSUME NEW ms \in Seq(Messages), ms # <<>>
  PROVE  /\ ms[1] \in Messages /\ Tail(ms) \in Seq(Messages)
         /\ Bytes(ms) = Cat(Framed(ms[1]), Bytes(Tail(ms)))
<1>1. PICK t \in Seq(Seq(Byte)) :
           /\ Bytes(ms) = FlattenSeq(t)
           /\ Len(t) = Len(ms) /\ \A i \in 1..Len(ms) : t[i] = Framed(ms[i])
  BY BytesSeq
<1>2. PICK ns \in Seq(Messages) : ns = Tail(ms)
  <2>1. Tail(ms) \in Seq(Messages)
    BY HeadTailProperties
  <2> QED
    BY <2>1, Zenon
<1>3. PICK u \in Seq(Seq(Byte)) :
           /\ Bytes(ns) = FlattenSeq(u)
           /\ Len(u) = Len(ns) /\ \A i \in 1..Len(ns) : u[i] = Framed(ns[i])
  BY BytesSeq
<1>4. PICK n \in Nat : n = Len(ns)
  OBVIOUS
<1>5. Len(ms) = n + 1 /\ (\A i \in 1..n : ns[i] = ms[i + 1]) /\ ms[1] \in Messages
  BY <1>2, <1>4
<1>6. t # <<>> /\ Tail(t) \in Seq(Seq(Byte)) /\ Len(Tail(t)) = n
      /\ \A i \in 1..n : Tail(t)[i] = t[i + 1]
  BY <1>1, <1>5
<1>7. \A i \in 1..n : Tail(t)[i] = u[i]
  <2>1. \A i \in 1..n : i + 1 \in 1..Len(ms) /\ i \in 1..Len(ns)
    BY <1>4, <1>5
  <2>2. \A i \in 1..n : t[i + 1] = Framed(ns[i]) /\ u[i] = Framed(ns[i])
    BY <1>1, <1>3, <1>5, <2>1, Zenon
  <2> QED
    BY <1>6, <2>2, Zenon
<1>8. Tail(t) = u
  <2>1. Len(u) = n
    BY <1>3, <1>4
  <2> QED
    BY <1>6, <1>7, <2>1, SeqEqual
<1>9. t[1] = Framed(ms[1])
  BY <1>1, <1>5
<1>10. FlattenSeq(t) = Cat(t[1], FlattenSeq(Tail(t)))
  BY <1>6, FlattenTail
<1> QED
  BY <1>1, <1>2, <1>3, <1>5, <1>8, <1>9, <1>10, Zenon

(* The messages ms stand in the stream from position p to its end.         *)
Ends(in, p, ms) == At(in, p, Bytes(ms)) /\ p + Len(Bytes(ms)) = Len(in) + 1

LEMMA EndsEmpty ==
  ASSUME NEW in, NEW p, NEW f, Ends(in, p, <<>>), Scanned(in, f, 1)
  PROVE  f[p] = <<>>
<1>1. in \in Seq(Byte) /\ p \in Nat /\ p >= 1
  BY DEF Ends, At
<1>2. p = Len(in) + 1
  <2>1. Len(Bytes(<<>>)) = 0
    BY BytesEmpty
  <2> QED
    BY <1>1, <2>1 DEF Ends
<1>3. f[p] = Found(in, p, f)
  <2>1. p \in 1..(Len(in) + 1)
    BY <1>1, <1>2
  <2> QED
    BY <2>1, Zenon DEF Scanned
<1>4. ReadMessage(in, p).next = 0
  BY <1>1, <1>2, NextBeyond
<1> QED
  BY <1>3, <1>4 DEF Found

HeadOf(in, p, f, ms) == \E q : Ends(in, q, Tail(ms)) /\ f[p] = Cat(<<ms[1]>>, f[q])

LEMMA EndsHead ==
  ASSUME NEW in, NEW p, NEW f, NEW ms \in Seq(Messages), ms # <<>>,
         Ends(in, p, ms), Scanned(in, f, 1)
  PROVE  HeadOf(in, p, f, ms)
<1>1. in \in Seq(Byte) /\ p \in Nat /\ p >= 1 /\ p <= Len(in) + 1
  BY BytesTyped DEF Ends, At
<1>2. PICK m \in Messages, ns \in Seq(Messages) : m = ms[1] /\ ns = Tail(ms)
  BY BytesHead
<1>3. Bytes(ms) = Cat(Framed(m), Bytes(ns))
  BY <1>2, BytesHead
<1>4. PICK h \in Seq(Byte), b \in Seq(Byte) : h = Framed(m) /\ b = Bytes(ns)
  BY FramedTyped, BytesTyped
<1>5. At(in, p, Cat(h, b)) /\ p + Len(Cat(h, b)) = Len(in) + 1
  BY <1>3, <1>4 DEF Ends
<1>6. At(in, p, h) /\ At(in, p + Len(h), b)
  BY <1>5, AtCat
<1>7. ReadMessage(in, p) = [type |-> m.type, body |-> m.body, next |-> p + Len(h)]
  <2>1. PICK t \in Byte, body \in Seq(Byte) :
          t = m.type /\ body = m.body /\ Len(body) + 4 \in Longs /\ h = Frame(t, body)
    BY <1>4, FramedTyped DEF Framed
  <2>2. At(in, p, Frame(t, body)) /\ h = Frame(t, body) /\ t = m.type /\ body = m.body
    BY <1>6, <2>1
  <2>3. ReadMessage(in, p) = [type |-> t, body |-> body, next |-> p + Len(Frame(t, body))]
    BY <2>1, <2>2, FrameAt
  <2> QED
    BY <2>2, <2>3, Zenon
<1>8. PICK q \in Nat : q = p + Len(h) /\ q # 0
  BY <1>1
<1>9. Ends(in, q, ns)
  <2>1. Len(Cat(h, b)) = Len(h) + Len(b) /\ Len(h) \in Nat /\ Len(b) \in Nat
    BY ByteCat
  <2>2. q + Len(b) = Len(in) + 1
    BY <1>1, <1>5, <1>8, <2>1
  <2> QED
    BY <1>4, <1>6, <1>8, <2>2 DEF Ends
<1>10. f[p] = Found(in, p, f)
  <2>1. p \in 1..(Len(in) + 1)
    BY <1>1
  <2> QED
    BY <2>1, Zenon DEF Scanned
<1>11. Found(in, p, f) = Cat(<<m>>, f[q])
  <2>1. ReadMessage(in, p).type = m.type /\ ReadMessage(in, p).body = m.body
        /\ ReadMessage(in, p).next = q
    BY <1>7, <1>8
  <2>2. m = [type |-> m.type, body |-> m.body]
    BY FramedTyped
  <2> QED
    BY <1>8, <2>1, <2>2, Zenon DEF Found
<1> QED
  BY <1>2, <1>9, <1>10, <1>11, Zenon DEF HeadOf

(* A client that reads the bytes of messages finds these messages.         *)
LEMMA FramesRead ==
  ASSUME NEW ms \in Seq(Messages)
  PROVE  Frames(Bytes(ms)) = ms
<1>1. PICK in \in Seq(Byte) : in = Bytes(ms)
  BY BytesTyped
<1>2. PICK f : Scanned(in, f, 1) /\ Frames(in) = f[1]
  BY FramesIs
<1>3. PICK n \in Nat : n = Len(ms)
  OBVIOUS
<1> DEFINE Good == {k \in 0..n : \A ns \in Seq(Messages), p \in Nat :
                                   Len(ns) = k /\ Ends(in, p, ns) => f[p] = ns}
<1>4. 0 \in Good
  <2>1. ASSUME NEW ns \in Seq(Messages), NEW p \in Nat, Len(ns) = 0, Ends(in, p, ns)
        PROVE  f[p] = ns
    <3>1. ns = <<>>
      BY <2>1
    <3>2. Ends(in, p, <<>>)
      BY <2>1, <3>1
    <3>3. f[p] = <<>>
      BY <1>2, <3>2, EndsEmpty
    <3> QED
      BY <3>1, <3>3
  <2> QED
    BY <1>3, <2>1
<1>5. ASSUME NEW k \in 0..(n - 1), k \in Good PROVE k + 1 \in Good
  <2>1. ASSUME NEW ns \in Seq(Messages), NEW p \in Nat, Len(ns) = k + 1, Ends(in, p, ns)
        PROVE  f[p] = ns
    <3>1. ns # <<>> /\ Tail(ns) \in Seq(Messages) /\ Len(Tail(ns)) = k
      BY <1>3, <2>1
    <3>2. PICK q : Ends(in, q, Tail(ns)) /\ f[p] = Cat(<<ns[1]>>, f[q])
      <4>1. ns # <<>> /\ Ends(in, p, ns) /\ Scanned(in, f, 1)
        BY <1>2, <2>1, <3>1
      <4>2. HeadOf(in, p, f, ns)
        BY <4>1, EndsHead
      <4> QED
        BY <4>2, Zenon DEF HeadOf
    <3>3. q \in Nat
      BY <3>2 DEF Ends, At
    <3>4. f[q] = Tail(ns)
      BY <1>5, <3>1, <3>2, <3>3
    <3>5. ns = Cat(<<ns[1]>>, Tail(ns))
      BY <3>1 DEF Cat
    <3> QED
      BY <3>2, <3>4, <3>5
  <2> QED
    BY <1>3, <2>1
<1>6. \A k \in 0..n : k \in Good
  <2> HIDE DEF Good
  <2> QED
    BY <1>3, <1>4, <1>5, UpTo
<1>7. Ends(in, 1, ms)
  BY <1>1, AtWhole DEF Ends
<1>8. f[1] = ms
  BY <1>3, <1>6, <1>7
<1> QED
  BY <1>1, <1>2, <1>8

-----------------------------------------------------------------------------
(* Splitting.  The parts after i bytes follow from those after i - 1.      *)
PartsAfter(b, before, i) ==
  IF b[i] = 0 THEN Append(before, <<>>)
  ELSE [before EXCEPT ![Len(before)] = Append(@, b[i])]
Splits(b, n, f) ==
  f = [i \in 0..n |-> IF i = 0 THEN <<<<>>>> ELSE PartsAfter(b, f[i - 1], i)]

LEMMA SplitsExtended ==
  ASSUME NEW b, NEW f, NEW n \in Nat, Splits(b, n, f)
  PROVE  \E g : Splits(b, n + 1, g)
<1> DEFINE v == PartsAfter(b, f[n], n + 1)
           g == [i \in 0..(n + 1) |-> IF i = n + 1 THEN v ELSE f[i]]
<1>1. ASSUME NEW i \in 0..(n + 1)
      PROVE  g[i] = IF i = 0 THEN <<<<>>>> ELSE PartsAfter(b, g[i - 1], i)
  <2>1. CASE i = n + 1
    <3>1. i # 0 /\ g[i] = v /\ g[i - 1] = f[n]
      BY <2>1
    <3>2. v = PartsAfter(b, f[n], i)
      BY <2>1
    <3> HIDE DEF g, v
    <3> QED
      BY <3>1, <3>2
  <2>2. CASE i # n + 1
    <3>1. i \in 0..n /\ g[i] = f[i] /\ (i # 0 => g[i - 1] = f[i - 1])
      BY <2>2
    <3>2. f[i] = IF i = 0 THEN <<<<>>>> ELSE PartsAfter(b, f[i - 1], i)
      BY <3>1, Zenon DEF Splits
    <3> HIDE DEF g, v
    <3> QED
      BY <3>1, <3>2
  <2> QED
    BY <2>1, <2>2
<1>2. g = [i \in 0..(n + 1) |-> g[i]]
  OBVIOUS
<1> HIDE DEF g
<1>3. Splits(b, n + 1, g)
  BY <1>1, <1>2, Zenon DEF Splits
<1> QED
  BY <1>3

LEMMA SplitsExist ==
  ASSUME NEW b, NEW m \in Nat
  PROVE  \E f : Splits(b, m, f)
<1> DEFINE Good == {n \in 0..m : \E f : Splits(b, n, f)}
<1>1. 0 \in Good
  <2>1. PICK f : f = [i \in 0..0 |-> <<<<>>>>]
    OBVIOUS
  <2>2. \A i \in 0..0 : f[i] = IF i = 0 THEN <<<<>>>> ELSE PartsAfter(b, f[i - 1], i)
    BY <2>1
  <2>3. f = [i \in 0..0 |-> f[i]]
    BY <2>1
  <2>4. Splits(b, 0, f)
    BY <2>2, <2>3, Zenon DEF Splits
  <2> QED
    BY <2>4
<1>2. \A n \in 0..(m - 1) : n \in Good => n + 1 \in Good
  BY SplitsExtended
<1>3. \A n \in 0..m : n \in Good
  <2> HIDE DEF Good
  <2> QED
    BY <1>1, <1>2, UpTo
<1> QED
  BY <1>3

LEMMA SplitIs ==
  ASSUME NEW b, Len(b) \in Nat
  PROVE  \E f : Splits(b, Len(b), f) /\ Split(b) = f[Len(b)]
<1> DEFINE f == CHOOSE f : Splits(b, Len(b), f)
<1>1. Splits(b, Len(b), f)
  BY SplitsExist
<1>2. Split(b) = f[Len(b)]
  BY Zenon DEF Split, Splits, PartsAfter
<1> QED
  BY <1>1, <1>2

(* What has been appended last can be replaced.                            *)
LEMMA LastReplaced ==
  ASSUME NEW S, NEW s \in Seq(S), NEW e \in S, NEW v \in S
  PROVE  /\ Append(s, e)[Len(Append(s, e))] = e
         /\ [Append(s, e) EXCEPT ![Len(Append(s, e))] = v] = Append(s, v)
<1>1. PICK t : t = Append(s, e)
  OBVIOUS
<1>2. PICK n \in Nat : n = Len(s) + 1
  BY LenProperties
<1>3. t \in Seq(S) /\ Len(t) = n /\ t[n] = e /\ \A j \in 1..Len(s) : t[j] = s[j]
  BY <1>1, <1>2, AppendProperties
<1>4. PICK g : g = Append(s, v)
  OBVIOUS
<1>5. g \in Seq(S) /\ Len(g) = n /\ g[n] = v /\ \A j \in 1..Len(s) : g[j] = s[j]
  BY <1>2, <1>4, AppendProperties
<1>6. n \in 1..Len(t)
  BY <1>2, <1>3
<1>7. PICK h : h = [t EXCEPT ![n] = v]
  OBVIOUS
<1>8. h \in Seq(S) /\ Len(h) = n /\ \A j \in 1..n : h[j] = IF j = n THEN v ELSE t[j]
  BY <1>3, <1>6, <1>7, ExceptSeq
<1>9. \A j \in 1..n : h[j] = g[j]
  BY <1>2, <1>3, <1>5, <1>8
<1>10. h = g
  BY <1>5, <1>8, <1>9, SeqEqual
<1>11. t[Len(t)] = e
  BY <1>3
<1>12. [t EXCEPT ![Len(t)] = v] = g
  BY <1>3, <1>7, <1>10
<1> QED
  BY <1>1, <1>4, <1>11, <1>12, Zenon

LEMMA SplitsLetter ==
  ASSUME NEW b, NEW i, NEW ps \in Seq(Texts), NEW u \in Texts, b[i] \in Letters
  PROVE  PartsAfter(b, Append(ps, u), i) = Append(ps, Append(u, b[i]))
<1>1. PICK v \in Texts : v = Append(u, b[i])
  BY AppendProperties DEF Texts
<1>2. PICK e : e = Append(ps, u)
  OBVIOUS
<1>3. e[Len(e)] = u /\ [e EXCEPT ![Len(e)] = v] = Append(ps, v)
  BY <1>2, LastReplaced
<1>4. b[i] # 0
  <2>1. \A x \in Letters : x # 0
    BY DEF Letters
  <2> QED
    BY <2>1, Zenon
<1>5. PartsAfter(b, e, i) = [e EXCEPT ![Len(e)] = Append(e[Len(e)], b[i])]
  BY <1>4 DEF PartsAfter
<1>6. Append(e[Len(e)], b[i]) = v
  BY <1>1, <1>3, Zenon
<1>7. PartsAfter(b, e, i) = [e EXCEPT ![Len(e)] = v]
  BY <1>5, <1>6, Zenon
<1> QED
  BY <1>1, <1>2, <1>3, <1>7, Zenon

LEMMA SplitsNext ==
  ASSUME NEW b, NEW f, NEW n \in Nat, NEW i \in Nat, NEW j \in 1..n, j = i + 1, Splits(b, n, f)
  PROVE  f[j] = PartsAfter(b, f[i], j)
<1>1. j \in 0..n /\ j # 0 /\ j - 1 = i
  OBVIOUS
<1>2. f[j] = IF j = 0 THEN <<<<>>>> ELSE PartsAfter(b, f[j - 1], j)
  BY <1>1, Zenon DEF Splits
<1> QED
  BY <1>1, <1>2

LEMMA SplitsFirst ==
  ASSUME NEW b, NEW f, NEW n \in Nat, Splits(b, n, f)
  PROVE  f[0] = <<<<>>>>
<1>1. 0 \in 0..n
  OBVIOUS
<1> QED
  BY <1>1, Zenon DEF Splits

(* The bytes of b before position q have been split into ps and a text     *)
(* that is still empty.                                                    *)
SplitAt(b, f, q, ps) ==
  /\ Len(b) \in Nat /\ Splits(b, Len(b), f) /\ ps \in Seq(Texts)
  /\ \E p \in Nat : q = p + 1 /\ f[p] = Append(ps, <<>>)

(* A text that stands there, with its zero, adds a part.                   *)
LEMMA SplitsText ==
  ASSUME NEW b, NEW f, NEW q, NEW ps, NEW t \in Texts,
         SplitAt(b, f, q, ps), At(b, q, Text(t))
  PROVE  SplitAt(b, f, q + Len(Text(t)), Append(ps, t))
<1>0. PICK n \in Nat, p \in Nat : n = Len(b) /\ q = p + 1 /\ f[p] = Append(ps, <<>>)
  BY DEF SplitAt
<1>a. ps \in Seq(Texts) /\ Splits(b, n, f)
  BY <1>0 DEF SplitAt
<1>1. PICK k \in Nat : k = Len(t) /\ Len(Text(t)) = k + 1
  BY TextTyped DEF Texts
<1>2. p + k + 1 <= n
  <2>1. q + Len(Text(t)) <= Len(b) + 1
    BY DEF At
  <2> QED
    BY <1>0, <1>1, <2>1
<1>3. ASSUME NEW i \in 1..k
      PROVE  b[p + i] = t[i]
  <2>1. i \in 1..Len(Text(t)) /\ q - 1 + i = p + i
    BY <1>0, <1>1
  <2>2. b[q - 1 + i] = Text(t)[i]
    BY <2>1, Zenon DEF At
  <2>3. Text(t)[i] = t[i]
    BY <1>1, AppendProperties DEF Text, Texts
  <2> QED
    BY <2>1, <2>2, <2>3
<1>4. b[p + k + 1] = 0
  <2>1. k + 1 \in 1..Len(Text(t)) /\ q - 1 + (k + 1) = p + k + 1
    BY <1>0, <1>1
  <2>2. b[q - 1 + (k + 1)] = Text(t)[k + 1]
    BY <2>1, Zenon DEF At
  <2>3. Text(t)[k + 1] = 0
    BY <1>1 DEF Text, Texts
  <2> QED
    BY <2>1, <2>2, <2>3
<1> DEFINE Good == {i \in 0..k : f[p + i] = Append(ps, SubSeq(t, 1, i))}
<1>5. 0 \in Good
  <2>1. SubSeq(t, 1, 0) = <<>>
    BY SubSeqEmpty
  <2>2. p + 0 = p /\ 0 \in 0..k
    OBVIOUS
  <2>3. f[p + 0] = Append(ps, SubSeq(t, 1, 0))
    BY <1>0, <2>1, <2>2
  <2> QED
    BY <2>2, <2>3, Zenon
<1>6. ASSUME NEW i \in 0..(k - 1), i \in Good PROVE i + 1 \in Good
  <2>1. PICK j \in 1..k, x, y \in Nat : j = i + 1 /\ x = p + i /\ y = p + j /\ y = x + 1 /\ y \in 1..n /\ x \in Nat
    BY <1>2
  <2>2. PICK l \in Letters : l = t[j] /\ b[y] = l
    BY <1>1, <1>3, <2>1 DEF Texts
  <2>3. PICK u \in Texts : u = SubSeq(t, 1, i) /\ SubSeq(t, 1, j) = Append(u, l)
    <3>1. j \in 1..Len(t)
      BY <1>1, <2>1
    <3>2. SubSeq(t, 1, i) \in Texts /\ SubSeq(t, 1, j) = Append(SubSeq(t, 1, i), t[j])
      BY <2>1, <3>1, PrefixExtended DEF Texts
    <3> QED
      BY <2>2, <3>2, Zenon
  <2>4. f[y] = PartsAfter(b, f[x], y)
    BY <1>a, <2>1, SplitsNext
  <2>5. f[x] = Append(ps, u)
    BY <1>6, <2>1, <2>3
  <2>6. PartsAfter(b, Append(ps, u), y) = Append(ps, Append(u, l))
    <3>1. b[y] \in Letters /\ b[y] = l
      BY <2>2
    <3>2. PartsAfter(b, Append(ps, u), y) = Append(ps, Append(u, b[y]))
      BY <1>a, <3>1, SplitsLetter, Zenon
    <3> QED
      BY <3>1, <3>2, Zenon
  <2>7. f[y] = Append(ps, SubSeq(t, 1, j))
    BY <2>3, <2>4, <2>5, <2>6, Zenon
  <2>8. j \in 0..k
    BY <2>1
  <2> QED
    BY <2>1, <2>7, <2>8
<1>7. \A i \in 0..k : i \in Good
  <2> HIDE DEF Good
  <2> QED
    BY <1>5, <1>6, UpTo
<1>8. f[p + k] = Append(ps, t)
  <2>1. k \in 0..k
    OBVIOUS
  <2>2. f[p + k] = Append(ps, SubSeq(t, 1, k))
    BY <1>7, <2>1
  <2>3. SubSeq(t, 1, k) = t
    BY <1>1, SubSeqFull DEF Texts
  <2> QED
    BY <2>2, <2>3, Zenon
<1>9. PICK x \in Nat, y \in 1..n : x = p + k /\ y = x + 1 /\ y = p + k + 1 /\ y = p + Len(Text(t))
  BY <1>1, <1>2
<1>10. f[y] = PartsAfter(b, f[x], y)
  BY <1>a, <1>9, SplitsNext
<1>11. PartsAfter(b, f[x], y) = Append(f[x], <<>>)
  <2>1. b[y] = 0
    BY <1>4, <1>9
  <2> QED
    BY <2>1, Zenon DEF PartsAfter
<1>12. f[x] = Append(ps, t)
  BY <1>8, <1>9
<1>13. f[y] = Append(Append(ps, t), <<>>)
  BY <1>10, <1>11, <1>12, Zenon
<1>14. Append(ps, t) \in Seq(Texts)
  BY <1>a, AppendProperties
<1>15. q + Len(Text(t)) = y + 1
  BY <1>0, <1>1, <1>9
<1>16. \E m \in Nat : q + Len(Text(t)) = m + 1 /\ f[m] = Append(Append(ps, t), <<>>)
  <2>1. y \in Nat
    OBVIOUS
  <2> QED
    BY <1>13, <1>15, <2>1, Zenon
<1> QED
  BY <1>0, <1>a, <1>14, <1>16, Zenon DEF SplitAt

(* g is ps with x and y behind it.                                         *)
Behind(g, ps, x, y) ==
  /\ Len(g) = Len(ps) + 2 /\ g[Len(ps) + 1] = x /\ g[Len(ps) + 2] = y
  /\ \A i \in 1..Len(ps) : g[i] = ps[i]

LEMMA TwoBehind ==
  ASSUME NEW S, NEW ps \in Seq(S), NEW x \in S, NEW y \in S
  PROVE  /\ Append(Append(ps, x), y) \in Seq(S)
         /\ Behind(Append(Append(ps, x), y), ps, x, y)
<1>0. PICK n \in Nat : n = Len(ps)
  BY LenProperties
<1>1. PICK e : e = Append(ps, x)
  OBVIOUS
<1>2. e \in Seq(S) /\ Len(e) = n + 1 /\ e[n + 1] = x /\ \A i \in 1..n : e[i] = ps[i]
  BY <1>0, <1>1, AppendProperties
<1>3. PICK g : g = Append(e, y)
  OBVIOUS
<1>4. g \in Seq(S) /\ Len(g) = n + 2 /\ g[n + 2] = y /\ \A i \in 1..(n + 1) : g[i] = e[i]
  <2>1. Len(e) + 1 = n + 2 /\ Len(e) = n + 1
    BY <1>2
  <2>2. /\ Append(e, y) \in Seq(S) /\ Len(Append(e, y)) = Len(e) + 1
        /\ Append(e, y)[Len(e) + 1] = y /\ \A i \in 1..Len(e) : Append(e, y)[i] = e[i]
    BY <1>2, AppendProperties
  <2> QED
    BY <1>3, <2>1, <2>2
<1>5. g[n + 1] = x
  BY <1>2, <1>4
<1>6. \A i \in 1..n : g[i] = ps[i]
  BY <1>2, <1>4
<1>7. g = Append(Append(ps, x), y)
  BY <1>1, <1>3, Zenon
<1>8. Behind(g, ps, x, y)
  BY <1>0, <1>4, <1>5, <1>6, Zenon DEF Behind
<1> QED
  BY <1>4, <1>7, <1>8, Zenon

(* The texts ps are the first k pairs of s.                                *)
Pairing(ps, s, k) ==
  /\ ps \in Seq(Texts) /\ Len(ps) = 2 * k
  /\ \A j \in 1..k : ps[2 * j - 1] = s[j][1] /\ ps[2 * j] = s[j][2]

LEMMA PairingNext ==
  ASSUME NEW s, NEW ps, NEW x \in Texts, NEW y \in Texts, NEW i \in Nat, NEW j \in Nat,
         j = i + 1, s[j][1] = x, s[j][2] = y, Pairing(ps, s, i)
  PROVE  Pairing(Append(Append(ps, x), y), s, j)
<1>1. PICK n \in Nat : n = 2 * i /\ n + 2 = 2 * j /\ n + 1 = 2 * j - 1
  OBVIOUS
<1>2. ps \in Seq(Texts) /\ Len(ps) = n
  BY <1>1 DEF Pairing
<1>a. PICK g : g = Append(Append(ps, x), y)
  OBVIOUS
<1>b. g \in Seq(Texts) /\ Behind(g, ps, x, y)
  <2>1. ps \in Seq(Texts)
    BY <1>2
  <2> QED
    BY <1>a, <2>1, TwoBehind
<1>3. Len(g) = n + 2 /\ g[n + 1] = x /\ g[n + 2] = y /\ \A k \in 1..n : g[k] = ps[k]
  BY <1>2, <1>b, Zenon DEF Behind
<1>4. ASSUME NEW k \in 1..j
      PROVE  g[2 * k - 1] = s[k][1] /\ g[2 * k] = s[k][2]
  <2>1. CASE k = j
    BY <1>1, <1>3, <2>1
  <2>2. CASE k # j
    <3>1. k \in 1..i /\ 2 * k - 1 \in 1..n /\ 2 * k \in 1..n
      BY <1>1, <2>2
    <3>2. ps[2 * k - 1] = s[k][1] /\ ps[2 * k] = s[k][2]
      BY <3>1 DEF Pairing
    <3>3. g[2 * k - 1] = ps[2 * k - 1] /\ g[2 * k] = ps[2 * k]
      BY <1>3, <3>1, Zenon
    <3> QED
      BY <3>2, <3>3
  <2> QED
    BY <2>1, <2>2
<1>5. Len(g) = 2 * j
  BY <1>1, <1>3
<1>6. Pairing(g, s, j)
  BY <1>4, <1>5, <1>b, Zenon DEF Pairing
<1> QED
  BY <1>6, <1>a, Zenon

LEMMA SplitsPair ==
  ASSUME NEW b, NEW f, NEW q, NEW ps, NEW x \in Texts, NEW y \in Texts,
         SplitAt(b, f, q, ps), At(b, q, Cat(Text(x), Text(y)))
  PROVE  SplitAt(b, f, q + Len(Cat(Text(x), Text(y))), Append(Append(ps, x), y))
<1>1. PICK t \in Seq(Byte), u \in Seq(Byte) : t = Text(x) /\ u = Text(y)
  BY TextTyped
<1>2. At(b, q, t) /\ At(b, q + Len(t), u)
  BY <1>1, AtCat
<1>3. SplitAt(b, f, q + Len(t), Append(ps, x))
  <2>1. At(b, q, Text(x))
    BY <1>1, <1>2, Zenon
  <2>2. SplitAt(b, f, q + Len(Text(x)), Append(ps, x))
    BY <2>1, SplitsText
  <2> QED
    BY <1>1, <2>2, Zenon
<1>4. SplitAt(b, f, q + Len(t) + Len(u), Append(Append(ps, x), y))
  <2>1. At(b, q + Len(t), Text(y))
    BY <1>1, <1>2, Zenon
  <2>2. PICK r, ws : r = q + Len(t) /\ ws = Append(ps, x)
    OBVIOUS
  <2>3. SplitAt(b, f, r, ws) /\ At(b, r, Text(y))
    BY <1>3, <2>1, <2>2, Zenon
  <2>4. SplitAt(b, f, r + Len(Text(y)), Append(ws, y))
    BY <2>3, SplitsText
  <2> QED
    BY <1>1, <2>2, <2>4, Zenon
<1>5. q + Len(t) + Len(u) = q + Len(Cat(t, u))
  <2>1. q \in Nat
    BY DEF At
  <2> QED
    <3>1. PICK k \in Nat, l \in Nat, m \in Nat : k = q /\ l = Len(t) /\ m = Len(u)
      BY <2>1
    <3>2. k + l + m = k + (l + m)
      OBVIOUS
    <3>3. Len(Cat(t, u)) = Len(t) + Len(u)
      BY ByteCat
    <3> QED
      BY <3>1, <3>2, <3>3, Zenon
<1> QED
  BY <1>1, <1>4, <1>5, Zenon

(* Names and values in turn, as a client writes them.                      *)
Entry(e) == Cat(Text(e[1]), Text(e[2]))
Entries(s) == [i \in DOMAIN s |-> Entry(s[i])]

LEMMA EntriesTyped ==
  ASSUME NEW s \in Seq(Texts \X Texts)
  PROVE  /\ Entries(s) \in Seq(Seq(Byte)) /\ Len(Entries(s)) = Len(s)
         /\ \A i \in 1..Len(s) : Entries(s)[i] = Entry(s[i])
<1>1. PICK n \in Nat : n = Len(s) /\ DOMAIN s = 1..n
  BY LenProperties
<1>2. PICK t : t = Entries(s)
  OBVIOUS
<1>3. t = [i \in 1..n |-> Entry(s[i])]
  BY <1>1, <1>2, Zenon DEF Entries
<1>4. t = [i \in 1..n |-> t[i]] /\ \A i \in 1..n : t[i] = Entry(s[i])
  BY <1>3
<1>5. ASSUME NEW i \in 1..n PROVE t[i] \in Seq(Byte)
  <2>1. s[i] \in Texts \X Texts
    BY <1>1
  <2>2. PICK x \in Texts, y \in Texts : x = s[i][1] /\ y = s[i][2]
    BY <2>1
  <2>3. Text(x) \in Seq(Byte) /\ Text(y) \in Seq(Byte)
    BY TextTyped
  <2>4. Cat(Text(x), Text(y)) \in Seq(Byte)
    BY <2>3, ByteCat
  <2> QED
    BY <1>4, <2>2, <2>4, Zenon DEF Entry
<1>6. t \in Seq(Seq(Byte)) /\ Len(t) = n
  BY <1>4, <1>5, Enumerated
<1> QED
  BY <1>1, <1>2, <1>4, <1>6, Zenon

LEMMA SplitFirst ==
  ASSUME NEW b \in Seq(Byte), NEW f, Splits(b, Len(b), f)
  PROVE  SplitAt(b, f, 1, <<>>)
<1>1. f[0] = <<<<>>>>
  BY SplitsFirst, LenProperties
<1>2. Append(<<>>, <<>>) = <<<<>>>>
  OBVIOUS
<1>3. f[0] = Append(<<>>, <<>>)
  BY <1>1, <1>2, Zenon
<1>4. <<>> \in Seq(Texts)
  BY EmptySeq
<1>5. PICK p \in Nat : p = 0 /\ 1 = p + 1
  OBVIOUS
<1>6. f[p] = Append(<<>>, <<>>)
  BY <1>3, <1>5, Zenon
<1>7. \E m \in Nat : 1 = m + 1 /\ f[m] = Append(<<>>, <<>>)
  BY <1>5, <1>6, Zenon
<1> QED
  BY <1>4, <1>7, LenProperties, Zenon DEF SplitAt

(* What Reading says of the entries alone.                                 *)
LEMMA SplitEntries ==
  ASSUME NEW s \in Seq(Texts \X Texts), NEW b \in Seq(Byte), b = FlattenSeq(Entries(s))
  PROVE  \E ps : Pairing(ps, s, Len(s)) /\ Split(b) = Append(ps, <<>>)
<1>0. PICK n \in Nat : n = Len(s)
  BY LenProperties
<1>1. PICK t \in Seq(Seq(Byte)) : t = Entries(s) /\ Len(t) = Len(s) /\ \A i \in 1..Len(s) : t[i] = Entry(s[i])
  BY EntriesTyped
<1>2. PICK f : Splits(b, Len(b), f) /\ Split(b) = f[Len(b)]
  BY SplitIs, LenProperties
<1>3. At(b, 1, FlattenSeq(t))
  <2>1. At(b, 1, b)
    BY AtWhole
  <2> QED
    BY <1>1, <2>1, Zenon
<1>4. PICK w : w = Reading(1, t, s)
  OBVIOUS
<1>5. /\ w[0] = Got(<<>>, 1) /\ w[Len(t)] = Got(s, 1 + Len(FlattenSeq(t)))
      /\ \A i \in 1..Len(t) :
           /\ At(b, w[i - 1].next, t[i])
           /\ w[i] = Got(Append(w[i - 1].val, s[i]), w[i - 1].next + Len(t[i]))
  <2>1. Len(s) = Len(t)
    BY <1>1
  <2> QED
    BY <1>3, <1>4, <2>1, ReadingSteps
<1>6. w[0].next = 1 /\ w[n].next = 1 + Len(b)
  BY <1>0, <1>1, <1>5 DEF Got
<1>7. ASSUME NEW i \in Nat, NEW j \in 1..n, j = i + 1
      PROVE  At(b, w[i].next, t[j]) /\ w[j].next = w[i].next + Len(t[j])
  <2>1. j \in 1..Len(t) /\ j - 1 = i
    BY <1>0, <1>1, <1>7
  <2>2. At(b, w[j - 1].next, t[j]) /\ w[j] = Got(Append(w[j - 1].val, s[j]), w[j - 1].next + Len(t[j]))
    BY <1>5, <2>1, Zenon
  <2> QED
    BY <2>1, <2>2 DEF Got
<1> DEFINE Good == {i \in 0..n : \E ps : Pairing(ps, s, i) /\ SplitAt(b, f, w[i].next, ps)}
<1>8. 0 \in Good
  <2>1. Pairing(<<>>, s, 0)
    <3>1. <<>> \in Seq(Texts) /\ Len(<<>>) = 2 * 0
      BY EmptySeq
    <3>2. \A j \in 1..0 : FALSE
      OBVIOUS
    <3> QED
      BY <3>1, <3>2, Zenon DEF Pairing
  <2>2. SplitAt(b, f, 1, <<>>)
    BY <1>2, SplitFirst
  <2>3. SplitAt(b, f, w[0].next, <<>>)
    BY <1>6, <2>2, Zenon
  <2>4. 0 \in 0..n
    OBVIOUS
  <2> QED
    BY <2>1, <2>3, <2>4, Zenon
<1>9. ASSUME NEW i \in 0..(n - 1), i \in Good PROVE i + 1 \in Good
  <2>1. PICK ps : Pairing(ps, s, i) /\ SplitAt(b, f, w[i].next, ps)
    BY <1>9, Zenon
  <2>2. PICK j \in 1..n : j = i + 1 /\ i \in Nat /\ j \in Nat /\ j \in 0..n
    OBVIOUS
  <2>3. At(b, w[i].next, t[j]) /\ w[j].next = w[i].next + Len(t[j])
    BY <1>7, <2>2
  <2>4. PICK x \in Texts, y \in Texts : x = s[j][1] /\ y = s[j][2]
    <3>1. s[j] \in Texts \X Texts
      BY <1>0
    <3> QED
      BY <3>1
  <2>5. t[j] = Cat(Text(x), Text(y))
    BY <1>0, <1>1, <2>4, Zenon DEF Entry
  <2>6. PICK q : q = w[i].next
    OBVIOUS
  <2>7. SplitAt(b, f, q, ps) /\ At(b, q, Cat(Text(x), Text(y)))
    BY <2>1, <2>3, <2>5, <2>6, Zenon
  <2>8. SplitAt(b, f, q + Len(Cat(Text(x), Text(y))), Append(Append(ps, x), y))
    BY <2>7, SplitsPair
  <2>9. SplitAt(b, f, w[j].next, Append(Append(ps, x), y))
    BY <2>3, <2>5, <2>6, <2>8, Zenon
  <2>10. Pairing(Append(Append(ps, x), y), s, j)
    <3>1. s[j][1] = x /\ s[j][2] = y /\ Pairing(ps, s, i) /\ j = i + 1 /\ i \in Nat /\ j \in Nat
      BY <2>1, <2>2, <2>4
    <3> QED
      BY <3>1, PairingNext
  <2>11. j \in Good
    BY <2>2, <2>9, <2>10, Zenon
  <2> QED
    BY <2>2, <2>11, Zenon
<1>10. \A i \in 0..n : i \in Good
  <2> HIDE DEF Good
  <2> QED
    BY <1>8, <1>9, UpTo
<1>11. PICK ps : Pairing(ps, s, n) /\ SplitAt(b, f, w[n].next, ps)
  <2>1. n \in 0..n
    OBVIOUS
  <2> QED
    BY <1>10, <2>1, Zenon
<1>12. f[Len(b)] = Append(ps, <<>>)
  <2>1. PICK p \in Nat : w[n].next = p + 1 /\ f[p] = Append(ps, <<>>)
    BY <1>11, Zenon DEF SplitAt
  <2>2. p = Len(b)
    <3>1. PICK l \in Nat : l = Len(b)
      BY LenProperties
    <3>2. p + 1 = 1 + l
      BY <1>6, <2>1, <3>1, Zenon
    <3>3. p = l
      BY <3>2
    <3> QED
      BY <3>1, <3>3
  <2> QED
    BY <2>1, <2>2, Zenon
<1> QED
  BY <1>0, <1>2, <1>11, <1>12, Zenon

(* What was split into them are the pairs that were joined.                *)
LEMMA PairsBack ==
  ASSUME NEW s \in Seq(Texts \X Texts), NEW ps, Pairing(ps, s, Len(s))
  PROVE  Pairs(Append(ps, <<>>)) = s
<1>1. PICK n \in Nat : n = Len(s)
  BY LenProperties
<1>2. ps \in Seq(Texts) /\ Len(ps) = 2 * n
  BY <1>1, Zenon DEF Pairing
<1>3. PICK g : g = Append(ps, <<>>)
  OBVIOUS
<1>4. Len(g) = 2 * n + 1 /\ \A i \in 1..(2 * n) : g[i] = ps[i]
  <2>1. PICK k \in Nat : k = Len(ps)
    BY <1>2, LenProperties
  <2>2. <<>> \in Texts
    BY EmptySeq DEF Texts
  <2>3. Len(g) = k + 1 /\ \A i \in 1..k : g[i] = ps[i]
    BY <1>2, <1>3, <2>1, <2>2, AppendProperties
  <2>4. k = 2 * n
    BY <1>2, <2>1
  <2> QED
    BY <2>3, <2>4
<1>5. Len(g) \div 2 = n
  BY <1>4
<1>6. PICK r : r = Pairs(g)
  OBVIOUS
<1>7. r = [i \in 1..n |-> <<g[2 * i - 1], g[2 * i]>>]
  BY <1>5, <1>6, Zenon DEF Pairs
<1>8. ASSUME NEW i \in 1..n PROVE <<g[2 * i - 1], g[2 * i]>> = s[i]
  <2>1. 2 * i - 1 \in 1..(2 * n) /\ 2 * i \in 1..(2 * n) /\ i \in 1..Len(s)
    BY <1>1
  <2>2. g[2 * i - 1] = ps[2 * i - 1] /\ g[2 * i] = ps[2 * i]
    BY <1>4, <2>1, Zenon
  <2>3. ps[2 * i - 1] = s[i][1] /\ ps[2 * i] = s[i][2]
    BY <2>1, Zenon DEF Pairing
  <2>4. s[i] = <<s[i][1], s[i][2]>>
    <3>1. s[i] \in Texts \X Texts
      BY <2>1
    <3> QED
      BY <3>1
  <2> QED
    BY <2>2, <2>3, <2>4, Zenon
<1>9. s = [i \in 1..n |-> s[i]]
  BY <1>1
<1>10. [i \in 1..n |-> <<g[2 * i - 1], g[2 * i]>>] = [i \in 1..n |-> s[i]]
  BY <1>8, Zenon
<1> QED
  BY <1>3, <1>6, <1>7, <1>9, <1>10, Zenon

LEMMA FrontBack ==
  ASSUME NEW S, NEW b \in Seq(S), NEW e \in S
  PROVE  Front(Append(b, e)) = b /\ Len(Append(b, e)) = Len(b) + 1
<1>0. PICK g : g = Append(b, e)
  OBVIOUS
<1>1. PICK n \in Nat : n = Len(b) /\ g = Append(b, e)
  BY <1>0, LenProperties
<1>2. g \in Seq(S) /\ Len(g) = n + 1 /\ \A i \in 1..n : g[i] = b[i]
  BY <1>1, AppendProperties
<1>3. PICK h : h = SubSeq(g, 1, n)
  OBVIOUS
<1>4. h \in Seq(S) /\ Len(h) = n /\ \A i \in 1..n : h[i] = g[i]
  BY <1>2, <1>3
<1>5. h = b
  <2>1. \A i \in 1..n : h[i] = b[i]
    BY <1>2, <1>4, Zenon
  <2> QED
    BY <1>1, <1>4, <2>1, SeqEqual
<1>6. Front(g) = h
  <2>1. Len(g) - 1 = n
    BY <1>2
  <2> QED
    BY <1>3, <2>1, Zenon DEF Front
<1> QED
  BY <1>1, <1>2, <1>5, <1>6, Zenon

(* The parameters of a start-up are read back as a map.                    *)
LEMMA StartupRead ==
  ASSUME NEW s \in Seq(Texts \X Texts)
  PROVE  StartupParameters(Append(FlattenSeq(Entries(s)), 0)) = AsMap(s)
<1>1. PICK b \in Seq(Byte) : b = FlattenSeq(Entries(s))
  BY EntriesTyped, FlattenTyped
<1>2. PICK ps : Pairing(ps, s, Len(s)) /\ Split(b) = Append(ps, <<>>)
  BY <1>1, SplitEntries
<1>3. Pairs(Split(b)) = s
  BY <1>2, PairsBack, Zenon
<1>4. Front(Append(b, 0)) = b /\ Len(Append(b, 0)) = Len(b) + 1
  <2>1. 0 \in Byte
    BY DEF Byte
  <2> QED
    BY <2>1, FrontBack
<1>5. CASE Len(b) # 0
  <2>1. Len(Append(b, 0)) > 1
    BY <1>4, <1>5, LenProperties
  <2> QED
    BY <1>1, <1>3, <1>4, <2>1, Zenon DEF StartupParameters
<1>6. CASE Len(b) = 0
  <2>1. s = <<>>
    <3> SUFFICES ASSUME s # <<>> PROVE FALSE
      OBVIOUS
    <3>1. PICK t \in Seq(Seq(Byte)) : t = Entries(s) /\ Len(t) = Len(s)
                                      /\ \A i \in 1..Len(s) : t[i] = Entry(s[i])
      BY EntriesTyped
    <3>2. Len(s) \in Nat \ {0}
      BY EmptySeq
    <3>3. t # <<>> /\ 1 \in 1..Len(s)
      BY <3>1, <3>2, EmptySeq
    <3>4. b = Cat(t[1], FlattenSeq(Tail(t)))
      BY <1>1, <3>1, <3>3, FlattenTail
    <3>5. Tail(t) \in Seq(Seq(Byte))
      BY <3>3, HeadTailProperties
    <3>6. PICK u \in Seq(Byte) : u = FlattenSeq(Tail(t))
      BY <3>5, FlattenTyped
    <3>7. PICK x \in Texts, y \in Texts : x = s[1][1] /\ y = s[1][2]
      <4>1. s[1] \in Texts \X Texts
        BY <3>3
      <4> QED
        BY <4>1
    <3>8. t[1] = Cat(Text(x), Text(y))
      BY <3>1, <3>3, <3>7, Zenon DEF Entry
    <3>9. PICK v \in Seq(Byte), w \in Seq(Byte) : v = Text(x) /\ w = Text(y) /\ Len(v) = Len(x) + 1 /\ Len(x) \in Nat
      BY TextTyped, LenProperties DEF Texts
    <3>10. b = Cat(Cat(v, w), u)
      BY <3>4, <3>6, <3>8, <3>9, Zenon
    <3>11. Cat(v, w) \in Seq(Byte) /\ Len(Cat(v, w)) = Len(v) + Len(w) /\ Len(w) \in Nat
      BY ByteCat
    <3>12. PICK c \in Seq(Byte) : c = Cat(v, w)
      BY <3>11
    <3>13. Len(Cat(c, u)) = Len(c) + Len(u) /\ Len(u) \in Nat
      BY ByteCat
    <3>14. Len(c) = Len(x) + 1 + Len(w)
      BY <3>9, <3>11, <3>12
    <3>15. Len(b) = Len(c) + Len(u)
      BY <3>10, <3>12, <3>13, Zenon
    <3>16. PICK k \in Nat, l \in Nat, m \in Nat :
             k = Len(x) /\ l = Len(w) /\ m = Len(u)
      BY <3>9, <3>11, <3>13
    <3>17. Len(c) = k + 1 + l
      BY <3>14, <3>16, Zenon
    <3>18. Len(b) = k + 1 + l + m
      BY <3>15, <3>16, <3>17, Zenon
    <3>19. k + 1 + l + m # 0
      OBVIOUS
    <3> QED
      BY <1>6, <3>18, <3>19, Zenon
  <2>2. ~(Len(Append(b, 0)) > 1)
    BY <1>4, <1>6
  <2>3. StartupParameters(Append(b, 0)) = AsMap(<<>>)
    BY <2>2, Zenon DEF StartupParameters
  <2> QED
    BY <1>1, <2>1, <2>3, Zenon
<1> QED
  BY <1>5, <1>6
-----------------------------------------------------------------------------
LEMMA QueryRead ==
  ASSUME NEW m \in [string : Texts]
  PROVE  ParseQuery(Text(m.string)) = m /\ Text(m.string) \in Seq(Byte)
<1>1. PICK s \in Texts : s = m.string /\ m = [string |-> s]
  OBVIOUS
<1>2. PICK b \in Seq(Byte) : b = Text(s)
  BY TextTyped
<1>3. At(b, 1, Text(s))
  BY <1>2, AtWhole
<1>4. TextAt(b, 1) = Got(s, 1 + Len(Text(s)))
  BY <1>3, AtText
<1>5. ParseQuery(b) = [string |-> s]
  BY <1>4 DEF ParseQuery, Got
<1> QED
  BY <1>1, <1>2, <1>5

(* Words and List as the lemmas about Chain write them.                    *)
LEMMA ListIs ==
  ASSUME NEW s
  PROVE  List(s) = Cat(BigEndian(Len(s), 2), FlattenSeq(s))
  BY Zenon DEF List, Cat

LEMMA ListTyped ==
  ASSUME NEW s \in Seq(Seq(Byte)), Len(s) \in Shorts
  PROVE  List(s) \in Seq(Byte)
<1>1. PICK h \in Seq(Byte) : h = BigEndian(Len(s), 2)
  BY BigEndianTyped
<1>2. PICK t \in Seq(Byte) : t = FlattenSeq(s)
  BY FlattenTyped
<1>3. List(s) = Cat(h, t)
  BY <1>1, <1>2, ListIs
<1> QED
  BY <1>3, ByteCat

LEMMA ReadsText ==
  ASSUME NEW b, NEW s \in Texts
  PROVE  Text(s) \in Seq(Byte) /\ Reads(b, Text(s), "text", s)
<1>1. Text(s) \in Seq(Byte)
  BY TextTyped
<1>2. Reads(b, Text(s), "text", s)
  BY PartText DEF Reads
<1> QED
  BY <1>1, <1>2

LEMMA ReadsLong ==
  ASSUME NEW b, NEW n \in Longs
  PROVE  BigEndian(n, 4) \in Seq(Byte) /\ Reads(b, BigEndian(n, 4), "long", n)
<1>1. BigEndian(n, 4) \in Seq(Byte)
  BY BigEndianTyped
<1>2. Reads(b, BigEndian(n, 4), "long", n)
  BY PartLong DEF Reads
<1> QED
  BY <1>1, <1>2

LEMMA ReadsShorts ==
  ASSUME NEW b, NEW ns \in Seq(Shorts), Len(ns) \in Shorts
  PROVE  Words(ns, 2) \in Seq(Byte) /\ Reads(b, Words(ns, 2), "shorts", ns)
<1>1. PICK s : s = [i \in DOMAIN ns |-> BigEndian(ns[i], 2)]
  OBVIOUS
<1>2. Words(ns, 2) = List(s)
  BY <1>1 DEF Words
<1>3. s \in Seq(Seq(Byte)) /\ Len(s) = Len(ns)
  BY <1>1, ShortsItems
<1>4. List(s) \in Seq(Byte)
  BY <1>3, ListTyped
<1>5. Reads(b, List(s), "shorts", ns)
  BY <1>1, ListIs, PartShorts DEF Reads
<1> QED
  BY <1>2, <1>4, <1>5

LEMMA ReadsLongs ==
  ASSUME NEW b, NEW ns \in Seq(Longs), Len(ns) \in Shorts
  PROVE  Words(ns, 4) \in Seq(Byte) /\ Reads(b, Words(ns, 4), "longs", ns)
<1>1. PICK s : s = [i \in DOMAIN ns |-> BigEndian(ns[i], 4)]
  OBVIOUS
<1>2. Words(ns, 4) = List(s)
  BY <1>1 DEF Words
<1>3. s \in Seq(Seq(Byte)) /\ Len(s) = Len(ns)
  BY <1>1, LongsItems
<1>4. List(s) \in Seq(Byte)
  BY <1>3, ListTyped
<1>5. Reads(b, List(s), "longs", ns)
  BY <1>1, ListIs, PartLongs DEF Reads
<1> QED
  BY <1>2, <1>4, <1>5

LEMMA ReadsValues ==
  ASSUME NEW b, NEW V, NEW vs \in Seq(V), NEW s, Len(vs) \in Shorts,
         \A i \in 1..Len(vs) : Valued(vs[i]), s = [i \in DOMAIN vs |-> ValueOf(vs[i])]
  PROVE  List(s) \in Seq(Byte) /\ Reads(b, List(s), "values", vs)
<1>1. s \in Seq(Seq(Byte)) /\ Len(s) = Len(vs)
  BY ValuesItems
<1>2. List(s) \in Seq(Byte)
  BY <1>1, ListTyped
<1>3. Reads(b, List(s), "values", vs)
  BY ListIs, PartValues DEF Reads
<1> QED
  BY <1>2, <1>3

LEMMA ExecuteRead ==
  ASSUME NEW m \in [portal : Texts, maxRows : Longs], NEW b,
         b = Cat(Text(m.portal), BigEndian(m.maxRows, 4))
  PROVE  ParseExecute(b) = m /\ b \in Seq(Byte)
<1>1. PICK p \in Texts, n \in Longs : m = [portal |-> p, maxRows |-> n] /\ p = m.portal /\ n = m.maxRows
  OBVIOUS
<1>2. PICK x \in Seq(Byte) : x = Text(p) /\ Reads(b, x, "text", p)
  BY ReadsText
<1>3. PICK y \in Seq(Byte) : y = BigEndian(n, 4) /\ Reads(b, y, "long", n)
  BY ReadsLong
<1>4. b = Cat(x, y)
  BY <1>1, <1>2, <1>3
<1>5. b = FlattenSeq(<<x, y>>) /\ b \in Seq(Byte)
  BY <1>4, FlattenTwo, ByteCat
<1> DEFINE s == <<x, y>>
           vals == <<p, n>>
           kinds == <<"text", "long">>
<1>6. /\ s \in Seq(Seq(Byte)) /\ vals \in Seq({p, n}) /\ Len(vals) = Len(s) /\ Len(kinds) = Len(s)
      /\ \A i \in 1..Len(s) : Reads(b, s[i], kinds[i], vals[i])
  BY <1>2, <1>3
<1>7. Parts(b, kinds) = vals
  <2> HIDE DEF s, vals, kinds
  <2> QED
    BY <1>5, <1>6, PartsOf DEF s
<1>8. ParseExecute(b) = [portal |-> vals[1], maxRows |-> vals[2]]
  BY <1>7, Zenon DEF ParseExecute
<1> QED
  BY <1>1, <1>5, <1>8

LEMMA ParseRead ==
  ASSUME NEW m \in [name : Texts, query : Texts, oids : Seq(Longs)], NEW b,
         Len(m.oids) \in Shorts, b = Cat(Cat(Text(m.name), Text(m.query)), Words(m.oids, 4))
  PROVE  ParseParse(b) = m /\ b \in Seq(Byte)
<1>1. PICK n \in Texts, q \in Texts, ns \in Seq(Longs) :
        m = [name |-> n, query |-> q, oids |-> ns] /\ n = m.name /\ q = m.query /\ ns = m.oids
  OBVIOUS
<1>2. PICK x \in Seq(Byte) : x = Text(n) /\ Reads(b, x, "text", n)
  BY ReadsText
<1>3. PICK y \in Seq(Byte) : y = Text(q) /\ Reads(b, y, "text", q)
  BY ReadsText
<1>4. PICK z \in Seq(Byte) : z = Words(ns, 4) /\ Reads(b, z, "longs", ns)
  <2>1. Len(ns) \in Shorts
    BY <1>1
  <2> QED
    BY <2>1, ReadsLongs
<1>5. b = Cat(Cat(x, y), z)
  BY <1>1, <1>2, <1>3, <1>4
<1>6. b = FlattenSeq(<<x, y, z>>) /\ b \in Seq(Byte)
  <2>1. Cat(x, y) \in Seq(Byte)
    BY ByteCat
  <2>2. b \in Seq(Byte)
    BY <1>5, <2>1, ByteCat
  <2>3. b = FlattenSeq(<<x, y, z>>)
    BY <1>5, FlattenThree
  <2> QED
    BY <2>2, <2>3
<1> DEFINE s == <<x, y, z>>
           vals == <<n, q, ns>>
           kinds == <<"text", "text", "longs">>
<1>7. /\ s \in Seq(Seq(Byte)) /\ vals \in Seq({n, q, ns}) /\ Len(vals) = Len(s) /\ Len(kinds) = Len(s)
      /\ \A i \in 1..Len(s) : Reads(b, s[i], kinds[i], vals[i])
  <2>1. s \in Seq(Seq(Byte)) /\ Len(s) = 3
    OBVIOUS
  <2>2. vals \in Seq({n, q, ns}) /\ Len(vals) = 3 /\ Len(kinds) = 3
    OBVIOUS
  <2>3. Reads(b, s[1], kinds[1], vals[1])
    BY <1>2
  <2>4. Reads(b, s[2], kinds[2], vals[2])
    BY <1>3
  <2>5. Reads(b, s[3], kinds[3], vals[3])
    BY <1>4
  <2> HIDE DEF s, vals, kinds
  <2> QED
    BY <2>1, <2>2, <2>3, <2>4, <2>5
<1>8. Parts(b, kinds) = vals
  <2> HIDE DEF s, vals, kinds
  <2> QED
    BY <1>6, <1>7, PartsOf DEF s
<1>9. ParseParse(b) = [name |-> vals[1], query |-> vals[2], oids |-> vals[3]]
  BY <1>8, Zenon DEF ParseParse
<1> QED
  BY <1>1, <1>6, <1>9

LEMMA BindRead ==
  ASSUME NEW m \in [portal : Texts, statement : Texts, formats : Seq(Shorts),
                    params : Seq(Values), results : Seq(Shorts)], NEW b, NEW l,
         Len(m.formats) \in Shorts, Len(m.params) \in Shorts, Len(m.results) \in Shorts,
         \A i \in 1..Len(m.params) : Valued(m.params[i]),
         l = [i \in DOMAIN m.params |-> ValueOf(m.params[i])],
         b = Cat(Cat(Cat(Cat(Text(m.portal), Text(m.statement)), Words(m.formats, 2)), List(l)),
                 Words(m.results, 2))
  PROVE  ParseBind(b) = m /\ b \in Seq(Byte)
<1>1. PICK p \in Texts, q \in Texts, fs \in Seq(Shorts), vs \in Seq(Values), rs \in Seq(Shorts) :
        /\ m = [portal |-> p, statement |-> q, formats |-> fs, params |-> vs, results |-> rs]
        /\ p = m.portal /\ q = m.statement /\ fs = m.formats /\ vs = m.params /\ rs = m.results
  OBVIOUS
<1>2. PICK x \in Seq(Byte) : x = Text(p) /\ Reads(b, x, "text", p)
  BY ReadsText
<1>3. PICK y \in Seq(Byte) : y = Text(q) /\ Reads(b, y, "text", q)
  BY ReadsText
<1>4. PICK z \in Seq(Byte) : z = Words(fs, 2) /\ Reads(b, z, "shorts", fs)
  <2>1. Len(fs) \in Shorts
    BY <1>1
  <2> QED
    BY <2>1, ReadsShorts
<1>5. PICK u \in Seq(Byte) : u = List(l) /\ Reads(b, u, "values", vs)
  <2>1. Len(vs) \in Shorts /\ (\A i \in 1..Len(vs) : Valued(vs[i])) /\ l = [i \in DOMAIN vs |-> ValueOf(vs[i])]
    BY <1>1
  <2> QED
    BY <2>1, ReadsValues
<1>6. PICK w \in Seq(Byte) : w = Words(rs, 2) /\ Reads(b, w, "shorts", rs)
  <2>1. Len(rs) \in Shorts
    BY <1>1
  <2> QED
    BY <2>1, ReadsShorts
<1>7. b = Cat(Cat(Cat(Cat(x, y), z), u), w)
  BY <1>1, <1>2, <1>3, <1>4, <1>5, <1>6
<1>8. b = FlattenSeq(<<x, y, z, u, w>>)
  BY <1>7, FlattenFive
<1>9. b \in Seq(Byte)
  <2>1. Cat(x, y) \in Seq(Byte)
    BY ByteCat
  <2>2. Cat(Cat(x, y), z) \in Seq(Byte)
    BY <2>1, ByteCat
  <2>3. Cat(Cat(Cat(x, y), z), u) \in Seq(Byte)
    BY <2>2, ByteCat
  <2> QED
    BY <1>7, <2>3, ByteCat
<1> DEFINE s == <<x, y, z, u, w>>
           vals == <<p, q, fs, vs, rs>>
<1>10. /\ s \in Seq(Seq(Byte)) /\ vals \in Seq({p, q, fs, vs, rs})
       /\ Len(vals) = Len(s) /\ Len(BindParts) = Len(s)
       /\ \A i \in 1..Len(s) : Reads(b, s[i], BindParts[i], vals[i])
  <2>1. s \in Seq(Seq(Byte)) /\ Len(s) = 5
    OBVIOUS
  <2>2. vals \in Seq({p, q, fs, vs, rs}) /\ Len(vals) = 5 /\ Len(BindParts) = 5
    BY DEF BindParts
  <2>3. Reads(b, s[1], BindParts[1], vals[1])
    BY <1>2 DEF BindParts
  <2>4. Reads(b, s[2], BindParts[2], vals[2])
    BY <1>3 DEF BindParts
  <2>5. Reads(b, s[3], BindParts[3], vals[3])
    BY <1>4 DEF BindParts
  <2>6. Reads(b, s[4], BindParts[4], vals[4])
    BY <1>5 DEF BindParts
  <2>7. Reads(b, s[5], BindParts[5], vals[5])
    BY <1>6 DEF BindParts
  <2> HIDE DEF s, vals
  <2> QED
    BY <2>1, <2>2, <2>3, <2>4, <2>5, <2>6, <2>7
<1>11. Parts(b, BindParts) = vals
  <2> HIDE DEF s, vals
  <2> QED
    BY <1>8, <1>10, PartsOf DEF s
<1>12. ParseBind(b) = [portal |-> vals[1], statement |-> vals[2], formats |-> vals[3],
                       params |-> vals[4], results |-> vals[5]]
  BY <1>11, Zenon DEF ParseBind
<1> QED
  BY <1>1, <1>9, <1>12

(* Describe and Close take a byte and a text.                              *)
LEMMA KindRead ==
  ASSUME NEW m \in [kind : Byte, name : Texts], NEW b, b = Cat(<<m.kind>>, Text(m.name))
  PROVE  ParseDescribe(b) = m /\ ParseClose(b) = m /\ b \in Seq(Byte)
<1>1. PICK k \in Byte, s \in Texts : m = [kind |-> k, name |-> s] /\ k = m.kind /\ s = m.name
  OBVIOUS
<1>2. PICK h \in Seq(Byte) : h = <<k>>
  <2>1. <<k>> \in Seq(Byte)
    OBVIOUS
  <2> QED
    BY <2>1, Zenon
<1>0. Len(h) = 1 /\ h[1] = k
  BY <1>2
<1>3. PICK t \in Seq(Byte) : t = Text(s) /\ s \in Seq(Byte) /\ Len(t) = Len(s) + 1
  BY TextTyped
<1>4. b = Cat(h, t)
  BY <1>1, <1>2, <1>3
<1>5. b \in Seq(Byte) /\ Len(b) = 1 + Len(t) /\ Len(t) \in Nat
  BY <1>0, <1>4, ByteCat
<1>6. At(b, 1, h) /\ At(b, 2, t)
  <2>1. At(b, 1, Cat(h, t))
    BY <1>4, <1>5, AtWhole
  <2>2. At(b, 1, h) /\ At(b, 1 + Len(h), t)
    BY <2>1, AtCat
  <2> QED
    BY <1>0, <2>2
<1>7. b[1] = k
  BY <1>0, <1>6 DEF At
<1>8. At(b, 2, s)
  <2>1. t = Cat(s, <<0>>)
    BY <1>3 DEF Text, Cat
  <2>2. <<0>> \in Seq(Byte)
    BY DEF Byte
  <2>3. At(b, 2, Cat(s, <<0>>))
    BY <1>6, <2>1
  <2> QED
    BY <1>3, <2>2, <2>3, AtCat
<1>9. SubSeq(b, 2, Len(b) - 1) = s
  <2>1. SubSeq(b, 2, 2 - 1 + Len(s)) = s
    BY <1>8, AtSub
  <2>2. 2 - 1 + Len(s) = Len(b) - 1
    BY <1>3, <1>5
  <2> QED
    BY <2>1, <2>2
<1> QED
  BY <1>1, <1>5, <1>7, <1>9 DEF ParseDescribe, ParseClose

LEMMA QueryBody ==
  ASSUME NEW r, r.type = "query", r.msg \in Content(r.type)
  PROVE  Body(r) \in Seq(Byte) /\ ParseQuery(Body(r)) = r.msg
<1>1. r.msg \in [string : Texts]
  BY DEF Content
<1>2. Body(r) = Text(r.msg.string)
  BY Zenon DEF Body
<1> QED
  BY <1>1, <1>2, QueryRead

LEMMA ParseBody ==
  ASSUME NEW r, r.type = "parse", r.msg \in Content(r.type), Countable(r)
  PROVE  Body(r) \in Seq(Byte) /\ ParseParse(Body(r)) = r.msg
<1>1. r.msg \in [name : Texts, query : Texts, oids : Seq(Longs)]
  BY DEF Content
<1>2. Body(r) = Cat(Cat(Text(r.msg.name), Text(r.msg.query)), Words(r.msg.oids, 4))
  BY Zenon DEF Body, Cat
<1>3. Len(r.msg.oids) \in Shorts
  BY Zenon DEF Countable
<1> QED
  BY <1>1, <1>2, <1>3, ParseRead

LEMMA BindBody ==
  ASSUME NEW r, r.type = "bind", r.msg \in Content(r.type), Countable(r)
  PROVE  Body(r) \in Seq(Byte) /\ ParseBind(Body(r)) = r.msg
<1>1. r.msg \in [portal : Texts, statement : Texts, formats : Seq(Shorts),
                 params : Seq(Values), results : Seq(Shorts)]
  BY DEF Content
<1>2. PICK l : l = [i \in DOMAIN r.msg.params |-> ValueOf(r.msg.params[i])]
  OBVIOUS
<1>3. Body(r) = Cat(Cat(Cat(Cat(Text(r.msg.portal), Text(r.msg.statement)),
                            Words(r.msg.formats, 2)), List(l)), Words(r.msg.results, 2))
  BY <1>2, Zenon DEF Body, Cat, ValueOf
<1>4. /\ Len(r.msg.formats) \in Shorts /\ Len(r.msg.results) \in Shorts
      /\ Len(r.msg.params) \in Shorts
      /\ \A i \in DOMAIN r.msg.params :
           r.msg.params[i] # Null => Len(r.msg.params[i]) \in Longs
  BY Zenon DEF Countable
<1>5. \A i \in 1..Len(r.msg.params) : Valued(r.msg.params[i])
  <2>1. PICK vs \in Seq(Values) : vs = r.msg.params
    BY <1>1
  <2>2. \A i \in 1..Len(vs) : vs[i] \in Seq(Byte) \cup {Null}
    BY DEF Values
  <2>3. DOMAIN vs = 1..Len(vs)
    OBVIOUS
  <2> QED
    BY <1>4, <2>1, <2>2, <2>3 DEF Valued
<1> QED
  BY <1>1, <1>2, <1>3, <1>4, <1>5, BindRead

LEMMA ExecuteBody ==
  ASSUME NEW r, r.type = "execute", r.msg \in Content(r.type)
  PROVE  Body(r) \in Seq(Byte) /\ ParseExecute(Body(r)) = r.msg
<1>1. r.msg \in [portal : Texts, maxRows : Longs]
  BY DEF Content
<1>2. Body(r) = Cat(Text(r.msg.portal), BigEndian(r.msg.maxRows, 4))
  BY Zenon DEF Body, Cat
<1> QED
  BY <1>1, <1>2, ExecuteRead

LEMMA KindBody ==
  ASSUME NEW r, r.type \in {"describe", "close"}, r.msg \in Content(r.type)
  PROVE  Body(r) \in Seq(Byte) /\ ParseDescribe(Body(r)) = r.msg /\ ParseClose(Body(r)) = r.msg
<1>1. r.msg \in [kind : Byte, name : Texts]
  BY DEF Content
<1>2. Body(r) = Cat(<<r.msg.kind>>, Text(r.msg.name))
  <2>1. CASE r.type = "describe"
    BY <2>1, Zenon DEF Body, Cat
  <2>2. CASE r.type = "close"
    BY <2>2, Zenon DEF Body, Cat
  <2> QED
    BY <2>1, <2>2
<1> QED
  BY <1>1, <1>2, KindRead

Bodyless == {"sync", "flush", "terminate", "password", "other"}

LEMMA NoBody ==
  ASSUME NEW r, r.type \in Bodyless, r.msg \in Content(r.type)
  PROVE  Body(r) \in Seq(Byte) /\ r.msg = Nothing
<1>1. r.type \notin {"query", "parse", "bind", "execute", "describe", "close"}
  BY DEF Bodyless
<1>2. r.msg = Nothing
  BY <1>1 DEF Content
<1>3. Body(r) = <<>>
  BY <1>1 DEF Body
<1> QED
  BY <1>2, <1>3

LEMMA RequestRead ==
  ASSUME NEW r \in Requests
  PROVE  /\ r.type \in DOMAIN TypeByte /\ r.msg \in Content(r.type) /\ Countable(r)
         /\ TypeByte[r.type] \in Byte /\ Body(r) \in Seq(Byte) /\ Len(Body(r)) + 4 \in Longs
         /\ Encode(r) = Frame(TypeByte[r.type], Body(r)) /\ Encode(r) \in Seq(Byte)
<1>1. /\ r.type \in DOMAIN TypeByte /\ r.msg \in Content(r.type) /\ Countable(r)
      /\ Len(Body(r)) + 4 \in Longs
  BY ClientAssumption
<1>2. TypeByte[r.type] \in Byte
  <2>1. {66, 67, 68, 69, 72, 80, 81, 83, 88, 112, 122} \subseteq Byte
    BY DEF Byte
  <2>2. TypeByte[r.type] \in {66, 67, 68, 69, 72, 80, 81, 83, 88, 112, 122}
    BY <1>1 DEF TypeByte
  <2> QED
    BY <2>1, <2>2
<1>3. Body(r) \in Seq(Byte)
  <2>1. r.type \in {"query", "parse", "bind", "execute", "describe", "close"} \cup Bodyless
    BY <1>1 DEF TypeByte, Bodyless
  <2> QED
    BY <1>1, <2>1, QueryBody, ParseBody, BindBody, ExecuteBody, KindBody, NoBody
<1>4. Encode(r) = Frame(TypeByte[r.type], Body(r))
  BY Zenon DEF Encode, Frame, Cat
<1>5. Encode(r) \in Seq(Byte)
  <2>1. Frame(TypeByte[r.type], Body(r)) \in Seq(Byte)
    BY <1>1, <1>2, <1>3, FrameParts
  <2> QED
    BY <1>4, <2>1
<1> QED
  BY <1>1, <1>2, <1>3, <1>4, <1>5

(* The bytes of the requests s behind the first n.                         *)
After(s, n) == FlattenSeq([i \in 1..(Len(s) - n) |-> Encode(s[n + i])])

LEMMA RestIs == Rest = After(sent, Len(got))
  BY Zenon DEF Rest, After

LEMMA AfterSeq ==
  ASSUME NEW s \in Seq(Requests), NEW n \in Nat, n <= Len(s)
  PROVE  \E t \in Seq(Seq(Byte)) :
           /\ After(s, n) = FlattenSeq(t) /\ Len(t) = Len(s) - n
           /\ \A i \in 1..Len(t) : t[i] = Encode(s[n + i])
<1>1. PICK m \in Nat : m = Len(s) - n
  OBVIOUS
<1>2. PICK t : t = [i \in 1..m |-> Encode(s[n + i])]
  OBVIOUS
<1>3. \A i \in 1..m : s[n + i] \in Requests
  BY <1>1
<1>4. DOMAIN t = 1..m /\ \A i \in 1..m : t[i] = Encode(s[n + i])
  BY <1>2
<1>5. t = [i \in 1..m |-> t[i]]
  BY <1>2
<1>6. \A i \in 1..m : t[i] \in Seq(Byte)
  BY <1>3, <1>4, RequestRead
<1>7. t \in Seq(Seq(Byte)) /\ Len(t) = m
  BY <1>5, <1>6, Enumerated
<1>8. After(s, n) = FlattenSeq(t)
  BY <1>1, <1>2, Zenon DEF After
<1> QED
  BY <1>1, <1>4, <1>7, <1>8

LEMMA AfterTyped ==
  ASSUME NEW s \in Seq(Requests), NEW n \in Nat, n <= Len(s)
  PROVE  After(s, n) \in Seq(Byte)
  BY AfterSeq, FlattenTyped

LEMMA AfterLast ==
  ASSUME NEW s \in Seq(Requests), NEW n \in Nat, n = Len(s)
  PROVE  After(s, n) = <<>>
<1>1. PICK t \in Seq(Seq(Byte)) : After(s, n) = FlattenSeq(t) /\ Len(t) = Len(s) - n
  BY AfterSeq
<1>2. t = <<>>
  BY <1>1
<1> QED
  BY <1>1, <1>2, FlattenEmpty

LEMMA AfterNext ==
  ASSUME NEW s \in Seq(Requests), NEW n \in Nat, NEW m \in 1..Len(s), m = n + 1
  PROVE  After(s, n) = Cat(Encode(s[m]), After(s, m)) /\ After(s, m) \in Seq(Byte)
<1>0. n <= Len(s) /\ m <= Len(s) /\ m \in Nat
  OBVIOUS
<1>1. PICK t \in Seq(Seq(Byte)) :
        /\ After(s, n) = FlattenSeq(t) /\ Len(t) = Len(s) - n
        /\ \A i \in 1..Len(t) : t[i] = Encode(s[n + i])
  BY <1>0, AfterSeq
<1>2. PICK u \in Seq(Seq(Byte)) :
        /\ After(s, m) = FlattenSeq(u) /\ Len(u) = Len(s) - m
        /\ \A i \in 1..Len(u) : u[i] = Encode(s[m + i])
  BY <1>0, AfterSeq
<1>3. Tail(t) = u /\ t # <<>> /\ t[1] = Encode(s[m])
  <2>1. Len(t) \in Nat /\ Len(t) = Len(u) + 1 /\ Len(u) \in Nat
    BY <1>1, <1>2
  <2>2. t # <<>> /\ Tail(t) \in Seq(Seq(Byte)) /\ Len(Tail(t)) = Len(u)
    BY <2>1
  <2>3. t[1] = Encode(s[m])
    <3>1. 1 \in 1..Len(t) /\ n + 1 = m
      BY <2>1
    <3> QED
      BY <1>1, <3>1
  <2>4. ASSUME NEW i \in 1..Len(u) PROVE Tail(t)[i] = u[i]
    <3>1. PICK j \in 1..Len(t) : j = i + 1 /\ n + j = m + i
      BY <2>1
    <3>2. Tail(t)[i] = t[j]
      BY <2>1, <2>2, <3>1
    <3> QED
      BY <1>1, <1>2, <3>1, <3>2
  <2>5. Tail(t) = u
    BY <2>2, <2>4, SeqEqual
  <2> QED
    BY <2>2, <2>3, <2>5
<1>4. FlattenSeq(t) = Cat(t[1], FlattenSeq(Tail(t)))
  BY <1>3, FlattenTail
<1> QED
  BY <1>1, <1>2, <1>3, <1>4, FlattenTyped

LEMMA AfterAppend ==
  ASSUME NEW s \in Seq(Requests), NEW n \in Nat, NEW r \in Requests, n <= Len(s)
  PROVE  After(Append(s, r), n) = Cat(After(s, n), Encode(r))
<1> DEFINE v == Append(s, r)
<1>1. v \in Seq(Requests) /\ Len(v) = Len(s) + 1 /\ v[Len(s) + 1] = r
      /\ \A i \in 1..Len(s) : v[i] = s[i]
  OBVIOUS
<1> HIDE DEF v
<1>0. n <= Len(v)
  BY <1>1
<1>2. PICK t \in Seq(Seq(Byte)) :
        /\ After(s, n) = FlattenSeq(t) /\ Len(t) = Len(s) - n
        /\ \A i \in 1..Len(t) : t[i] = Encode(s[n + i])
  BY AfterSeq
<1>3. PICK u \in Seq(Seq(Byte)) :
        /\ After(v, n) = FlattenSeq(u) /\ Len(u) = Len(v) - n
        /\ \A i \in 1..Len(u) : u[i] = Encode(v[n + i])
  BY <1>0, <1>1, AfterSeq
<1>4. PICK e \in Seq(Byte) : e = Encode(r)
  BY RequestRead
<1>5. u = Append(t, e)
  <2>1. Len(t) \in Nat /\ Len(u) = Len(t) + 1 /\ n + Len(t) = Len(s) /\ Len(s) \in Nat
    BY <1>1, <1>2, <1>3
  <2>2. u[Len(t) + 1] = e
    <3>1. PICK j \in 1..Len(u) : j = Len(t) + 1
      BY <2>1
    <3>4. n + (Len(t) + 1) = Len(s) + 1
      BY <2>1
    <3>3. n + j = Len(s) + 1
      BY <3>1, <3>4, Zenon
    <3>2. u[j] = Encode(v[Len(s) + 1])
      BY <1>3, <3>3, Zenon
    <3> QED
      BY <1>1, <1>4, <3>1, <3>2
  <2>3. ASSUME NEW i \in 1..Len(t) PROVE t[i] = u[i]
    <3>1. PICK j \in 1..Len(s) : j = n + i /\ i \in 1..Len(u)
      BY <2>1
    <3> QED
      BY <1>1, <1>2, <1>3, <3>1
  <2>4. Same(t, u, Len(t))
    BY <2>3 DEF Same
  <2> QED
    BY <2>1, <2>2, <2>4, AppendIs
<1>6. FlattenSeq(Append(t, e)) = Cat(FlattenSeq(t), e)
  BY FlattenAppend
<1> QED
  BY <1>2, <1>3, <1>4, <1>5, <1>6 DEF v
-----------------------------------------------------------------------------
(* b begins with a header that holds a length, of b when it is one, and a  *)
(* code.                                                                   *)
Opening(b, l, c) ==
  /\ \E t \in Seq(Byte) : b = Cat(Header(l, c), t)
  /\ b \in Seq(Byte) /\ l \in Longs /\ c \in Longs /\ (l >= 8 => l = Len(b))

LEMMA HeaderIs ==
  ASSUME NEW l \in Longs, NEW c \in Longs
  PROVE  \E x \in Seq(Byte), y \in Seq(Byte) :
           /\ x = BigEndian(l, 4) /\ y = BigEndian(c, 4) /\ Len(x) = 4 /\ Len(y) = 4
           /\ Header(l, c) = Cat(x, y) /\ Header(l, c) \in Seq(Byte) /\ Len(Header(l, c)) = 8
<1>1. PICK x \in Seq(Byte) : x = BigEndian(l, 4)
  BY BigEndianTyped
<1>2. PICK y \in Seq(Byte) : y = BigEndian(c, 4)
  BY BigEndianTyped
<1>3. Len(x) = 4 /\ Len(y) = 4
  BY <1>1, <1>2, BigEndianTyped
<1>4. Header(l, c) = Cat(x, y)
  BY <1>1, <1>2, Zenon DEF Header, Cat
<1>5. Cat(x, y) \in Seq(Byte) /\ Len(Cat(x, y)) = 8
  <2>1. Cat(x, y) \in Seq(Byte) /\ Len(Cat(x, y)) = Len(x) + Len(y)
    BY ByteCat
  <2> QED
    BY <1>3, <2>1
<1> QED
  BY <1>1, <1>2, <1>3, <1>4, <1>5

LEMMA HeaderRead ==
  ASSUME NEW b \in Seq(Byte), NEW l, NEW c, NEW rest \in Seq(Byte), NEW w,
         Opening(b, l, c), Prefix(w, Cat(b, rest)), Len(w) >= 8
  PROVE  Number(w, 1, 4).val = l /\ Number(w, 5, 4).val = c
<1>1. PICK t \in Seq(Byte) : b = Cat(Header(l, c), t)
  BY DEF Opening
<1>0. l \in Longs /\ c \in Longs
  BY DEF Opening
<1>2. PICK x \in Seq(Byte), y \in Seq(Byte) :
           /\ x = BigEndian(l, 4) /\ y = BigEndian(c, 4) /\ Len(x) = 4 /\ Len(y) = 4
           /\ Header(l, c) = Cat(x, y) /\ Header(l, c) \in Seq(Byte) /\ Len(Header(l, c)) = 8
  BY <1>0, HeaderIs
<1>3. PICK h \in Seq(Byte) : h = Cat(x, y)
  BY <1>2
<1>4. Len(h) = 8 /\ Len(x) = 4
  BY <1>2, <1>3
<1>5. PICK z \in Seq(Byte) : z = Cat(t, rest)
  BY ByteCat
<1>6. Cat(b, rest) = Cat(h, z)
  <2>1. Cat(Cat(h, t), rest) = Cat(h, Cat(t, rest))
    BY CatAssociative
  <2> QED
    BY <1>1, <1>2, <1>3, <1>5, <2>1
<1>7. Prefix(w, Cat(h, z)) /\ Len(h) <= Len(w)
  BY <1>4, <1>6
<1>8. At(w, 1, h)
  BY <1>7, PrefixHead
<1>9. At(w, 1, x) /\ At(w, 1 + Len(x), y)
  BY <1>3, <1>8, AtCat
<1>10. At(w, 1, BigEndian(l, 4)) /\ At(w, 5, BigEndian(c, 4))
  <2>1. x = BigEndian(l, 4) /\ y = BigEndian(c, 4)
    BY <1>2, Zenon
  <2>2. 1 + Len(x) = 5
    BY <1>4
  <2> QED
    BY <1>9, <2>1, <2>2, Zenon
<1>11. Long(w, 1) = Got(l, 1 + 4) /\ Long(w, 5) = Got(c, 5 + 4)
  BY <1>0, <1>10, AtLong
<1>12. Number(w, 1, 4) = Long(w, 1) /\ Number(w, 5, 4) = Long(w, 5)
  BY Zenon DEF Long
<1> QED
  BY <1>11, <1>12 DEF Got

LEMMA OpeningOf ==
  ASSUME NEW l \in Longs, NEW c \in Longs, NEW t \in Seq(Byte), NEW b,
         b = Cat(Header(l, c), t), l >= 8 => l = 8 + Len(t)
  PROVE  Opening(b, l, c)
<1>1. PICK h \in Seq(Byte) : h = Header(l, c)
  BY HeaderIs
<1>2. Len(h) = 8
  BY <1>1, HeaderIs
<1>3. Cat(h, t) \in Seq(Byte) /\ Len(Cat(h, t)) = 8 + Len(t)
  BY <1>2, ByteCat
<1> QED
  BY <1>1, <1>3 DEF Opening

LEMMA ParamsTyped ==
  ASSUME NEW s \in Starts
  PROVE  Params(s) \in Seq(Byte) /\ Len(Params(s)) + 9 \in Longs
<1>1. s.params \in Seq(Texts \X Texts) /\ Len(Params(s)) + 9 \in Longs
  BY ClientAssumption
<1>2. PICK ps \in Seq(Texts \X Texts) : ps = s.params
  BY <1>1
<1>3. PICK t : t = [i \in DOMAIN ps |-> Cat(Text(ps[i][1]), Text(ps[i][2]))]
  OBVIOUS
<1>4. Params(s) = FlattenSeq(t)
  BY <1>2, <1>3, Zenon DEF Params, Cat
<1>5. \A i \in 1..Len(ps) : Cat(Text(ps[i][1]), Text(ps[i][2])) \in Seq(Byte)
  <2> SUFFICES ASSUME NEW i \in 1..Len(ps)
               PROVE  Cat(Text(ps[i][1]), Text(ps[i][2])) \in Seq(Byte)
    OBVIOUS
  <2>1. ps[i][1] \in Texts /\ ps[i][2] \in Texts
    OBVIOUS
  <2>2. Text(ps[i][1]) \in Seq(Byte) /\ Text(ps[i][2]) \in Seq(Byte)
    BY <2>1, TextTyped
  <2> QED
    BY <2>2, ByteCat
<1>6. DOMAIN ps = 1..Len(ps) /\ Len(ps) \in Nat
  OBVIOUS
<1>7. DOMAIN t = 1..Len(ps) /\ \A i \in 1..Len(ps) : t[i] = Cat(Text(ps[i][1]), Text(ps[i][2]))
  BY <1>3, <1>6
<1>8. t = [i \in 1..Len(ps) |-> t[i]]
  BY <1>3, <1>6
<1>9. t \in Seq(Seq(Byte))
  BY <1>5, <1>6, <1>7, <1>8, Enumerated
<1> QED
  BY <1>1, <1>4, <1>9, FlattenTyped

LEMMA StartupOpens ==
  ASSUME NEW s \in Starts
  PROVE  \E l \in Longs : Opening(Startup(s), l, ProtocolVersion) /\ l >= 8
<1>1. PICK p \in Seq(Byte) : p = Params(s) /\ Len(p) + 9 \in Longs
  BY ParamsTyped
<1>2. PICK t \in Seq(Byte) : t = Append(p, 0) /\ Len(t) = Len(p) + 1
  <2>1. 0 \in Byte
    BY DEF Byte
  <2>2. Append(p, 0) \in Seq(Byte) /\ Len(Append(p, 0)) = Len(p) + 1
    BY <2>1
  <2> QED
    BY <2>2, Zenon
<1>3. PICK l \in Longs : l = Len(p) + 9
  BY <1>1
<1>4. Startup(s) = Cat(Header(l, ProtocolVersion), t)
  BY <1>1, <1>2, <1>3, Zenon DEF Startup, Cat
<1>5. ProtocolVersion \in Longs
  BY SMT DEF Longs, ProtocolVersion
<1>6. l >= 8 /\ l = 8 + Len(t)
  BY <1>1, <1>2, <1>3
<1> QED
  BY <1>4, <1>5, <1>6, OpeningOf

(* Only a request for SSL opens with its code.                             *)
LEMMA FirstOpens ==
  ASSUME NEW s \in Starts
  PROVE  /\ s.kind \in Kinds
         /\ \E l \in Longs, c \in Longs :
              Opening(FirstBytes(s), l, c) /\ (c = SSLCode <=> s.kind = "ssl")
<1>1. s.kind \in Kinds
  BY ConnectionAssumption
<1>2. SSLCode \in Longs /\ CancelCode \in Longs /\ ProtocolVersion \in Longs
  BY SMT DEF Longs, ProtocolVersion, SSLCode, CancelCode
<1>3. SSLCode # CancelCode /\ SSLCode # ProtocolVersion
  BY SMT DEF ProtocolVersion, SSLCode, CancelCode
<1>4. <<>> \in Seq(Byte) /\ Len(<<>>) = 0
  OBVIOUS
<1>5. CASE s.kind = "plain"
  <2>1. FirstBytes(s) = Startup(s)
    BY <1>5, Zenon DEF FirstBytes
  <2> QED
    BY <1>1, <1>2, <1>3, <1>5, <2>1, StartupOpens
<1>6. CASE s.kind = "ssl"
  <2>1. FirstBytes(s) = Header(8, SSLCode)
    BY <1>6, Zenon DEF FirstBytes
  <2>2. 8 \in Longs
    BY SMT DEF Longs
  <2>3. PICK h \in Seq(Byte) : h = Header(8, SSLCode)
    BY <1>2, <2>2, HeaderIs
  <2>4. FirstBytes(s) = Cat(Header(8, SSLCode), <<>>)
    BY <2>1, <2>3, CatEmpty
  <2>5. Opening(FirstBytes(s), 8, SSLCode)
    <3>1. PICK l \in Longs : l = 8 /\ (l >= 8 => l = 8 + Len(<<>>))
      BY <1>4, <2>2
    <3>2. FirstBytes(s) = Cat(Header(l, SSLCode), <<>>)
      BY <2>4, <3>1, Zenon
    <3>3. Opening(FirstBytes(s), l, SSLCode)
      BY <1>2, <1>4, <3>1, <3>2, OpeningOf, Zenon
    <3> QED
      BY <3>1, <3>3, Zenon
  <2> QED
    BY <1>1, <1>2, <1>6, <2>2, <2>5
<1>7. CASE s.kind = "cancel"
  <2>1. FirstBytes(s) = Cat(Cat(Header(16, CancelCode), BigEndian(7, 4)), BigEndian(9, 4))
    BY <1>7, Zenon DEF FirstBytes, Cat
  <2>2. 16 \in Longs /\ 7 \in Longs /\ 9 \in Longs
    BY SMT DEF Longs
  <2>3. PICK h \in Seq(Byte) : h = Header(16, CancelCode)
    BY <1>2, <2>2, HeaderIs
  <2>4. PICK x \in Seq(Byte) : x = BigEndian(7, 4)
    BY <2>2, BigEndianTyped
  <2>5. PICK y \in Seq(Byte) : y = BigEndian(9, 4)
    BY <2>2, BigEndianTyped
  <2>6. Len(x) = 4 /\ Len(y) = 4
    BY <2>2, <2>4, <2>5, BigEndianTyped
  <2>7. PICK t \in Seq(Byte) : t = Cat(x, y) /\ Len(t) = 8
    <3>1. Cat(x, y) \in Seq(Byte) /\ Len(Cat(x, y)) = Len(x) + Len(y)
      BY ByteCat
    <3>2. Len(Cat(x, y)) = 8
      BY <2>6, <3>1
    <3> QED
      BY <3>1, <3>2, Zenon
  <2>8. FirstBytes(s) = Cat(Header(16, CancelCode), t)
    <3>1. Cat(Cat(h, x), y) = Cat(h, Cat(x, y))
      BY CatAssociative
    <3> QED
      BY <2>1, <2>3, <2>4, <2>5, <2>7, <3>1
  <2>9. Opening(FirstBytes(s), 16, CancelCode)
    <3>1. PICK l \in Longs : l = 16 /\ (l >= 8 => l = 8 + Len(t))
      BY <1>4, <2>2, <2>7
    <3>2. FirstBytes(s) = Cat(Header(l, CancelCode), t)
      BY <2>8, <3>1, Zenon
    <3>3. Opening(FirstBytes(s), l, CancelCode)
      BY <1>2, <1>4, <3>1, <3>2, OpeningOf, Zenon
    <3> QED
      BY <3>1, <3>3, Zenon
  <2> QED
    BY <1>1, <1>2, <1>3, <1>7, <2>2, <2>9
<1>8. CASE s.kind = "probe"
  <2>1. FirstBytes(s) = Header(4, ProtocolVersion)
    BY <1>8, Zenon DEF FirstBytes
  <2>2. 4 \in Longs
    BY SMT DEF Longs
  <2>3. PICK h \in Seq(Byte) : h = Header(4, ProtocolVersion)
    BY <1>2, <2>2, HeaderIs
  <2>4. FirstBytes(s) = Cat(Header(4, ProtocolVersion), <<>>)
    BY <2>1, <2>3, CatEmpty
  <2>5. Opening(FirstBytes(s), 4, ProtocolVersion)
    <3>1. PICK l \in Longs : l = 4 /\ (l >= 8 => l = 8 + Len(<<>>))
      BY <1>4, <2>2
    <3>2. FirstBytes(s) = Cat(Header(l, ProtocolVersion), <<>>)
      BY <2>4, <3>1, Zenon
    <3>3. Opening(FirstBytes(s), l, ProtocolVersion)
      BY <1>2, <1>4, <3>1, <3>2, OpeningOf, Zenon
    <3> QED
      BY <3>1, <3>3, Zenon
  <2> QED
    BY <1>1, <1>2, <1>3, <1>8, <2>2, <2>5
<1> QED
  BY <1>1, <1>5, <1>6, <1>7, <1>8 DEF Kinds

(* What the server has still to read, had all of it arrived.               *)
Unread ==
  CASE phase = "probe" -> Cat(FirstBytes(start), Rest)
    [] phase = "denied" -> IF started THEN Cat(Startup(start), Rest) ELSE <<>>
    [] OTHER -> Rest

Seen(r) == [type |-> r.type, msg |-> r.msg]

Progress ==
  /\ start \in Starts /\ broken \in BOOLEAN /\ started \in BOOLEAN
  /\ phase \in {"probe", "denied", "serving", "closed"}
  /\ sent \in Seq(Requests) /\ wire \in Seq(Byte)
  /\ got \in Seq({Seen(r) : r \in Requests}) /\ Len(got) <= Len(sent)
  /\ \A i \in 1..Len(got) : got[i] = Seen(sent[i])
  /\ phase \in {"probe", "denied"} => got = <<>>
  /\ sent # <<>> => started /\ start.kind \in {"plain", "ssl"}
  /\ phase = "probe" => (started <=> start.kind # "ssl")
  /\ phase = "denied" => start.kind = "ssl"
  /\ failed \subseteq 1..Len(got)

Arrived ==
  phase # "closed" => Prefix(wire, Unread) /\ (~broken => Len(wire) = Len(Unread))

LEMMA RestTyped ==
  ASSUME Progress
  PROVE  /\ Len(got) \in Nat /\ Len(sent) \in Nat
         /\ Rest = After(sent, Len(got)) /\ Rest \in Seq(Byte)
         /\ sent = <<>> => Rest = <<>>
<1>1. Len(got) \in Nat /\ Len(sent) \in Nat /\ Len(got) <= Len(sent) /\ sent \in Seq(Requests)
  BY DEF Progress
<1>2. Rest = After(sent, Len(got))
  BY RestIs
<1>3. After(sent, Len(got)) \in Seq(Byte)
  BY <1>1, AfterTyped
<1>4. ASSUME sent = <<>> PROVE Rest = <<>>
  <2>1. Len(got) = Len(sent)
    BY <1>1, <1>4
  <2>2. After(sent, Len(got)) = <<>>
    BY <1>1, <2>1, AfterLast
  <2> QED
    BY <1>2, <2>2
<1> QED
  BY <1>1, <1>2, <1>3, <1>4

(* While the server starts it has the header of a start-up before it, with *)
(* what follows, or nothing.                                               *)
LEMMA BeforeStart ==
  ASSUME Progress, Arrived, Starting, Len(wire) >= 8
  PROVE  \E b, l, c :
           /\ Opening(b, l, c) /\ Prefix(wire, Cat(b, Rest))
           /\ Unread = Cat(b, Rest) /\ Length = l /\ Code = c
           /\ phase = "probe" => b = FirstBytes(start) /\ (c = SSLCode <=> start.kind = "ssl")
           /\ phase = "denied" => b = Startup(start)
<1>1. Rest \in Seq(Byte) /\ start \in Starts
  BY RestTyped DEF Progress
<1>2. ASSUME NEW b \in Seq(Byte), NEW l, NEW c, Opening(b, l, c), Unread = Cat(b, Rest)
      PROVE  Prefix(wire, Cat(b, Rest)) /\ Length = l /\ Code = c
  <2>1. Prefix(wire, Cat(b, Rest))
    BY <1>2 DEF Arrived, Starting
  <2>2. Number(wire, 1, 4).val = l /\ Number(wire, 5, 4).val = c
    BY <1>1, <1>2, <2>1, HeaderRead
  <2> QED
    BY <2>1, <2>2 DEF Length, Code
<1>3. CASE phase = "probe"
  <2>1. PICK l \in Longs, c \in Longs :
          Opening(FirstBytes(start), l, c) /\ (c = SSLCode <=> start.kind = "ssl")
    BY <1>1, FirstOpens
  <2>2. PICK b \in Seq(Byte) : b = FirstBytes(start)
    BY <2>1 DEF Opening
  <2>3. Unread = Cat(b, Rest)
    BY <1>3, <2>2 DEF Unread
  <2>4. phase # "denied"
    BY <1>3
  <2> QED
    BY <1>2, <2>1, <2>2, <2>3, <2>4
<1>4. CASE phase = "denied"
  <2>1. PICK l \in Longs : Opening(Startup(start), l, ProtocolVersion)
    BY <1>1, StartupOpens
  <2>2. PICK b \in Seq(Byte) : b = Startup(start)
    BY <2>1 DEF Opening
  <2>3. started
    <3> SUFFICES ASSUME ~started PROVE FALSE
      OBVIOUS
    <3>1. Unread = <<>>
      BY <1>4 DEF Unread
    <3>2. Prefix(wire, <<>>)
      BY <1>4, <3>1 DEF Arrived
    <3> QED
      BY <3>2 DEF Prefix
  <2>4. Unread = Cat(b, Rest)
    BY <1>4, <2>2, <2>3 DEF Unread
  <2>5. phase # "probe"
    BY <1>4
  <2> QED
    BY <1>2, <2>1, <2>2, <2>4, <2>5
<1> QED
  BY <1>3, <1>4 DEF Starting

LEMMA TypeBytes ==
  ASSUME NEW s \in DOMAIN TypeByte, NEW t \in DOMAIN TypeByte, TypeByte[s] = TypeByte[t]
  PROVE  s = t
  BY DEF TypeByte

(* The message that the server takes is the next one that was sent.        *)
LEMMA TakenIs ==
  ASSUME Progress, Arrived, NEW type \in DOMAIN TypeByte, NEW frame \in Taken(type)
  PROVE  \E m \in 1..Len(sent) :
           /\ m = Len(got) + 1 /\ sent[m] \in Requests /\ sent[m].type = type
           /\ frame.body = Body(sent[m]) /\ frame.next - 1 = Len(Encode(sent[m]))
           /\ phase = "serving" /\ Len(Encode(sent[m])) <= Len(wire)
           /\ Prefix(wire, Cat(Encode(sent[m]), After(sent, m)))
           /\ Rest = Cat(Encode(sent[m]), After(sent, m))
<1>1. /\ phase = "serving" /\ wire # <<>> /\ wire[1] = TypeByte[type]
      /\ frame = ReadMessage(wire, 1) /\ frame.next # 0
  BY DEF Taken
<1>2. /\ Len(got) \in Nat /\ Len(sent) \in Nat /\ Len(got) <= Len(sent)
      /\ Rest = After(sent, Len(got)) /\ sent \in Seq(Requests)
  BY RestTyped DEF Progress
<1>3. Prefix(wire, Rest)
  BY <1>1 DEF Arrived, Unread
<1>4. Len(got) # Len(sent)
  <2> SUFFICES ASSUME Len(got) = Len(sent) PROVE FALSE
    OBVIOUS
  <2>1. Rest = <<>>
    BY <1>2, AfterLast
  <2>2. Prefix(wire, <<>>)
    BY <1>3, <2>1
  <2> QED
    BY <1>1, <2>2 DEF Prefix
<1>5. PICK m \in 1..Len(sent) : m = Len(got) + 1
  BY <1>2, <1>4
<1>6. PICK r \in Requests : r = sent[m]
  BY <1>2
<1>7. Rest = Cat(Encode(r), After(sent, m)) /\ After(sent, m) \in Seq(Byte)
  BY <1>2, <1>5, <1>6, AfterNext
<1>8. /\ r.type \in DOMAIN TypeByte
      /\ TypeByte[r.type] \in Byte /\ Body(r) \in Seq(Byte) /\ Len(Body(r)) + 4 \in Longs
      /\ Encode(r) = Frame(TypeByte[r.type], Body(r)) /\ Encode(r) \in Seq(Byte)
  BY RequestRead
<1>9. PICK c \in Byte, b \in Seq(Byte), rest \in Seq(Byte) :
        c = TypeByte[r.type] /\ b = Body(r) /\ rest = After(sent, m)
  BY <1>7, <1>8
<1>10. Prefix(wire, Cat(Frame(c, b), rest)) /\ Len(b) + 4 \in Longs
  BY <1>3, <1>7, <1>8, <1>9
<1>11. wire[1] = c /\ Len(Frame(c, b)) <= Len(wire)
       /\ ReadMessage(wire, 1) = [type |-> c, body |-> b, next |-> 1 + Len(Frame(c, b))]
  BY <1>1, <1>10, FrameRead
<1>12. r.type = type
  BY <1>1, <1>8, <1>9, <1>11, TypeBytes
<1>13. frame.body = b /\ frame.next = 1 + Len(Frame(c, b))
  BY <1>1, <1>11
<1>14. Frame(c, b) = Encode(r) /\ Len(Encode(r)) \in Nat
  BY <1>8, <1>9
<1>15. frame.next - 1 = Len(Encode(r))
  BY <1>13, <1>14
<1> QED
  BY <1>1, <1>5, <1>6, <1>7, <1>9, <1>10, <1>11, <1>12, <1>13, <1>14, <1>15

LEMMA EmptyBytes == <<>> \in Seq(Byte) /\ Len(<<>>) = 0
  BY EmptySeq

LEMMA StartBytes ==
  ASSUME NEW s \in Starts
  PROVE  FirstBytes(s) \in Seq(Byte) /\ Startup(s) \in Seq(Byte)
<1>1. FirstBytes(s) \in Seq(Byte)
  BY FirstOpens DEF Opening
<1>2. Startup(s) \in Seq(Byte)
  BY StartupOpens DEF Opening
<1> QED
  BY <1>1, <1>2

LEMMA PrefixSelf ==
  ASSUME NEW w \in Seq(Byte)
  PROVE  Prefix(w, w)
  BY DEF Prefix

(* A stream that was not cut off is all of what was sent.                  *)
LEMMA PrefixWhole ==
  ASSUME NEW w, NEW t, Prefix(w, t), Len(w) = Len(t)
  PROVE  w = t
<1>1. w \in Seq(Byte) /\ t \in Seq(Byte) /\ \A i \in 1..Len(w) : w[i] = t[i]
  BY DEF Prefix
<1> QED
  BY <1>1, SeqEqual

LEMMA UnreadTyped ==
  ASSUME Progress
  PROVE  Unread \in Seq(Byte)
<1>1. Rest \in Seq(Byte) /\ start \in Starts
  BY RestTyped DEF Progress
<1>2. FirstBytes(start) \in Seq(Byte) /\ Startup(start) \in Seq(Byte)
  BY <1>1, StartBytes
<1>3. Cat(FirstBytes(start), Rest) \in Seq(Byte) /\ Cat(Startup(start), Rest) \in Seq(Byte)
  BY <1>1, <1>2, ByteCat
<1> QED
  BY <1>1, <1>3, EmptyBytes DEF Unread

LEMMA ArrivedInit ==
  ASSUME Init
  PROVE  Progress /\ Arrived
<1>1. /\ start \in Starts /\ wire = FirstBytes(start) /\ broken = FALSE /\ phase = "probe"
      /\ started = (start.kind # "ssl") /\ sent = <<>> /\ got = <<>> /\ failed = {}
  BY DEF Init
<1>2. wire \in Seq(Byte)
  BY <1>1, StartBytes
<1>3. sent \in Seq(Requests) /\ got \in Seq({Seen(r) : r \in Requests})
      /\ Len(got) = 0 /\ Len(sent) = 0
  BY <1>1, EmptySeq
<1>4. Progress
  <2>1. started \in BOOLEAN /\ (started <=> start.kind # "ssl")
    BY <1>1, Zenon
  <2>2. \A i \in 1..Len(got) : got[i] = Seen(sent[i])
    BY <1>3
  <2>3. broken \in BOOLEAN /\ phase = "probe" /\ got = <<>> /\ sent = <<>> /\ failed = {}
    BY <1>1
  <2>4. Len(got) <= Len(sent)
    BY <1>3
  <2> QED
    BY <1>1, <1>2, <1>3, <2>1, <2>2, <2>3, <2>4 DEF Progress
<1>5. Rest = <<>>
  BY <1>1, <1>4, RestTyped
<1>6. Unread = Cat(FirstBytes(start), <<>>)
  BY <1>1, <1>5 DEF Unread
<1>7. Unread = wire
  BY <1>1, <1>2, <1>6, CatEmpty
<1>8. Arrived
  BY <1>2, <1>7, PrefixSelf DEF Arrived
<1> QED
  BY <1>4, <1>8

LEMMA ArrivedSendStartup ==
  ASSUME Progress, Arrived, SendStartup
  PROVE  Progress' /\ Arrived'
<1>1. /\ phase = "denied" /\ ~started /\ ~broken /\ started' = TRUE
      /\ wire' = Cat(wire, Startup(start))
      /\ UNCHANGED <<start, broken, phase, sent, got, failed>>
  BY Zenon DEF SendStartup, Cat
<1>2. start \in Starts /\ start' \in Starts /\ wire \in Seq(Byte)
  BY <1>1 DEF Progress
<1>3. wire = <<>>
  <2>1. Unread = <<>>
    BY <1>1 DEF Unread
  <2>2. Prefix(wire, <<>>) /\ Len(wire) = Len(<<>>)
    BY <1>1, <2>1 DEF Arrived
  <2> QED
    BY <2>2, PrefixWhole
<1>4. Startup(start) \in Seq(Byte)
  BY <1>2, StartBytes
<1>5. wire' = Startup(start)
  <2>1. wire' = Cat(<<>>, Startup(start))
    BY <1>1, <1>3, Zenon
  <2> QED
    BY <2>1, <1>4, CatEmpty
<1>6. sent = <<>>
  BY <1>1 DEF Progress
<1>7. Rest' = <<>>
  <2>1. Rest = <<>>
    BY <1>6, RestTyped
  <2>2. Rest' = Rest
    BY <1>1, Zenon DEF Rest
  <2> QED
    BY <2>1, <2>2
<1>8. Progress'
  BY <1>1, <1>2, <1>4, <1>5 DEF Progress
<1>9. Unread' = Cat(Startup(start), <<>>)
  <2>1. Startup(start)' = Startup(start)
    BY <1>1, Zenon DEF Startup, Params
  <2>2. phase' = "denied" /\ started'
    BY <1>1
  <2> QED
    BY <1>7, <2>1, <2>2 DEF Unread
<1>10. Unread' = wire'
  BY <1>4, <1>5, <1>9, CatEmpty
<1>11. Prefix(wire', Unread') /\ Len(wire') = Len(Unread')
  BY <1>4, <1>5, <1>10, PrefixSelf
<1> QED
  BY <1>8, <1>11 DEF Arrived

LEMMA ArrivedSend ==
  ASSUME Progress, Arrived, NEW r \in Requests, Send(r)
  PROVE  Progress' /\ Arrived'
<1>1. /\ started /\ start.kind \in {"plain", "ssl"} /\ ~broken
      /\ sent' = Append(sent, r) /\ wire' = Cat(wire, Encode(r))
      /\ UNCHANGED <<start, broken, phase, started, got, failed>>
  BY Zenon DEF Send, Cat
<1>2. /\ start \in Starts /\ wire \in Seq(Byte) /\ sent \in Seq(Requests)
      /\ Len(got) \in Nat /\ Len(got) <= Len(sent) /\ Len(sent) \in Nat /\ Rest \in Seq(Byte)
      /\ Rest = After(sent, Len(got))
  BY RestTyped DEF Progress
<1>3. Encode(r) \in Seq(Byte)
  BY RequestRead
<1>4. /\ sent' \in Seq(Requests) /\ Len(sent') = Len(sent) + 1
      /\ \A i \in 1..Len(sent) : sent'[i] = sent[i]
  BY <1>1, <1>2
<1>5. wire' \in Seq(Byte)
  BY <1>1, <1>2, <1>3, ByteCat
<1>6. Progress'
  <2>1. \A i \in 1..Len(got) : got'[i] = Seen(sent'[i])
    <3>1. \A i \in 1..Len(got) : got[i] = Seen(sent[i]) /\ sent'[i] = sent[i]
      BY <1>2, <1>4 DEF Progress
    <3> QED
      BY <1>1, <3>1
  <2>2. Len(got') <= Len(sent')
    BY <1>1, <1>2, <1>4
  <2> QED
    BY <1>1, <1>4, <1>5, <2>1, <2>2 DEF Progress
<1>7. Rest' = Cat(Rest, Encode(r))
  <2>1. Rest' = After(Append(sent, r), Len(got))
    BY <1>1, Zenon DEF Rest, After
  <2> QED
    BY <1>2, <2>1, AfterAppend
<1>8. FirstBytes(start) \in Seq(Byte) /\ Startup(start) \in Seq(Byte)
  BY <1>2, StartBytes
<1>9. Unread' = Cat(Unread, Encode(r))
  <2>0. FirstBytes(start)' = FirstBytes(start) /\ Startup(start)' = Startup(start)
    BY <1>1, Zenon DEF FirstBytes, Startup, Params
  <2>1. CASE phase = "probe"
    <3>1. Unread' = Cat(FirstBytes(start), Cat(Rest, Encode(r)))
      BY <1>1, <1>7, <2>0, <2>1 DEF Unread
    <3>2. Unread = Cat(FirstBytes(start), Rest)
      BY <2>1 DEF Unread
    <3> QED
      BY <1>2, <1>3, <1>8, <3>1, <3>2, CatAssociative
  <2>2. CASE phase = "denied"
    <3>1. Unread' = Cat(Startup(start), Cat(Rest, Encode(r)))
      BY <1>1, <1>7, <2>0, <2>2 DEF Unread
    <3>2. Unread = Cat(Startup(start), Rest)
      BY <1>1, <2>2 DEF Unread
    <3> QED
      BY <1>2, <1>3, <1>8, <3>1, <3>2, CatAssociative
  <2>3. CASE phase \notin {"probe", "denied"}
    BY <1>1, <1>7, <2>3 DEF Unread
  <2> QED
    BY <2>1, <2>2, <2>3
<1>10. ASSUME phase' # "closed" PROVE Prefix(wire', Unread') /\ Len(wire') = Len(Unread')
  <2>1. Prefix(wire, Unread) /\ Len(wire) = Len(Unread)
    BY <1>1, <1>10 DEF Arrived
  <2>2. wire = Unread
    BY <2>1, PrefixWhole
  <2>3. wire' = Unread'
    BY <1>1, <1>9, <2>2
  <2> QED
    BY <1>5, <2>3, PrefixSelf
<1> QED
  BY <1>6, <1>10 DEF Arrived

LEMMA ArrivedBreak ==
  ASSUME Progress, Arrived, NEW k \in 0..Len(wire), Break(k)
  PROVE  Progress' /\ Arrived'
<1>1. /\ broken' = TRUE /\ wire' = SubSeq(wire, 1, k)
      /\ UNCHANGED <<start, phase, started, sent, got, failed>>
  BY DEF Break
<1>2. /\ wire \in Seq(Byte) /\ wire' \in Seq(Byte) /\ Len(wire') = k /\ k <= Len(wire)
      /\ \A i \in 1..k : wire'[i] = wire[i]
  <2>1. wire \in Seq(Byte)
    BY DEF Progress
  <2> QED
    BY <1>1, <2>1
<1>3. Progress'
  BY <1>1, <1>2 DEF Progress
<1>4. Unread' = Unread
  BY <1>1, Zenon DEF Unread, FirstBytes, Startup, Params, Rest
<1>5. ASSUME phase' # "closed" PROVE Prefix(wire', Unread')
  <2>1. Prefix(wire, Unread)
    BY <1>1, <1>5 DEF Arrived
  <2>2. /\ Unread \in Seq(Byte) /\ Len(wire) <= Len(Unread) /\ Len(wire) \in Nat
        /\ Len(Unread) \in Nat
        /\ \A i \in 1..Len(wire) : wire[i] = Unread[i]
    BY <2>1 DEF Prefix
  <2>3. \A i \in 1..Len(wire') : wire'[i] = Unread[i]
    BY <1>2, <2>2
  <2>4. Prefix(wire', Unread)
    BY <1>2, <2>2, <2>3 DEF Prefix
  <2> QED
    BY <1>4, <2>4
<1> QED
  BY <1>1, <1>3, <1>5 DEF Arrived

LEMMA ArrivedDenySSL ==
  ASSUME Progress, Arrived, DenySSL
  PROVE  Progress' /\ Arrived'
<1>1. /\ phase = "probe" /\ Len(wire) >= 8 /\ Code = SSLCode /\ phase' = "denied"
      /\ wire' = SubSeq(wire, 9, Len(wire))
      /\ UNCHANGED <<start, broken, started, sent, got, failed>>
  BY DEF DenySSL, Consume
<1>2. start \in Starts /\ wire \in Seq(Byte) /\ sent \in Seq(Requests)
  BY DEF Progress
<1>3. PICK b, l, c :
           /\ Opening(b, l, c) /\ Prefix(wire, Cat(b, Rest))
           /\ Unread = Cat(b, Rest) /\ Length = l /\ Code = c
           /\ phase = "probe" => b = FirstBytes(start) /\ (c = SSLCode <=> start.kind = "ssl")
  BY <1>1, BeforeStart DEF Starting
<1>4. start.kind = "ssl" /\ b = FirstBytes(start)
  BY <1>1, <1>3
<1>b. b \in Seq(Byte)
  BY <1>3, Zenon DEF Opening
<1>5. ~started /\ sent = <<>>
  BY <1>1, <1>4 DEF Progress
<1>6. Rest = <<>>
  BY <1>5, RestTyped
<1>7. b = Header(8, SSLCode)
  BY <1>4, Zenon DEF FirstBytes
<1>8. Len(b) = 8
  <2>1. 8 \in Longs /\ SSLCode \in Longs
    BY SMT DEF Longs, SSLCode
  <2> QED
    BY <1>7, <2>1, HeaderIs
<1>9. Prefix(wire, b)
  BY <1>3, <1>6, <1>b, CatEmpty
<1>10. Len(wire) = 8
  <2>1. Len(wire) <= Len(b) /\ Len(wire) \in Nat
    BY <1>2, <1>9 DEF Prefix
  <2>2. Len(wire) >= 8
    BY <1>1
  <2>3. PICK n \in Nat : n = Len(wire)
    BY <2>1
  <2>4. n <= 8 /\ n >= 8
    BY <1>8, <2>1, <2>2, <2>3
  <2> QED
    BY <2>3, <2>4
<1>11. wire' = <<>>
  BY <1>1, <1>2, <1>10
<1>12. Progress'
  <2>1. wire' \in Seq(Byte)
    BY <1>11, EmptyBytes
  <2> QED
    BY <1>1, <1>4, <2>1 DEF Progress
<1>13. Unread' = <<>>
  BY <1>1, <1>5 DEF Unread
<1>14. Prefix(wire', Unread') /\ Len(wire') = Len(Unread')
  BY <1>11, <1>13, EmptyBytes, PrefixSelf
<1> QED
  BY <1>12, <1>14 DEF Arrived

LEMMA ArrivedAccept ==
  ASSUME Progress, Arrived, Accept
  PROVE  Progress' /\ Arrived'
<1>1. /\ Starting /\ Len(wire) >= 8 /\ Len(wire) >= Length /\ Length >= 8
      /\ wire' = SubSeq(wire, Length + 1, Len(wire)) /\ phase' = "serving"
      /\ UNCHANGED <<start, broken, started, sent, got, failed>>
  BY DEF Accept, Consume
<1>2. /\ wire \in Seq(Byte) /\ Rest \in Seq(Byte) /\ got = <<>>
  BY <1>1, RestTyped DEF Progress, Starting
<1>3. PICK b, l, c :
           /\ Opening(b, l, c) /\ Prefix(wire, Cat(b, Rest))
           /\ Unread = Cat(b, Rest) /\ Length = l /\ Code = c
           /\ phase = "probe" => b = FirstBytes(start) /\ (c = SSLCode <=> start.kind = "ssl")
  BY <1>1, BeforeStart
<1>4. Len(b) = Length /\ Len(b) <= Len(wire)
  BY <1>1, <1>3 DEF Opening
<1>b. b \in Seq(Byte)
  BY <1>3, Zenon DEF Opening
<1>5. wire' = SubSeq(wire, Len(b) + 1, Len(wire))
  BY <1>1, <1>4
<1>6. Stream(wire', Rest, broken)
  <2>1. PICK w, u, cut : w = wire /\ u = wire' /\ cut = broken
    OBVIOUS
  <2>2. PICK rest \in Seq(Byte) : rest = Rest
    BY <1>2
  <2>3. Prefix(w, Cat(b, rest)) /\ (cut # TRUE => Len(w) = Len(Cat(b, rest)))
    BY <1>1, <1>3, <2>1, <2>2 DEF Arrived, Starting, Progress
  <2>4. Stream(w, Cat(b, rest), cut)
    BY <2>3 DEF Stream
  <2>5. Len(b) <= Len(w) /\ u = SubSeq(w, Len(b) + 1, Len(w))
    BY <1>4, <1>5, <2>1
  <2>6. Stream(u, rest, cut)
    BY <1>b, <2>4, <2>5, StreamTail
  <2> QED
    BY <2>1, <2>2, <2>6
<1>7. Progress'
  <2>1. wire' \in Seq(Byte)
    BY <1>6 DEF Stream, Prefix
  <2> QED
    BY <1>1, <2>1 DEF Progress
<1>8. Unread' = Rest
  <2>1. Rest' = Rest
    BY <1>1, Zenon DEF Rest
  <2> QED
    BY <1>1, <2>1 DEF Unread
<1>9. Prefix(wire', Unread') /\ (~broken' => Len(wire') = Len(Unread'))
  BY <1>1, <1>6, <1>8 DEF Stream
<1> QED
  BY <1>7, <1>9 DEF Arrived

LEMMA ArrivedClose ==
  ASSUME Progress, Close
  PROVE  Progress' /\ Arrived'
<1>1. phase' = "closed" /\ UNCHANGED <<start, wire, broken, started, sent, got, failed>>
  BY DEF Close
<1>2. Progress'
  BY <1>1 DEF Progress
<1> QED
  BY <1>1, <1>2 DEF Arrived

LEMMA ArrivedTook ==
  ASSUME NEW type, NEW frame, NEW msg, NEW bytes,
         Progress, Arrived, type \in DOMAIN TypeByte, frame \in Taken(type),
         Took(frame, type, msg, bytes),
         failed' \subseteq failed \cup {Len(got) + 1},
         \A r \in Requests : r.type = type /\ frame.body = Body(r) => msg = r.msg
  PROVE  Progress' /\ Arrived'
<1>1. /\ got' = Append(got, [type |-> type, msg |-> msg])
      /\ wire' = SubSeq(wire, (frame.next - 1) + 1, Len(wire))
      /\ UNCHANGED <<start, broken, phase, started, sent>>
  BY DEF Took, Consume
<1>2. PICK m \in 1..Len(sent) :
           /\ m = Len(got) + 1 /\ sent[m] \in Requests /\ sent[m].type = type
           /\ frame.body = Body(sent[m]) /\ frame.next - 1 = Len(Encode(sent[m]))
           /\ phase = "serving" /\ Len(Encode(sent[m])) <= Len(wire)
           /\ Prefix(wire, Cat(Encode(sent[m]), After(sent, m)))
           /\ Rest = Cat(Encode(sent[m]), After(sent, m))
  BY TakenIs
<1>3. /\ sent \in Seq(Requests) /\ Len(sent) \in Nat /\ Len(got) \in Nat
      /\ got \in Seq({Seen(r) : r \in Requests})
  BY RestTyped DEF Progress
<1>4. PICK e \in Seq(Byte), rest \in Seq(Byte) : e = Encode(sent[m]) /\ rest = After(sent, m)
  <2>1. Encode(sent[m]) \in Seq(Byte)
    BY <1>2, RequestRead
  <2>2. m <= Len(sent) /\ m \in Nat
    BY <1>3
  <2>3. After(sent, m) \in Seq(Byte)
    BY <1>3, <2>2, AfterTyped
  <2> QED
    BY <2>1, <2>3
<1>5. wire' = SubSeq(wire, Len(e) + 1, Len(wire))
  BY <1>1, <1>2, <1>4
<1>6. Unread = Rest
  BY <1>2 DEF Unread
<1>7. Stream(wire', rest, broken)
  <2>1. PICK w, u, cut : w = wire /\ u = wire' /\ cut = broken
    OBVIOUS
  <2>2. Prefix(w, Cat(e, rest)) /\ (cut # TRUE => Len(w) = Len(Cat(e, rest)))
    BY <1>2, <1>4, <1>6, <2>1 DEF Arrived, Progress
  <2>3. Stream(w, Cat(e, rest), cut)
    BY <2>2 DEF Stream
  <2>4. Len(e) <= Len(w) /\ u = SubSeq(w, Len(e) + 1, Len(w))
    BY <1>2, <1>4, <1>5, <2>1
  <2>5. Stream(u, rest, cut)
    BY <2>3, <2>4, StreamTail
  <2> QED
    BY <2>1, <2>5
<1>8. [type |-> type, msg |-> msg] = Seen(sent[m])
  <2>1. msg = sent[m].msg
    BY <1>2
  <2> QED
    BY <1>2, <2>1 DEF Seen
<1>9. got' = Append(got, Seen(sent[m])) /\ Seen(sent[m]) \in {Seen(r) : r \in Requests}
  BY <1>1, <1>2, <1>8
<1>10. /\ got' \in Seq({Seen(r) : r \in Requests}) /\ Len(got') = m
      /\ \A i \in 1..Len(got) : got'[i] = got[i]
  <2> HIDE DEF Seen
  <2> QED
    BY <1>2, <1>3, <1>9
<1>11. got'[m] = Seen(sent[m])
  <2> HIDE DEF Seen
  <2> QED
    BY <1>2, <1>3, <1>9
<1>12. Progress'
  <2>1. wire' \in Seq(Byte)
    BY <1>7 DEF Stream, Prefix
  <2>2. \A i \in 1..Len(got') : got'[i] = Seen(sent'[i])
    <3>1. \A i \in 1..Len(got) : got[i] = Seen(sent[i])
      BY DEF Progress
    <3>2. \A i \in 1..m : i = m \/ i \in 1..Len(got)
      BY <1>2, <1>3
    <3>3. ASSUME NEW i \in 1..m PROVE got'[i] = Seen(sent[i])
      <4>1. CASE i = m
        BY <1>11, <4>1, Zenon
      <4>2. CASE i \in 1..Len(got)
        BY <1>10, <3>1, <4>2
      <4> QED
        BY <3>2, <4>1, <4>2
    <3>4. sent' = sent /\ Len(got') = m
      BY <1>1, <1>10
    <3> QED
      BY <3>3, <3>4, Zenon
  <2>3. Len(got') <= Len(sent')
    BY <1>1, <1>3, <1>10
  <2>4. failed' \subseteq 1..Len(got')
    <3>1. failed \subseteq 1..Len(got)
      BY DEF Progress
    <3>2. failed' \subseteq failed \cup {m}
      BY <1>2
    <3>3. m \in 1..Len(got') /\ 1..Len(got) \subseteq 1..Len(got')
      BY <1>2, <1>3, <1>10
    <3> QED
      BY <3>1, <3>2, <3>3
  <2>5. phase' \notin {"probe", "denied"}
    BY <1>1, <1>2
  <2> QED
    BY <1>1, <1>10, <2>1, <2>2, <2>3, <2>4, <2>5 DEF Progress
<1>13. Unread' = rest
  <2>1. Rest' = After(sent, m)
    <3>1. Rest' = After(sent, Len(got'))
      BY <1>1, Zenon DEF Rest, After
    <3> QED
      BY <1>10, <3>1
  <2>2. phase = "serving" /\ phase' = "serving"
    BY <1>1, <1>2
  <2> QED
    BY <1>4, <2>1, <2>2 DEF Unread
<1>14. Prefix(wire', Unread') /\ (~broken' => Len(wire') = Len(Unread'))
  BY <1>1, <1>7, <1>13 DEF Stream
<1> QED
  BY <1>12, <1>14 DEF Arrived

(* What the server makes of the body of a message of a type is what the    *)
(* client put into it.                                                     *)
LEMMA BodiesRead ==
  ASSUME NEW r \in Requests
  PROVE  /\ r.type = "query" => ParseQuery(Body(r)) = r.msg
         /\ r.type = "parse" => ParseParse(Body(r)) = r.msg
         /\ r.type = "bind" => ParseBind(Body(r)) = r.msg
         /\ r.type = "execute" => ParseExecute(Body(r)) = r.msg
         /\ r.type = "describe" => ParseDescribe(Body(r)) = r.msg
         /\ r.type = "close" => ParseClose(Body(r)) = r.msg
         /\ r.type \in Bodyless => r.msg = Nothing
<1>1. r.msg \in Content(r.type) /\ Countable(r)
  BY RequestRead
<1>2. r.type = "query" => ParseQuery(Body(r)) = r.msg
  BY <1>1, QueryBody
<1>3. r.type = "parse" => ParseParse(Body(r)) = r.msg
  BY <1>1, ParseBody
<1>4. r.type = "bind" => ParseBind(Body(r)) = r.msg
  BY <1>1, BindBody
<1>5. r.type = "execute" => ParseExecute(Body(r)) = r.msg
  BY <1>1, ExecuteBody
<1>6. r.type = "describe" => ParseDescribe(Body(r)) = r.msg
  BY <1>1, KindBody
<1>7. r.type = "close" => ParseClose(Body(r)) = r.msg
  BY <1>1, KindBody
<1>8. r.type \in Bodyless => r.msg = Nothing
  BY <1>1, NoBody
<1> QED
  BY <1>2, <1>3, <1>4, <1>5, <1>6, <1>7, <1>8

(* A handler that reads what was sent, whether it succeeds or not.         *)
LEMMA ArrivedHandled ==
  ASSUME NEW type, NEW frame, NEW msg, NEW bytes,
         Progress, Arrived, type \in DOMAIN TypeByte, frame \in Taken(type),
         Works(frame, type, msg, bytes) \/ Refused(frame, type, msg),
         \A r \in Requests : r.type = type /\ frame.body = Body(r) => msg = r.msg
  PROVE  Progress' /\ Arrived'
<1>1. CASE Works(frame, type, msg, bytes)
  <2>1. Took(frame, type, msg, bytes) /\ failed' \subseteq failed \cup {Len(got) + 1}
    BY <1>1 DEF Works
  <2> QED
    BY <2>1, ArrivedTook
<1>2. CASE Refused(frame, type, msg)
  <2>1. PICK error, ready : Took(frame, type, msg, error \o ready)
    BY <1>2, Zenon DEF Refused
  <2>2. PICK sentBack : Took(frame, type, msg, sentBack)
    BY <2>1, Zenon
  <2>3. failed' \subseteq failed \cup {Len(got) + 1}
    BY <1>2 DEF Refused
  <2> QED
    BY <2>2, <2>3, ArrivedTook
<1> QED
  BY <1>1, <1>2

LEMMA ArrivedQuery ==
  ASSUME Progress, Arrived, HandleSimpleQuery
  PROVE  Progress' /\ Arrived'
<1>1. PICK frame \in Taken("query") : \E query \in {ParseQuery(frame.body)} :
          \/ \E result \in Results, ready \in Ready :
               Works(frame, "query", query,
                     result \o (IF Deallocates(query.string) THEN <<>> ELSE ready))
          \/ Refused(frame, "query", query)
  BY Zenon DEF HandleSimpleQuery
<1>2. PICK bytes : Works(frame, "query", ParseQuery(frame.body), bytes)
                     \/ Refused(frame, "query", ParseQuery(frame.body))
  BY <1>1, Zenon
<1>3. \A r \in Requests : r.type = "query" /\ frame.body = Body(r) => ParseQuery(frame.body) = r.msg
  BY BodiesRead, Zenon
<1>4. "query" \in DOMAIN TypeByte
  BY DEF TypeByte
<1> QED
  BY <1>2, <1>3, <1>4, ArrivedHandled

LEMMA ArrivedParse ==
  ASSUME Progress, Arrived, HandleParse
  PROVE  Progress' /\ Arrived'
<1>1. PICK frame \in Taken("parse") : Works(frame, "parse", ParseParse(frame.body), SendParseComplete)
  BY Zenon DEF HandleParse
<1>2. \A r \in Requests : r.type = "parse" /\ frame.body = Body(r) => ParseParse(frame.body) = r.msg
  BY BodiesRead, Zenon
<1>3. "parse" \in DOMAIN TypeByte
  BY DEF TypeByte
<1> QED
  BY <1>1, <1>2, <1>3, ArrivedHandled

LEMMA ArrivedBind ==
  ASSUME Progress, Arrived, HandleBind
  PROVE  Progress' /\ Arrived'
<1>1. PICK frame \in Taken("bind") :
        Works(frame, "bind", ParseBind(frame.body), SendBindComplete)
          \/ Refused(frame, "bind", ParseBind(frame.body))
  BY Zenon DEF HandleBind
<1>2. \A r \in Requests : r.type = "bind" /\ frame.body = Body(r) => ParseBind(frame.body) = r.msg
  BY BodiesRead, Zenon
<1>3. "bind" \in DOMAIN TypeByte
  BY DEF TypeByte
<1> QED
  BY <1>1, <1>2, <1>3, ArrivedHandled

LEMMA ArrivedExecute ==
  ASSUME Progress, Arrived, HandleExecute
  PROVE  Progress' /\ Arrived'
<1>1. PICK frame \in Taken("execute") :
        Works(frame, "execute", ParseExecute(frame.body), SendCommandComplete(<<79>>))
          \/ Refused(frame, "execute", ParseExecute(frame.body))
  BY Zenon DEF HandleExecute
<1>2. \A r \in Requests :
        r.type = "execute" /\ frame.body = Body(r) => ParseExecute(frame.body) = r.msg
  BY BodiesRead, Zenon
<1>3. "execute" \in DOMAIN TypeByte
  BY DEF TypeByte
<1> QED
  BY <1>1, <1>2, <1>3, ArrivedHandled

LEMMA ArrivedDescribe ==
  ASSUME Progress, Arrived, HandleDescribe
  PROVE  Progress' /\ Arrived'
<1>1. PICK frame \in Taken("describe") : \E describe \in {ParseDescribe(frame.body)} :
        \/ Works(frame, "describe", describe, SendParameterDescription(<<25>>) \o SendNoData)
        \/ Refused(frame, "describe", describe)
  BY Zenon DEF HandleDescribe
<1>2. PICK bytes : Works(frame, "describe", ParseDescribe(frame.body), bytes)
                     \/ Refused(frame, "describe", ParseDescribe(frame.body))
  BY <1>1, Zenon
<1>3. \A r \in Requests :
        r.type = "describe" /\ frame.body = Body(r) => ParseDescribe(frame.body) = r.msg
  BY BodiesRead, Zenon
<1>4. "describe" \in DOMAIN TypeByte
  BY DEF TypeByte
<1> QED
  BY <1>2, <1>3, <1>4, ArrivedHandled

LEMMA ArrivedHandleClose ==
  ASSUME Progress, Arrived, HandleClose
  PROVE  Progress' /\ Arrived'
<1>1. PICK frame \in Taken("close") : Works(frame, "close", ParseClose(frame.body), SendCloseComplete)
  BY Zenon DEF HandleClose
<1>2. \A r \in Requests : r.type = "close" /\ frame.body = Body(r) => ParseClose(frame.body) = r.msg
  BY BodiesRead, Zenon
<1>3. "close" \in DOMAIN TypeByte
  BY DEF TypeByte
<1> QED
  BY <1>1, <1>2, <1>3, ArrivedHandled

(* Sync and the messages that are ignored.                                 *)
LEMMA ArrivedBodyless ==
  ASSUME Progress, Arrived, HandleSync \/ Ignore
  PROVE  Progress' /\ Arrived'
<1>1. PICK type \in Bodyless : \E frame \in Taken(type), bytes \in Ready \cup {<<>>} :
        Works(frame, type, Nothing, bytes)
  <2>1. CASE HandleSync
    <3>1. "sync" \in Bodyless
      BY DEF Bodyless
    <3> QED
      BY <2>1, <3>1, Zenon DEF HandleSync
  <2>2. CASE Ignore
    <3>1. PICK type \in {"flush", "password", "terminate", "other"} :
            \E frame \in Taken(type) : Works(frame, type, Nothing, <<>>)
      BY <2>2, Zenon DEF Ignore
    <3>2. type \in Bodyless
      BY <3>1 DEF Bodyless
    <3> QED
      BY <3>1, <3>2, Zenon
  <2> QED
    BY <2>1, <2>2
<1>2. PICK frame \in Taken(type), bytes \in Ready \cup {<<>>} : Works(frame, type, Nothing, bytes)
  BY <1>1, Zenon
<1>3. \A r \in Requests : r.type = type /\ frame.body = Body(r) => Nothing = r.msg
  BY BodiesRead, Zenon
<1>4. type \in DOMAIN TypeByte
  BY DEF Bodyless, TypeByte
<1> QED
  BY <1>2, <1>3, <1>4, ArrivedHandled

LEMMA ArrivedNext ==
  ASSUME Progress, Arrived, [Next]_vars
  PROVE  Progress' /\ Arrived'
<1>1. CASE UNCHANGED vars
  <2>1. UNCHANGED <<start, wire, broken, phase, started, sent, got, failed>>
    BY <1>1 DEF vars
  <2>2. Progress'
    BY <2>1 DEF Progress
  <2>3. Unread' = Unread
    BY <2>1, Zenon DEF Unread, FirstBytes, Startup, Params, Rest
  <2> QED
    BY <2>1, <2>2, <2>3 DEF Arrived
<1>2. CASE \E r \in Requests : Send(r)
  BY <1>2, ArrivedSend
<1>3. CASE \E k \in 0..Len(wire) : Break(k)
  BY <1>3, ArrivedBreak
<1>4. CASE Reject \/ HangUp
  <2>1. Close
    BY <1>4 DEF Reject, HangUp
  <2> QED
    BY <2>1, ArrivedClose
<1>5. CASE SendStartup \/ DenySSL \/ Accept
  BY <1>5, ArrivedSendStartup, ArrivedDenySSL, ArrivedAccept
<1>6. CASE \/ HandleSimpleQuery \/ HandleParse \/ HandleBind \/ HandleExecute
           \/ HandleDescribe \/ HandleClose
  BY <1>6, ArrivedQuery, ArrivedParse, ArrivedBind, ArrivedExecute, ArrivedDescribe,
     ArrivedHandleClose
<1>7. CASE HandleSync \/ Ignore
  BY <1>7, ArrivedBodyless
<1> QED
  BY <1>1, <1>2, <1>3, <1>4, <1>5, <1>6, <1>7, Zenon DEF Next

(* However messages and the end of the connection fall together, the       *)
(* stream that waits is what the client sent behind what was handled, or   *)
(* the beginning of it when the connection broke (server.go:128-236).      *)
THEOREM StreamKept == Spec => [](Progress /\ Arrived)
<1>1. Init => Progress /\ Arrived
  BY ArrivedInit
<1>2. Progress /\ Arrived /\ [Next]_vars => (Progress /\ Arrived)'
  BY ArrivedNext
<1> QED
  BY <1>1, <1>2, PTL DEF Spec

LEMMA WhatWasSent ==
  ASSUME Progress, Arrived
  PROVE  ReadsWhatWasSent
<1>1. /\ sent \in Seq(Requests) /\ Len(sent) \in Nat /\ Len(got) \in Nat /\ Len(got) <= Len(sent)
      /\ got \in Seq({Seen(r) : r \in Requests})
      /\ \A i \in 1..Len(got) : got[i] = Seen(sent[i])
      /\ Rest \in Seq(Byte)
  BY RestTyped DEF Progress
<1> DEFINE seen == [i \in DOMAIN sent |-> [type |-> sent[i].type, msg |-> sent[i].msg]]
<1>2. seen = [i \in 1..Len(sent) |-> Seen(sent[i])]
  BY <1>1 DEF Seen
<1>3. PICK s : s = [i \in 1..Len(sent) |-> Seen(sent[i])]
  OBVIOUS
<1>4. /\ s \in Seq({Seen(r) : r \in Requests}) /\ Len(s) = Len(sent)
      /\ \A i \in 1..Len(sent) : s[i] = Seen(sent[i])
  <2> HIDE DEF Seen
  <2> QED
    BY <1>1, <1>3
<1>5. IsPrefix(got, s)
  <2>1. SubSeq(got, 1, Len(got)) = got
    BY <1>1
  <2>2. /\ SubSeq(s, 1, Len(got)) \in Seq({Seen(r) : r \in Requests})
        /\ Len(SubSeq(s, 1, Len(got))) = Len(got)
        /\ \A i \in 1..Len(got) : SubSeq(s, 1, Len(got))[i] = s[i]
    BY <1>1, <1>4
  <2>3. \A i \in 1..Len(got) : SubSeq(s, 1, Len(got))[i] = got[i]
    BY <1>1, <1>4, <2>2
  <2>4. SubSeq(s, 1, Len(got)) = got
    BY <1>1, <2>2, <2>3, SeqEqual
  <2> QED
    BY <1>1, <1>4, <2>1, <2>4 DEF IsPrefix
<1>6. ASSUME phase = "serving" PROVE IF broken THEN IsPrefix(wire, Rest) ELSE wire = Rest
  <2>1. Prefix(wire, Rest) /\ (~broken => Len(wire) = Len(Rest))
    BY <1>6 DEF Arrived, Unread
  <2>2. CASE ~broken
    BY <2>1, <2>2, PrefixWhole
  <2>3. CASE broken
    <3>1. PICK w \in Seq(Byte), t \in Seq(Byte) : w = wire /\ t = Rest
      BY <2>1 DEF Prefix
    <3>2. Len(w) <= Len(t) /\ \A i \in 1..Len(w) : w[i] = t[i]
      BY <2>1, <3>1 DEF Prefix
    <3>3. IsPrefix(w, t)
      <4>1. SubSeq(w, 1, Len(w)) = w
        OBVIOUS
      <4>2. /\ SubSeq(t, 1, Len(w)) \in Seq(Byte) /\ Len(SubSeq(t, 1, Len(w))) = Len(w)
            /\ \A i \in 1..Len(w) : SubSeq(t, 1, Len(w))[i] = t[i]
        BY <3>2
      <4>3. SubSeq(t, 1, Len(w)) = w
        BY <3>2, <4>2, SeqEqual
      <4> QED
        BY <3>2, <4>1, <4>3 DEF IsPrefix
    <3> QED
      BY <2>3, <3>1, <3>3
  <2> QED
    BY <2>2, <2>3
<1>7. IsPrefix(got, seen)
  BY <1>2, <1>3, <1>5, Zenon
<1> QED
  BY <1>6, <1>7, Zenon DEF ReadsWhatWasSent

(* The server reads what the client wrote, field by field, and leaves the  *)
(* stream at the first byte that it has not handled (wire.go:175-303,      *)
(* server.go:217-236).                                                     *)
THEOREM ReadsWhatWasSentHolds == Spec => []ReadsWhatWasSent
  BY StreamKept, WhatWasSent, PTL

(* The bytes b are one message of type t.                                  *)
IsMessage(b, t) == \E m \in Messages : m.type = t /\ b = Framed(m)

LEMMA MessageTyped ==
  ASSUME NEW b, NEW t, IsMessage(b, t)
  PROVE  b \in Seq(Byte)
  BY FramedTyped DEF IsMessage

LEMMA Writes ==
  ASSUME NEW t \in Byte, NEW body \in Seq(Byte), Len(body) + 4 \in Longs
  PROVE  IsMessage(writeMessage(t, body), t)
<1>1. PICK m : m = [type |-> t, body |-> body]
  OBVIOUS
<1>2. m \in Messages /\ m.type = t /\ m.body = body
  BY <1>1 DEF Messages
<1>3. writeMessage(t, body) = Framed(m)
  BY <1>2, Zenon DEF writeMessage, Framed, Frame, Cat
<1> QED
  BY <1>2, <1>3 DEF IsMessage

LEMMA SmallLengths ==
  ASSUME NEW n \in 0..100
  PROVE  n \in Longs
  BY SMT DEF Longs

LEMMA SmallTyped ==
  ASSUME NEW a \in Byte, NEW b \in Byte
  PROVE  /\ <<a>> \in Seq(Byte) /\ Len(<<a>>) = 1
         /\ <<a, b>> \in Seq(Byte) /\ Len(<<a, b>>) = 2
  OBVIOUS

LEMMA BytesOf ==
  /\ 0 \in Byte /\ 25 \in Byte /\ 49 \in Byte /\ 50 \in Byte /\ 51 \in Byte /\ 67 \in Byte
  /\ 69 \in Byte /\ 73 \in Byte /\ 75 \in Byte /\ 78 \in Byte /\ 79 \in Byte /\ 82 \in Byte
  /\ 83 \in Byte /\ 90 \in Byte /\ 110 \in Byte /\ 116 \in Byte
  BY DEF Byte

LEMMA EmptyMessages ==
  /\ IsMessage(SendParseComplete, 49) /\ IsMessage(SendBindComplete, 50)
  /\ IsMessage(SendCloseComplete, 51) /\ IsMessage(SendNoData, 110)
  /\ IsMessage(SendEmptyQueryResponse, 73)
<1>1. <<>> \in Seq(Byte) /\ Len(<<>>) + 4 \in Longs
  <2>1. Len(<<>>) + 4 = 4
    BY EmptyBytes
  <2> QED
    BY <2>1, EmptyBytes, SmallLengths
<1>2. \A t \in Byte : IsMessage(writeMessage(t, <<>>), t)
  BY <1>1, Writes
<1> QED
  BY <1>2, BytesOf, Zenon DEF SendParseComplete, SendBindComplete, SendCloseComplete, SendNoData,
     SendEmptyQueryResponse

LEMMA ReadyIs ==
  ASSUME NEW b \in Ready
  PROVE  IsMessage(b, 90)
<1>1. PICK s \in Byte : b = writeMessage(90, <<s>>)
  BY ServerAssumption DEF Ready, SendReadyForQuery
<1>2. Len(<<s>>) + 4 \in Longs
  <2>1. Len(<<s>>) + 4 = 5
    BY SmallTyped
  <2> QED
    BY <2>1, SmallLengths
<1> QED
  BY <1>1, <1>2, SmallTyped, BytesOf, Writes

LEMMA CompleteIs == IsMessage(SendCommandComplete(<<79>>), 67)
<1>1. Text(<<79>>) = <<79, 0>>
  BY BytesOf, Tuple2, Zenon DEF Text
<1>2. <<79, 0>> \in Seq(Byte) /\ Len(<<79, 0>>) = 2
  BY BytesOf, SmallTyped
<1>3. Len(<<79, 0>>) + 4 \in Longs
  BY <1>2, SmallLengths
<1>4. IsMessage(writeMessage(67, <<79, 0>>), 67)
  BY <1>2, <1>3, BytesOf, Writes
<1> QED
  BY <1>1, <1>4, Zenon DEF SendCommandComplete

LEMMA LongBytes ==
  ASSUME NEW n \in Longs
  PROVE  \E b \in Seq(Byte) : b = BigEndian(n, 4) /\ Len(b) = 4
  BY BigEndianTyped

LEMMA DescriptionIs == IsMessage(SendParameterDescription(<<25>>), 116)
<1> DEFINE l == BigEndian(Len(<<25>>), 2)
           items == FlattenSeq([i \in DOMAIN <<25>> |-> BigEndian(<<25>>[i], 4)])
<1>1. PICK e \in Seq(Byte) : e = BigEndian(25, 4) /\ Len(e) = 4
  BY SmallLengths, LongBytes
<1>2. PICK h \in Seq(Byte) : h = l /\ Len(h) = 2
  <2>1. Len(<<25>>) = 1 /\ 1 \in Shorts
    BY DEF Shorts
  <2> QED
    BY <2>1, BigEndianTyped
<1>3. items = e
  <2>1. [i \in DOMAIN <<25>> |-> BigEndian(<<25>>[i], 4)] = Append(<<>>, e)
    BY <1>1
  <2>2. FlattenSeq(Append(<<>>, e)) = Cat(FlattenSeq(<<>>), e)
    <3>1. <<>> \in Seq(Seq(Byte))
      BY EmptySeq
    <3> QED
      BY <3>1, FlattenAppend
  <2> QED
    BY <2>1, <2>2, FlattenEmpty, CatEmpty
<1>4. Cat(h, e) \in Seq(Byte) /\ Len(Cat(h, e)) = 6
  <2>1. Cat(h, e) \in Seq(Byte) /\ Len(Cat(h, e)) = Len(h) + Len(e)
    BY ByteCat
  <2>2. Len(h) + Len(e) = 6
    <3>1. Len(h) = 2
      BY <1>2
    <3>2. Len(e) = 4
      BY <1>1
    <3> QED
      BY <3>1, <3>2
  <2> QED
    BY <2>1, <2>2, Zenon
<1>5. Len(Cat(h, e)) + 4 \in Longs
  BY <1>4, SmallLengths
<1>6. IsMessage(writeMessage(116, Cat(h, e)), 116)
  BY <1>4, <1>5, BytesOf, Writes
<1> QED
  BY <1>2, <1>3, <1>6, Zenon DEF SendParameterDescription, Cat

(* An order in which the elements of a finite set are sent.                *)
LEMMA OrderTyped ==
  ASSUME NEW S, NEW f, IsFiniteSet(S), f \in SetToSeqs(S)
  PROVE  f \in Seq(S) /\ Len(f) = Cardinality(S) /\ Cardinality(S) \in Nat
<1>1. Cardinality(S) \in Nat
  BY FS_CardinalityType
<1>2. f \in [1..Cardinality(S) -> S]
  BY Zenon DEF SetToSeqs
<1> QED
  BY <1>1, <1>2

LEMMA FieldsTyped ==
  ASSUME NEW ps \in Seq(Byte \X Texts)
  PROVE  Fields(ps) \in Seq(Byte)
<1>1. PICK t : t = [i \in DOMAIN ps |-> Cat(<<ps[i][1]>>, Text(ps[i][2]))]
  OBVIOUS
<1>2. Fields(ps) = FlattenSeq(t)
  BY <1>1, Zenon DEF Fields, Cat
<1>3. \A i \in 1..Len(ps) : Cat(<<ps[i][1]>>, Text(ps[i][2])) \in Seq(Byte)
  <2> SUFFICES ASSUME NEW i \in 1..Len(ps)
               PROVE  Cat(<<ps[i][1]>>, Text(ps[i][2])) \in Seq(Byte)
    OBVIOUS
  <2>1. ps[i][1] \in Byte /\ ps[i][2] \in Texts
    OBVIOUS
  <2>2. PICK c \in Byte, s \in Seq(Byte) : c = ps[i][1] /\ s = Text(ps[i][2])
    BY <2>1, TextTyped
  <2>3. <<c>> \in Seq(Byte)
    BY SmallTyped
  <2>4. Cat(<<c>>, s) \in Seq(Byte)
    BY <2>3, ByteCat
  <2> QED
    BY <2>2, <2>4
<1>4. DOMAIN ps = 1..Len(ps) /\ Len(ps) \in Nat
  OBVIOUS
<1>5. DOMAIN t = 1..Len(ps) /\ \A i \in 1..Len(ps) : t[i] = Cat(<<ps[i][1]>>, Text(ps[i][2]))
  BY <1>1, <1>4
<1>6. t = [i \in 1..Len(ps) |-> t[i]]
  BY <1>1, <1>4
<1>7. t \in Seq(Seq(Byte))
  <2>1. \A i \in 1..Len(ps) : t[i] \in Seq(Byte)
    BY <1>3, <1>5, Zenon
  <2> QED
    BY <1>4, <1>6, <2>1, Enumerated
<1> QED
  BY <1>2, <1>7, FlattenTyped

LEMMA ErrorIs ==
  ASSUME NEW b \in Errors
  PROVE  IsMessage(b, 69)
<1>1. PICK fields \in SetToSeqs(ErrorFields) : b = SendErrorResponse(fields)
  BY DEF Errors
<1>2. fields \in Seq(Byte \X Texts)
  <2>1. fields \in Seq(ErrorFields)
    BY ServerAssumption, OrderTyped
  <2>2. ErrorFields \subseteq Byte \X Texts
    BY ServerAssumption
  <2> QED
    BY <2>1, <2>2
<1>3. PICK fs \in Seq(Byte) : fs = Fields(fields)
  BY <1>2, FieldsTyped
<1>4. Len(fs) + 5 \in Longs
  BY <1>3, ServerAssumption
<1>5. PICK body \in Seq(Byte) : body = Append(fs, 0) /\ Len(body) = Len(fs) + 1
  <2>1. Append(fs, 0) \in Seq(Byte) /\ Len(Append(fs, 0)) = Len(fs) + 1
    BY BytesOf, AppendProperties
  <2> QED
    BY <2>1
<1>6. Len(body) + 4 \in Longs
  <2>1. Len(body) + 4 = Len(fs) + 5
    BY <1>5
  <2> QED
    BY <1>4, <2>1
<1>7. IsMessage(writeMessage(69, body), 69)
  BY <1>6, BytesOf, Writes
<1> QED
  BY <1>1, <1>3, <1>5, <1>7, Zenon DEF SendErrorResponse

LEMMA StatusIs ==
  ASSUME NEW p \in StatusParams
  PROVE  IsMessage(SendParameterStatus(p[1], p[2]), 83)
<1>1. p[1] \in Texts /\ p[2] \in Texts /\ Len(p[1]) + Len(p[2]) + 6 \in Longs
  BY ServerAssumption
<1>2. PICK s \in Texts, t \in Texts : s = p[1] /\ t = p[2]
  BY <1>1
<1>3. PICK x \in Seq(Byte), y \in Seq(Byte) :
        x = Text(s) /\ y = Text(t) /\ Len(x) = Len(s) + 1 /\ Len(y) = Len(t) + 1
  BY TextTyped
<1>4. Cat(x, y) \in Seq(Byte) /\ Len(Cat(x, y)) = Len(x) + Len(y)
  BY ByteCat
<1>5. Len(Cat(x, y)) + 4 \in Longs
  <2>1. Len(s) + Len(t) + 6 \in Longs
    BY <1>1, <1>2
  <2>2. Len(s) \in Nat /\ Len(t) \in Nat
    BY DEF Texts
  <2>3. Len(Cat(x, y)) + 4 = Len(s) + Len(t) + 6
    BY <1>3, <1>4, <2>2
  <2> QED
    BY <2>1, <2>3
<1>6. IsMessage(writeMessage(83, Cat(x, y)), 83)
  BY <1>4, <1>5, BytesOf, Writes
<1> QED
  BY <1>2, <1>3, <1>6, Zenon DEF SendParameterStatus, Cat

LEMMA AuthenticationIs == IsMessage(AuthenticationOK, 82)
<1>1. PICK b \in Seq(Byte) : b = BigEndian(0, 4) /\ Len(b) = 4
  BY SmallLengths, LongBytes
<1>2. Len(b) + 4 \in Longs
  <2>1. Len(b) = 4
    BY <1>1
  <2>2. Len(b) + 4 = 8
    BY <2>1
  <2> QED
    BY <2>2, SmallLengths
<1>3. IsMessage(writeMessage(82, b), 82)
  BY <1>2, BytesOf, Writes
<1> QED
  BY <1>1, <1>3, Zenon DEF AuthenticationOK

LEMMA KeyIs == IsMessage(SendBackendKeyData(Pid, Secret), 75)
<1>0. Pid \in Longs /\ Secret \in Longs
  BY ServerAssumption
<1>1. PICK x \in Seq(Byte) : x = BigEndian(Pid, 4) /\ Len(x) = 4
  BY <1>0, LongBytes
<1>2. PICK y \in Seq(Byte) : y = BigEndian(Secret, 4) /\ Len(y) = 4
  BY <1>0, LongBytes
<1>3. Cat(x, y) \in Seq(Byte) /\ Len(Cat(x, y)) = Len(x) + Len(y)
  BY ByteCat
<1>4. Len(Cat(x, y)) + 4 \in Longs
  <2>1. Len(x) = 4
    BY <1>1
  <2>2. Len(y) = 4
    BY <1>2
  <2>3. Len(Cat(x, y)) + 4 = 12
    BY <1>3, <2>1, <2>2
  <2> QED
    BY <2>3, SmallLengths
<1>5. IsMessage(writeMessage(75, Cat(x, y)), 75)
  BY <1>3, <1>4, BytesOf, Writes
<1> QED
  BY <1>1, <1>2, <1>5, Zenon DEF SendBackendKeyData, Cat

LEMMA IdleIs == IsMessage(SendReadyForQuery(73), 90)
<1>1. <<73>> \in Seq(Byte) /\ Len(<<73>>) = 1
  BY BytesOf, SmallTyped
<1>2. Len(<<73>>) + 4 \in Longs
  BY <1>1, SmallLengths
<1> QED
  BY <1>1, <1>2, BytesOf, Writes DEF SendReadyForQuery

(* The messages ms are sent after the bytes d, o are all these bytes, the  *)
(* session has begun, n of them are ReadyForQuery, which follows every     *)
(* error.                                                                  *)
Opens(i) ==
  LET n == Cardinality(StatusParams)
  IN  IF i = 1 THEN 82 ELSE IF i <= n + 1 THEN 83 ELSE IF i = n + 2 THEN 75 ELSE 90
Begins(ms) ==
  /\ Cardinality(StatusParams) + 3 <= Len(ms)
  /\ \A i \in 1..(Cardinality(StatusParams) + 3) : ms[i].type = Opens(i)
Tells(d, ms, o, n) ==
  /\ d \in Seq(Byte) /\ ms \in Seq(Messages) /\ o = Cat(d, Bytes(ms))
  /\ Begins(ms) /\ n \in Nat
  /\ IsFiniteSet(Positions(ms, 90)) /\ Cardinality(Positions(ms, 90)) = n
  /\ \A i \in Positions(ms, 69) : i + 1 \in Positions(ms, 90)

(* Whatever was sent before, after the bytes b it is one ReadyForQuery     *)
(* more if asked, and as many otherwise.                                   *)
Adds(b, asked) ==
  \A d, ms, o, n : Tells(d, ms, o, n) =>
    \E ks : Tells(d, ks, Cat(o, b), IF asked THEN n + 1 ELSE n)

LEMMA TellsTyped ==
  ASSUME NEW d, NEW ms, NEW o, NEW n, Tells(d, ms, o, n)
  PROVE  o \in Seq(Byte) /\ Bytes(ms) \in Seq(Byte) /\ d \in Seq(Byte) /\ ms \in Seq(Messages)
<1>1. d \in Seq(Byte) /\ ms \in Seq(Messages) /\ o = Cat(d, Bytes(ms))
  BY DEF Tells
<1>2. Bytes(ms) \in Seq(Byte)
  BY <1>1, BytesTyped
<1> QED
  BY <1>1, <1>2, ByteCat

LEMMA PositionsAppend ==
  ASSUME NEW ms \in Seq(Messages), NEW m \in Messages, NEW t
  PROVE  Positions(Append(ms, m), t) =
           IF m.type = t THEN Positions(ms, t) \cup {Len(ms) + 1} ELSE Positions(ms, t)
<1>1. PICK n \in Nat : n = Len(ms)
  OBVIOUS
<1>2. PICK ns : ns = Append(ms, m)
  OBVIOUS
<1>3. /\ DOMAIN ns = 1..(n + 1) /\ DOMAIN ms = 1..n /\ ns[n + 1] = m
      /\ \A i \in 1..n : ns[i] = ms[i]
  BY <1>1, <1>2, AppendProperties
<1>4. \A i \in 1..(n + 1) : i = n + 1 \/ i \in 1..n
  OBVIOUS
<1>5. Positions(ns, t) = {i \in 1..(n + 1) : ns[i].type = t}
  BY <1>3 DEF Positions
<1>6. Positions(ms, t) = {i \in 1..n : ms[i].type = t}
  BY <1>3 DEF Positions
<1>7. Positions(ns, t) =
        IF m.type = t THEN Positions(ms, t) \cup {n + 1} ELSE Positions(ms, t)
  BY <1>3, <1>4, <1>5, <1>6
<1> QED
  BY <1>1, <1>2, <1>7

LEMMA OpensIs ==
  ASSUME NEW n \in Nat, n = Cardinality(StatusParams)
  PROVE  /\ Opens(1) = 82 /\ Opens(n + 2) = 75 /\ Opens(n + 3) = 90
         /\ \A i \in 2..(n + 1) : Opens(i) = 83
  BY DEF Opens

LEMMA BeginsAppend ==
  ASSUME NEW ms \in Seq(Messages), NEW m \in Messages, Begins(ms)
  PROVE  Begins(Append(ms, m))
<1>1. PICK c \in Nat : c = Cardinality(StatusParams) + 3
  BY ServerAssumption, FS_CardinalityType
<1>2. c <= Len(ms) /\ \A i \in 1..c : ms[i].type = Opens(i)
  BY <1>1 DEF Begins
<1>3. PICK ns : ns = Append(ms, m)
  OBVIOUS
<1>4. Len(ns) = Len(ms) + 1 /\ \A i \in 1..Len(ms) : ns[i] = ms[i]
  BY <1>3, AppendProperties
<1>5. c <= Len(ns) /\ \A i \in 1..c : ns[i].type = Opens(i)
  BY <1>2, <1>4
<1>6. Begins(ns)
  BY <1>1, <1>5 DEF Begins
<1> QED
  BY <1>3, <1>6

LEMMA OneMore ==
  ASSUME NEW S, NEW x, NEW n, NEW T, IsFiniteSet(S), Cardinality(S) = n, n \in Nat,
         x \notin S, T = S \cup {x}
  PROVE  IsFiniteSet(T) /\ Cardinality(T) = n + 1
<1>1. IsFiniteSet(S \cup {x}) /\ Cardinality(S \cup {x}) = Cardinality(S) + 1
  BY FS_AddElement, Zenon
<1>2. IsFiniteSet(T) /\ Cardinality(T) = Cardinality(S) + 1
  BY <1>1, Zenon
<1> QED
  BY <1>2, Zenon

LEMMA AddsNothing == Adds(<<>>, FALSE)
<1> SUFFICES ASSUME NEW d, NEW ms, NEW o, NEW n, Tells(d, ms, o, n)
             PROVE  \E ks : Tells(d, ks, Cat(o, <<>>), n)
  BY DEF Adds
<1>1. Cat(o, <<>>) = o
  BY TellsTyped, CatEmpty
<1> QED
  BY <1>1

LEMMA AddsTwo ==
  ASSUME NEW b \in Seq(Byte), NEW c \in Seq(Byte), NEW asked \in BOOLEAN,
         Adds(b, FALSE), Adds(c, asked)
  PROVE  Adds(Cat(b, c), asked)
<1> SUFFICES ASSUME NEW d, NEW ms, NEW o, NEW n, Tells(d, ms, o, n)
             PROVE  \E ks : Tells(d, ks, Cat(o, Cat(b, c)), IF asked THEN n + 1 ELSE n)
  BY Zenon DEF Adds
<1>1. PICK ks : Tells(d, ks, Cat(o, b), n)
  BY Zenon DEF Adds
<1>2. PICK ls : Tells(d, ls, Cat(Cat(o, b), c), IF asked THEN n + 1 ELSE n)
  BY <1>1, Zenon DEF Adds
<1>3. Cat(Cat(o, b), c) = Cat(o, Cat(b, c))
  BY TellsTyped, CatAssociative
<1> QED
  BY <1>2, <1>3

(* What o becomes when the bytes of a message follow.                      *)
LEMMA TellsBytes ==
  ASSUME NEW d, NEW ms, NEW o, NEW n, NEW m, Tells(d, ms, o, n), m \in Messages
  PROVE  /\ Append(ms, m) \in Seq(Messages)
         /\ Cat(o, Framed(m)) = Cat(d, Bytes(Append(ms, m)))
<1>1. /\ d \in Seq(Byte) /\ ms \in Seq(Messages) /\ o = Cat(d, Bytes(ms))
      /\ Bytes(ms) \in Seq(Byte)
  BY TellsTyped DEF Tells
<1>2. Framed(m) \in Seq(Byte)
  BY FramedTyped
<1>3. Append(ms, m) \in Seq(Messages) /\ Bytes(Append(ms, m)) = Cat(Bytes(ms), Framed(m))
  BY <1>1, BytesAppend
<1>4. Cat(Cat(d, Bytes(ms)), Framed(m)) = Cat(d, Cat(Bytes(ms), Framed(m)))
  BY <1>1, <1>2, CatAssociative
<1> QED
  BY <1>1, <1>3, <1>4, Zenon

(* A message that neither is an error nor says that the server is ready.   *)
IsOther(b) == \E t : IsMessage(b, t) /\ t # 69 /\ t # 90

LEMMA OtherIs ==
  ASSUME NEW b, NEW t, IsMessage(b, t), t # 69, t # 90
  PROVE  IsOther(b)
  BY DEF IsOther

LEMMA Others ==
  /\ IsOther(SendParseComplete) /\ IsOther(SendBindComplete) /\ IsOther(SendCloseComplete)
  /\ IsOther(SendNoData) /\ IsOther(SendCommandComplete(<<79>>))
  /\ IsOther(SendParameterDescription(<<25>>))
  /\ \A b \in Results : IsOther(b)
<1>1. ASSUME NEW b, NEW t \in {49, 50, 51, 67, 73, 110, 116}, IsMessage(b, t)
      PROVE  IsOther(b)
  <2>1. t # 69 /\ t # 90
    BY <1>1
  <2> QED
    BY <1>1, <2>1, OtherIs
<1>2. /\ IsOther(SendParseComplete) /\ IsOther(SendBindComplete) /\ IsOther(SendCloseComplete)
      /\ IsOther(SendNoData)
  BY <1>1, EmptyMessages, Zenon
<1>3. IsOther(SendCommandComplete(<<79>>)) /\ IsOther(SendParameterDescription(<<25>>))
  BY <1>1, CompleteIs, DescriptionIs, Zenon
<1>4. IsOther(SendEmptyQueryResponse)
  BY <1>1, EmptyMessages, Zenon
<1> QED
  BY <1>2, <1>3, <1>4, Zenon DEF Results

LEMMA AddsOther ==
  ASSUME NEW b, IsOther(b)
  PROVE  b \in Seq(Byte) /\ Adds(b, FALSE)
<1>0. PICK t : IsMessage(b, t) /\ t # 69 /\ t # 90 /\ b \in Seq(Byte)
  <2>1. PICK t : IsMessage(b, t) /\ t # 69 /\ t # 90
    BY DEF IsOther
  <2> QED
    BY <2>1, MessageTyped
<1> SUFFICES ASSUME NEW d, NEW ms, NEW o, NEW n, Tells(d, ms, o, n)
             PROVE  \E ks : Tells(d, ks, Cat(o, b), n)
  BY <1>0 DEF Adds
<1>1. PICK m \in Messages : m.type = t /\ b = Framed(m)
  BY <1>0 DEF IsMessage
<1>2. PICK ks : ks = Append(ms, m)
  OBVIOUS
<1>3. ks \in Seq(Messages) /\ Cat(o, b) = Cat(d, Bytes(ks))
  BY <1>1, <1>2, TellsBytes
<1>4. /\ ms \in Seq(Messages) /\ d \in Seq(Byte) /\ Begins(ms) /\ n \in Nat
      /\ IsFiniteSet(Positions(ms, 90)) /\ Cardinality(Positions(ms, 90)) = n
      /\ \A i \in Positions(ms, 69) : i + 1 \in Positions(ms, 90)
  BY DEF Tells
<1>5. Positions(ks, 90) = Positions(ms, 90) /\ Positions(ks, 69) = Positions(ms, 69)
  <2>1. m.type # 90 /\ m.type # 69
    BY <1>0, <1>1
  <2> QED
    BY <1>2, <1>4, <2>1, PositionsAppend
<1>6. Begins(ks)
  BY <1>2, <1>4, BeginsAppend
<1>7. Tells(d, ks, Cat(o, b), n)
  BY <1>3, <1>4, <1>5, <1>6 DEF Tells
<1> QED
  BY <1>7

LEMMA AddsReady ==
  ASSUME NEW b, IsMessage(b, 90)
  PROVE  Adds(b, TRUE)
<1> SUFFICES ASSUME NEW d, NEW ms, NEW o, NEW n, Tells(d, ms, o, n)
             PROVE  \E ks : Tells(d, ks, Cat(o, b), n + 1)
  BY DEF Adds
<1>1. PICK m \in Messages : m.type = 90 /\ b = Framed(m)
  BY DEF IsMessage
<1>2. PICK ks : ks = Append(ms, m)
  OBVIOUS
<1>3. ks \in Seq(Messages) /\ Cat(o, b) = Cat(d, Bytes(ks))
  BY <1>1, <1>2, TellsBytes
<1>4. /\ ms \in Seq(Messages) /\ d \in Seq(Byte) /\ Begins(ms) /\ n \in Nat
      /\ IsFiniteSet(Positions(ms, 90)) /\ Cardinality(Positions(ms, 90)) = n
      /\ \A i \in Positions(ms, 69) : i + 1 \in Positions(ms, 90)
  BY DEF Tells
<1>5. /\ Positions(ks, 90) = Positions(ms, 90) \cup {Len(ms) + 1}
      /\ Positions(ks, 69) = Positions(ms, 69)
  <2>1. m.type = 90 /\ m.type # 69
    BY <1>1
  <2> QED
    BY <1>2, <1>4, <2>1, PositionsAppend
<1>6. Len(ms) + 1 \notin Positions(ms, 90)
  BY <1>4 DEF Positions
<1>7. IsFiniteSet(Positions(ks, 90)) /\ Cardinality(Positions(ks, 90)) = n + 1
  <2>1. PICK x, S, T : x = Len(ms) + 1 /\ S = Positions(ms, 90) /\ T = Positions(ks, 90)
    OBVIOUS
  <2>2. IsFiniteSet(S) /\ Cardinality(S) = n /\ n \in Nat /\ x \notin S /\ T = S \cup {x}
    BY <1>4, <1>5, <1>6, <2>1
  <2>3. IsFiniteSet(T) /\ Cardinality(T) = n + 1
    BY <2>2, OneMore
  <2> QED
    BY <2>1, <2>3, Zenon
<1>8. Begins(ks)
  BY <1>2, <1>4, BeginsAppend
<1>9. \A i \in Positions(ks, 69) : i + 1 \in Positions(ks, 90)
  BY <1>4, <1>5
<1>10. n + 1 \in Nat
  BY <1>4
<1>11. Tells(d, ks, Cat(o, b), n + 1)
  BY <1>3, <1>4, <1>7, <1>8, <1>9, <1>10, Zenon DEF Tells
<1> QED
  BY <1>11

LEMMA AddsError ==
  ASSUME NEW b, NEW c, IsMessage(b, 69), IsMessage(c, 90)
  PROVE  Adds(Cat(b, c), TRUE)
<1> SUFFICES ASSUME NEW d, NEW ms, NEW o, NEW n, Tells(d, ms, o, n)
             PROVE  \E ks : Tells(d, ks, Cat(o, Cat(b, c)), n + 1)
  BY DEF Adds
<1>1. PICK e \in Messages : e.type = 69 /\ b = Framed(e)
  BY DEF IsMessage
<1>2. PICK r \in Messages : r.type = 90 /\ c = Framed(r)
  BY DEF IsMessage
<1>3. /\ ms \in Seq(Messages) /\ d \in Seq(Byte) /\ Begins(ms) /\ n \in Nat
      /\ o = Cat(d, Bytes(ms)) /\ Bytes(ms) \in Seq(Byte) /\ o \in Seq(Byte)
      /\ IsFiniteSet(Positions(ms, 90)) /\ Cardinality(Positions(ms, 90)) = n
      /\ \A i \in Positions(ms, 69) : i + 1 \in Positions(ms, 90)
  BY TellsTyped DEF Tells
<1>4. PICK ks \in Seq(Messages) : ks = Append(ms, e)
  BY <1>1, TellsBytes
<1>5. PICK ls \in Seq(Messages) : ls = Append(ks, r)
  <2>1. Append(ks, r) \in Seq(Messages)
    BY BytesAppend
  <2> QED
    BY <2>1, Zenon
<1>6. b \in Seq(Byte) /\ c \in Seq(Byte)
  BY MessageTyped
<1>7. Cat(o, Cat(b, c)) = Cat(d, Bytes(ls))
  <2>1. Cat(o, b) = Cat(d, Bytes(ks))
    BY <1>1, <1>4, TellsBytes
  <2>2. Bytes(ls) = Cat(Bytes(ks), c) /\ Bytes(ks) \in Seq(Byte)
    BY <1>2, <1>5, BytesAppend, BytesTyped
  <2>3. Cat(Cat(d, Bytes(ks)), c) = Cat(d, Cat(Bytes(ks), c))
    BY <1>3, <1>6, <2>2, CatAssociative
  <2>4. Cat(o, Cat(b, c)) = Cat(Cat(o, b), c)
    BY <1>3, <1>6, CatAssociative
  <2> QED
    BY <2>1, <2>2, <2>3, <2>4, Zenon
<1>8. PICK k \in Nat : k = Len(ms)
  BY <1>3
<1>9. Len(ks) = k + 1
  BY <1>3, <1>4, <1>8
<1>10. Positions(ks, 90) = Positions(ms, 90) /\ Positions(ks, 69) = Positions(ms, 69) \cup {k + 1}
  <2>1. e.type = 69 /\ e.type # 90
    BY <1>1
  <2> QED
    BY <1>3, <1>4, <1>8, <2>1, PositionsAppend
<1>11. /\ Positions(ls, 90) = Positions(ms, 90) \cup {k + 2}
       /\ Positions(ls, 69) = Positions(ms, 69) \cup {k + 1}
  <2>1. r.type = 90 /\ r.type # 69
    BY <1>2
  <2>2. Positions(ls, 90) = Positions(ks, 90) \cup {Len(ks) + 1} /\ Positions(ls, 69) = Positions(ks, 69)
    BY <1>5, <2>1, PositionsAppend
  <2>3. Len(ks) + 1 = k + 2
    BY <1>9
  <2> QED
    BY <1>10, <2>2, <2>3
<1>12. k + 2 \notin Positions(ms, 90)
  BY <1>3, <1>8 DEF Positions
<1>13. IsFiniteSet(Positions(ls, 90)) /\ Cardinality(Positions(ls, 90)) = n + 1
  <2>1. PICK x, S, T : x = k + 2 /\ S = Positions(ms, 90) /\ T = Positions(ls, 90)
    OBVIOUS
  <2>2. IsFiniteSet(S) /\ Cardinality(S) = n /\ n \in Nat /\ x \notin S /\ T = S \cup {x}
    BY <1>3, <1>11, <1>12, <2>1
  <2>3. IsFiniteSet(T) /\ Cardinality(T) = n + 1
    BY <2>2, OneMore
  <2> QED
    BY <2>1, <2>3, Zenon
<1>14. Begins(ls)
  <2>1. Begins(ks)
    BY <1>3, <1>4, BeginsAppend
  <2> QED
    BY <1>5, <2>1, BeginsAppend
<1>15. \A i \in Positions(ls, 69) : i + 1 \in Positions(ls, 90)
  BY <1>3, <1>11
<1>16. n + 1 \in Nat
  BY <1>3
<1>17. Tells(d, ls, Cat(o, Cat(b, c)), n + 1)
  BY <1>3, <1>7, <1>13, <1>14, <1>15, <1>16, Zenon DEF Tells
<1> QED
  BY <1>17

(* The messages that report the parameters, in an order of theirs.         *)
LEMMA StatusBytes ==
  ASSUME NEW report \in Reports
  PROVE  \E ss \in Seq(Messages) :
           /\ Len(ss) = Cardinality(StatusParams)
           /\ \A i \in 1..Len(ss) : ss[i].type = 83
           /\ Bytes(ss) = FlattenSeq([i \in DOMAIN report |->
                            SendParameterStatus(report[i][1], report[i][2])])
<1>1. report \in Seq(StatusParams) /\ Len(report) = Cardinality(StatusParams)
  BY ServerAssumption, OrderTyped, Zenon DEF Reports
<1>2. PICK n \in Nat : n = Len(report)
  BY <1>1
<1>3. DOMAIN report = 1..n /\ \A i \in 1..n : report[i] \in StatusParams
  BY <1>1, <1>2
<1> DEFINE Sends(i) == SendParameterStatus(report[i][1], report[i][2])
           Status(i) == CHOOSE m \in Messages : m.type = 83 /\ Sends(i) = Framed(m)
<1>4. \A i \in 1..n : Status(i) \in Messages /\ Status(i).type = 83 /\ Framed(Status(i)) = Sends(i)
  <2> SUFFICES ASSUME NEW i \in 1..n
               PROVE  Status(i) \in Messages /\ Status(i).type = 83 /\ Framed(Status(i)) = Sends(i)
    BY Zenon
  <2>1. IsMessage(Sends(i), 83)
    BY <1>3, StatusIs
  <2>2. \E m \in Messages : m.type = 83 /\ Sends(i) = Framed(m)
    BY <2>1, Zenon DEF IsMessage
  <2> QED
    BY <2>2, Zenon
<1> HIDE DEF Sends, Status
<1>5. PICK ss : ss = [i \in 1..n |-> Status(i)]
  OBVIOUS
<1>6. /\ ss \in Seq(Messages) /\ Len(ss) = n /\ DOMAIN ss = 1..n
      /\ \A i \in 1..n : ss[i] = Status(i)
  BY <1>4, <1>5
<1>7. [i \in DOMAIN ss |-> Framed(ss[i])] = [i \in DOMAIN report |-> Sends(i)]
  <2>1. \A i \in 1..n : Framed(ss[i]) = Sends(i)
    BY <1>4, <1>6, Zenon
  <2> QED
    BY <1>3, <1>6, <2>1, Zenon
<1>8. \A i \in 1..Len(ss) : ss[i].type = 83
  <2>1. ASSUME NEW i \in 1..n PROVE ss[i].type = 83
    <3>1. ss[i] = Status(i)
      BY <1>6, Zenon
    <3>2. Status(i).type = 83
      BY <1>4, Zenon
    <3> QED
      BY <3>1, <3>2, Zenon
  <2> QED
    BY <1>6, <2>1
<1>9. Bytes(ss) = FlattenSeq([i \in DOMAIN report |-> Sends(i)])
  BY <1>7, Zenon DEF Bytes
<1>10. Len(ss) = Cardinality(StatusParams)
  BY <1>1, <1>2, <1>6
<1> QED
  BY <1>6, <1>8, <1>9, <1>10, Zenon DEF Sends

LEMMA Framing ==
  ASSUME NEW m \in Messages, NEW ss \in Seq(Messages)
  PROVE  \E ms \in Seq(Messages) :
           /\ Len(ms) = Len(ss) + 1 /\ ms[1] = m
           /\ \A i \in 1..Len(ss) : ms[i + 1] = ss[i]
           /\ Bytes(ms) = Cat(Framed(m), Bytes(ss))
<1>1. PICK n \in Nat : n = Len(ss)
  OBVIOUS
<1>2. PICK ms : ms = [i \in 1..(n + 1) |-> IF i = 1 THEN m ELSE ss[i - 1]]
  OBVIOUS
<1>3. /\ ms \in Seq(Messages) /\ Len(ms) = n + 1 /\ ms[1] = m
      /\ \A i \in 1..n : ms[i + 1] = ss[i]
  BY <1>1, <1>2
<1>4. ms # <<>>
  BY <1>3
<1>5. Tail(ms) = ss
  <2>1. Tail(ms) \in Seq(Messages) /\ Len(Tail(ms)) = n
    BY <1>3, <1>4, HeadTailProperties
  <2>2. \A i \in 1..n : Tail(ms)[i] = ss[i]
    BY <1>3, <1>4, HeadTailProperties
  <2> QED
    BY <1>1, <2>1, <2>2, SeqEqual
<1>6. Bytes(ms) = Cat(Framed(m), Bytes(ss))
  BY <1>3, <1>4, <1>5, BytesHead, Zenon
<1> QED
  BY <1>1, <1>3, <1>6

EndsReady(ws, D, e) ==
  e \in D /\ DOMAIN ws = D /\ \A i \in D : ws[i].type # 69 /\ (ws[i].type = 90 <=> i = e)

LEMMA OnlyOne ==
  ASSUME NEW ws, NEW D, NEW e, EndsReady(ws, D, e)
  PROVE  Positions(ws, 90) = {e} /\ Positions(ws, 69) = {}
  BY DEF EndsReady, Positions

LEMMA WelcomeTold ==
  ASSUME NEW report \in Reports, NEW d \in Seq(Byte)
  PROVE  \E ws : Tells(d, ws, Cat(d, Welcome(report)), 1)
<1>1. PICK ss \in Seq(Messages) :
           /\ Len(ss) = Cardinality(StatusParams)
           /\ \A i \in 1..Len(ss) : ss[i].type = 83
           /\ Bytes(ss) = FlattenSeq([i \in DOMAIN report |->
                            SendParameterStatus(report[i][1], report[i][2])])
  BY StatusBytes
<1>2. PICK c \in Nat : c = Cardinality(StatusParams)
  BY <1>1
<1>3. PICK a \in Messages : a.type = 82 /\ AuthenticationOK = Framed(a)
  BY AuthenticationIs, Zenon DEF IsMessage
<1>4. PICK k \in Messages : k.type = 75 /\ SendBackendKeyData(Pid, Secret) = Framed(k)
  BY KeyIs, Zenon DEF IsMessage
<1>5. PICK r \in Messages : r.type = 90 /\ SendReadyForQuery(73) = Framed(r)
  BY IdleIs, Zenon DEF IsMessage
<1>6. PICK ms \in Seq(Messages) :
           /\ Len(ms) = Len(ss) + 1 /\ ms[1] = a
           /\ \A i \in 1..Len(ss) : ms[i + 1] = ss[i]
           /\ Bytes(ms) = Cat(Framed(a), Bytes(ss))
  BY Framing
<1>7. PICK ks \in Seq(Messages) : ks = Append(ms, k) /\ Bytes(ks) = Cat(Bytes(ms), Framed(k))
  BY BytesAppend
<1>8. PICK ws \in Seq(Messages) : ws = Append(ks, r) /\ Bytes(ws) = Cat(Bytes(ks), Framed(r))
  BY BytesAppend
<1>9. Bytes(ws) = Welcome(report)
  BY <1>1, <1>3, <1>4, <1>5, <1>6, <1>7, <1>8, Zenon DEF Welcome, Cat
<1>10. Len(ms) = c + 1 /\ Len(ks) = c + 2 /\ Len(ws) = c + 3
  <2>1. Len(ms) = c + 1
    BY <1>1, <1>2, <1>6
  <2>2. Len(ks) = c + 2
    BY <1>7, <2>1
  <2>3. Len(ws) = c + 3
    BY <1>8, <2>2
  <2> QED
    BY <2>1, <2>2, <2>3
<1>11. /\ \A i \in 1..(c + 1) : ws[i] = ms[i]
       /\ ws[c + 2] = k /\ ws[c + 3] = r
  <2>1. \A i \in 1..(c + 1) : ks[i] = ms[i]
    BY <1>7, <1>10, AppendProperties
  <2>2. ks[c + 2] = k
    BY <1>7, <1>10, AppendProperties
  <2>3. \A i \in 1..(c + 2) : ws[i] = ks[i]
    BY <1>8, <1>10, AppendProperties
  <2>4. ws[c + 3] = r
    BY <1>8, <1>10, AppendProperties
  <2>5. c + 2 \in 1..(c + 2) /\ \A i \in 1..(c + 1) : i \in 1..(c + 2)
    OBVIOUS
  <2> QED
    BY <2>1, <2>2, <2>3, <2>4, <2>5
<1>12. \A i \in 1..(c + 3) : ws[i].type = Opens(i)
  <2> SUFFICES ASSUME NEW i \in 1..(c + 3)
               PROVE  ws[i].type = Opens(i)
    BY Zenon
  <2>1. CASE i = 1
    <3>1. ws[1] = a
      BY <1>6, <1>11
    <3> QED
      BY <1>2, <1>3, <2>1, <3>1 DEF Opens
  <2>2. CASE i \in 2..(c + 1)
    <3>1. PICK j \in 1..c : i = j + 1
      BY <2>2
    <3>2. ws[i] = ss[j]
      <4>1. ms[j + 1] = ss[j]
        BY <1>1, <1>2, <1>6
      <4> QED
        BY <1>11, <2>2, <3>1, <4>1
    <3>3. ss[j].type = 83
      BY <1>1, <1>2
    <3> QED
      BY <1>2, <2>2, <3>2, <3>3 DEF Opens
  <2>3. CASE i = c + 2
    BY <1>2, <1>4, <1>11, <2>3, OpensIs
  <2>4. CASE i = c + 3
    BY <1>2, <1>5, <1>11, <2>4, OpensIs
  <2> QED
    BY <2>1, <2>2, <2>3, <2>4
<1>13. Begins(ws)
  BY <1>2, <1>10, <1>12 DEF Begins
<1>14. Positions(ws, 90) = {c + 3} /\ Positions(ws, 69) = {}
  <2>1. PICK e, D : e \in Nat /\ e = c + 3 /\ D = 1..e
    OBVIOUS
  <2>2. DOMAIN ws = D
    <3>1. DOMAIN ws = 1..Len(ws)
      BY LenProperties, Zenon
    <3>2. Len(ws) = e
      BY <1>10, <2>1
    <3> QED
      BY <2>1, <3>1, <3>2, Zenon
  <2>3. \A i \in D : Opens(i) # 69 /\ (Opens(i) = 90 <=> i = e)
    BY <1>2, <2>1 DEF Opens
  <2>4. \A i \in D : ws[i].type = Opens(i)
    BY <1>12, <2>1, Zenon
  <2>5. \A i \in D : ws[i].type # 69 /\ (ws[i].type = 90 <=> i = e)
    <3> SUFFICES ASSUME NEW i \in D
                 PROVE  ws[i].type # 69 /\ (ws[i].type = 90 <=> i = e)
      BY Zenon
    <3>1. ws[i].type = Opens(i)
      BY <2>4, Zenon
    <3>2. Opens(i) # 69 /\ (Opens(i) = 90 <=> i = e)
      BY <2>3, Zenon
    <3> QED
      BY <3>1, <3>2
  <2>6. e \in D
    BY <2>1
  <2>7. EndsReady(ws, D, e)
    BY <2>2, <2>5, <2>6, Zenon DEF EndsReady
  <2>8. Positions(ws, 90) = {e} /\ Positions(ws, 69) = {}
    BY <2>7, OnlyOne
  <2> QED
    BY <2>1, <2>8, Zenon
<1>15. IsFiniteSet(Positions(ws, 90)) /\ Cardinality(Positions(ws, 90)) = 1
  <2>1. PICK e : Positions(ws, 90) = {e}
    BY <1>14
  <2>2. IsFiniteSet({e}) /\ Cardinality({e}) = 1
    BY FS_Singleton
  <2> QED
    BY <2>1, <2>2, Zenon
<1>16. 1 \in Nat /\ \A i \in Positions(ws, 69) : i + 1 \in Positions(ws, 90)
  BY <1>14
<1>17. Tells(d, ws, Cat(d, Welcome(report)), 1)
  BY <1>9, <1>13, <1>15, <1>16, Zenon DEF Tells
<1> QED
  BY <1>17

(* The length of a stream is that of the bodies and 5 for each message.    *)
Bodies(ms) == FlattenSeq([i \in DOMAIN ms |-> ms[i].body])

LEMMA BodiesSeq ==
  ASSUME NEW ms \in Seq(Messages)
  PROVE  \E t \in Seq(Seq(Byte)) :
           /\ Bodies(ms) = FlattenSeq(t)
           /\ Len(t) = Len(ms) /\ \A i \in 1..Len(ms) : t[i] = ms[i].body
<1>1. PICK t : t = [i \in DOMAIN ms |-> ms[i].body]
  OBVIOUS
<1>2. DOMAIN ms = 1..Len(ms) /\ Len(ms) \in Nat /\ \A i \in 1..Len(ms) : ms[i] \in Messages
  OBVIOUS
<1>3. t = [i \in 1..Len(ms) |-> t[i]] /\ \A i \in 1..Len(ms) : t[i] = ms[i].body
  BY <1>1, <1>2
<1>4. \A i \in 1..Len(ms) : t[i] \in Seq(Byte)
  BY <1>2, <1>3, FramedTyped
<1>5. t \in Seq(Seq(Byte)) /\ Len(t) = Len(ms)
  BY <1>2, <1>3, <1>4, Enumerated
<1> QED
  BY <1>1, <1>3, <1>5 DEF Bodies

LEMMA BodiesHead ==
  ASSUME NEW ms \in Seq(Messages), ms # <<>>
  PROVE  /\ Bodies(ms) = Cat(ms[1].body, Bodies(Tail(ms)))
         /\ Bodies(Tail(ms)) \in Seq(Byte)
<1>1. PICK t \in Seq(Seq(Byte)) :
           /\ Bodies(ms) = FlattenSeq(t)
           /\ Len(t) = Len(ms) /\ \A i \in 1..Len(ms) : t[i] = ms[i].body
  BY BodiesSeq
<1>2. PICK ns \in Seq(Messages) : ns = Tail(ms)
  BY BytesHead, Zenon
<1>3. PICK u \in Seq(Seq(Byte)) :
           /\ Bodies(ns) = FlattenSeq(u)
           /\ Len(u) = Len(ns) /\ \A i \in 1..Len(ns) : u[i] = ns[i].body
  BY BodiesSeq
<1>4. PICK n \in Nat : n = Len(ns)
  OBVIOUS
<1>5. Len(ms) = n + 1 /\ (\A i \in 1..n : ns[i] = ms[i + 1])
  BY <1>2, <1>4
<1>6. t # <<>> /\ Tail(t) \in Seq(Seq(Byte)) /\ Len(Tail(t)) = n
      /\ \A i \in 1..n : Tail(t)[i] = t[i + 1]
  BY <1>1, <1>5
<1>7. \A i \in 1..n : Tail(t)[i] = u[i]
  <2>1. \A i \in 1..n : i + 1 \in 1..Len(ms) /\ i \in 1..Len(ns)
    BY <1>4, <1>5
  <2>2. \A i \in 1..n : t[i + 1] = ns[i].body /\ u[i] = ns[i].body
    BY <1>1, <1>3, <1>5, <2>1, Zenon
  <2> QED
    BY <1>6, <2>2, Zenon
<1>8. Tail(t) = u
  <2>1. Len(u) = n
    BY <1>3, <1>4
  <2> QED
    BY <1>6, <1>7, <2>1, SeqEqual
<1>9. t[1] = ms[1].body
  BY <1>1, <1>5
<1>10. FlattenSeq(t) = Cat(t[1], FlattenSeq(Tail(t)))
  BY <1>6, FlattenTail
<1>11. Bodies(ns) \in Seq(Byte)
  BY <1>3, FlattenTyped
<1> QED
  BY <1>1, <1>2, <1>3, <1>8, <1>9, <1>10, <1>11, Zenon

LEMMA Sized ==
  ASSUME NEW ms \in Seq(Messages)
  PROVE  Len(Bytes(ms)) = Size(ms)
<1>1. PICK n \in Nat : n = Len(ms)
  OBVIOUS
<1> DEFINE Good == {k \in 0..n : \A ns \in Seq(Messages) : Len(ns) = k =>
                      Len(Bytes(ns)) = Len(Bodies(ns)) + 5 * k}
<1>2. 0 \in Good
  <2>1. ASSUME NEW ns \in Seq(Messages), Len(ns) = 0
        PROVE  Len(Bytes(ns)) = Len(Bodies(ns)) + 5 * 0
    <3>1. ns = <<>>
      BY <2>1
    <3>2. [i \in DOMAIN <<>> |-> <<>>[i].body] = <<>>
      OBVIOUS
    <3>3. Bodies(<<>>) = <<>>
      BY <3>2, FlattenEmpty, Zenon DEF Bodies
    <3>4. Bytes(ns) = <<>> /\ Bodies(ns) = <<>>
      BY <3>1, <3>3, BytesEmpty, Zenon
    <3> QED
      BY <3>4
  <2> QED
    BY <1>1, <2>1
<1>3. ASSUME NEW k \in 0..(n - 1), k \in Good PROVE k + 1 \in Good
  <2>1. ASSUME NEW ns \in Seq(Messages), Len(ns) = k + 1
        PROVE  Len(Bytes(ns)) = Len(Bodies(ns)) + 5 * (k + 1)
    <3>1. ns # <<>> /\ Len(Tail(ns)) = k
      BY <1>1, <2>1
    <3>2. PICK m \in Messages, ls \in Seq(Messages) : m = ns[1] /\ ls = Tail(ns)
      BY <3>1, BytesHead
    <3>3. Bytes(ns) = Cat(Framed(m), Bytes(ls)) /\ Bodies(ns) = Cat(m.body, Bodies(ls))
          /\ Bodies(ls) \in Seq(Byte)
      BY <3>1, <3>2, BytesHead, BodiesHead
    <3>4. Bytes(ls) \in Seq(Byte) /\ m.body \in Seq(Byte)
          /\ Framed(m) \in Seq(Byte) /\ Len(Framed(m)) = 5 + Len(m.body)
      BY BytesTyped, FramedTyped
    <3>5. Len(Bytes(ls)) = Len(Bodies(ls)) + 5 * k
      <4>1. Len(ls) = k
        BY <3>1, <3>2
      <4> QED
        BY <1>3, <4>1
    <3>6. Len(Bytes(ns)) = Len(Framed(m)) + Len(Bytes(ls))
      BY <3>3, <3>4, ByteCat
    <3>7. Len(Bodies(ns)) = Len(m.body) + Len(Bodies(ls))
      <4>1. PICK c \in Seq(Byte), bs \in Seq(Byte) : c = m.body /\ bs = Bodies(ls)
        BY <3>3, <3>4
      <4>2. Len(Cat(c, bs)) = Len(c) + Len(bs)
        BY ByteCat
      <4> QED
        BY <3>3, <4>1, <4>2, Zenon
    <3>8. PICK x \in Nat, y \in Nat : x = Len(m.body) /\ y = Len(Bodies(ls))
      BY <3>3, <3>4
    <3>9. Len(Bytes(ns)) = 5 + x + (y + 5 * k)
      BY <3>4, <3>5, <3>6, <3>8
    <3>10. Len(Bodies(ns)) = x + y
      BY <3>7, <3>8
    <3> QED
      BY <1>1, <3>9, <3>10
  <2> QED
    BY <1>1, <2>1
<1>4. \A k \in 0..n : k \in Good
  <2> HIDE DEF Good
  <2> QED
    BY <1>1, <1>2, <1>3, UpTo
<1>5. Len(Bytes(ms)) = Len(Bodies(ms)) + 5 * n
  BY <1>1, <1>4
<1> QED
  BY <1>1, <1>5, Zenon DEF Size, Bodies

(* The client has read the bytes d and then whole messages, n of them      *)
(* ReadyForQuery: one for the start-up and for each message that asks for  *)
(* it or has failed.                                                       *)
Spoken(d, o, n) == \E ms : Tells(d, ms, o, n)
Denial == IF start.kind = "ssl" THEN <<78>> ELSE <<>>
AsksOf(g) == CASE g.type = "query" -> ~Deallocates(g.msg.string) [] OTHER -> g.type = "sync"
Answered == {i \in DOMAIN got : AsksOf(got[i]) \/ i \in failed}

Told ==
  /\ out \in Seq(Byte)
  /\ phase = "probe" => out = <<>>
  /\ phase = "denied" => out = <<78>>
  /\ phase = "serving" =>
       \E n \in Nat : n = 1 + Cardinality(Answered) /\ Spoken(Denial, out, n)

LEMMA SpokenMore ==
  ASSUME NEW d, NEW o, NEW n, NEW b, NEW asked, Spoken(d, o, n), Adds(b, asked)
  PROVE  Spoken(d, Cat(o, b), IF asked THEN n + 1 ELSE n)
  BY Zenon DEF Spoken, Adds

LEMMA AnsweredFinite ==
  ASSUME Progress
  PROVE  /\ IsFiniteSet(Answered) /\ Cardinality(Answered) \in Nat
         /\ Answered = {i \in 1..Len(got) : AsksOf(got[i]) \/ i \in failed}
         /\ Answered \subseteq 1..Len(got)
<1>1. DOMAIN got = 1..Len(got) /\ Len(got) \in Nat
  BY RestTyped DEF Progress
<1>2. Answered = {i \in 1..Len(got) : AsksOf(got[i]) \/ i \in failed}
  BY <1>1, Zenon DEF Answered
<1>3. Answered \subseteq 1..Len(got)
  BY <1>2, Zenon
<1>4. IsFiniteSet(1..Len(got))
  BY <1>1, FS_Interval
<1>5. IsFiniteSet(Answered)
  BY <1>3, <1>4, FS_Subset
<1> QED
  BY <1>2, <1>3, <1>5, FS_CardinalityType

(* One more message, which is answered or not.                             *)
LEMMA AnsweredMore ==
  ASSUME NEW g, NEW asked \in BOOLEAN, Progress, got' = Append(got, g),
         failed' = failed \/ failed' = failed \cup {Len(got) + 1},
         asked <=> AsksOf(g) \/ Len(got) + 1 \in failed'
  PROVE  Cardinality(Answered') = IF asked THEN Cardinality(Answered) + 1
                                  ELSE Cardinality(Answered)
<1>1. PICK k \in Nat, m \in Nat : k = Len(got) /\ m = k + 1 /\ failed \subseteq 1..k
  BY RestTyped DEF Progress
<1>2. /\ DOMAIN got' = 1..m /\ got'[m] = g
      /\ \A i \in 1..k : got'[i] = got[i]
  <2>1. PICK s \in Seq({Seen(r) : r \in Requests}) : s = got
    BY DEF Progress
  <2>2. PICK t : t = Append(s, g)
    OBVIOUS
  <2>3. DOMAIN t = 1..m /\ t[m] = g /\ \A i \in 1..k : t[i] = s[i]
    <3> HIDE DEF Seen
    <3> QED
      BY <1>1, <2>1, <2>2
  <2> QED
    BY <2>1, <2>2, <2>3
<1>3. Answered' = {i \in 1..m : AsksOf(got'[i]) \/ i \in failed'}
  BY <1>2, Zenon DEF Answered, AsksOf
<1>4. /\ Answered = {i \in 1..k : AsksOf(got[i]) \/ i \in failed}
      /\ IsFiniteSet(Answered) /\ Answered \subseteq 1..k
  BY <1>1, AnsweredFinite
<1>5. \A i \in 1..k : i \in Answered' <=> i \in Answered
  <2> SUFFICES ASSUME NEW i \in 1..k PROVE i \in Answered' <=> i \in Answered
    OBVIOUS
  <2>1. i \in 1..m /\ i # m
    BY <1>1
  <2>2. i \in failed' <=> i \in failed
    BY <1>1, <2>1
  <2>3. AsksOf(got'[i]) <=> AsksOf(got[i])
    BY <1>2, Zenon
  <2> QED
    BY <1>3, <1>4, <2>1, <2>2, <2>3, Zenon
<1>6. m \in Answered' <=> asked
  <2>1. m \in 1..m
    BY <1>1
  <2>2. AsksOf(got'[m]) \/ m \in failed' <=> asked
    BY <1>1, <1>2
  <2> QED
    BY <1>3, <2>1, <2>2, Zenon
<1>7. Answered' \subseteq 1..m /\ m \notin Answered /\ \A i \in 1..m : i = m \/ i \in 1..k
  BY <1>1, <1>3, <1>4
<1>8. CASE asked
  <2>1. Answered' = Answered \cup {m}
    BY <1>4, <1>5, <1>6, <1>7, <1>8, Zenon
  <2> QED
    BY <1>4, <1>7, <1>8, <2>1, FS_AddElement
<1>9. CASE ~asked
  <2>1. Answered' = Answered
    BY <1>4, <1>5, <1>6, <1>7, <1>9, Zenon
  <2> QED
    BY <1>9, <2>1
<1> QED
  BY <1>8, <1>9

LEMMA ToldTook ==
  ASSUME NEW frame, NEW type, NEW msg, NEW bytes, NEW asked \in BOOLEAN,
         Progress, Told, phase = "serving", Took(frame, type, msg, bytes),
         bytes \in Seq(Byte), Adds(bytes, asked),
         failed' = failed \/ failed' = failed \cup {Len(got) + 1},
         asked <=> AsksOf([type |-> type, msg |-> msg]) \/ Len(got) + 1 \in failed'
  PROVE  Told'
<1>1. /\ got' = Append(got, [type |-> type, msg |-> msg]) /\ out' = Cat(out, bytes)
      /\ phase' = "serving" /\ start' = start
  BY Zenon DEF Took, Cat
<1>2. PICK n \in Nat : n = 1 + Cardinality(Answered) /\ Spoken(Denial, out, n)
  BY DEF Told
<1>3. PICK k \in Nat : k = IF asked THEN n + 1 ELSE n
  BY <1>2
<1>4. PICK d : d = Denial /\ Denial' = d
  BY <1>1 DEF Denial
<1>5. Spoken(d, Cat(out, bytes), k)
  <2>1. Spoken(d, out, n)
    BY <1>2, <1>4, Zenon
  <2>2. Spoken(d, Cat(out, bytes), IF asked THEN n + 1 ELSE n)
    BY <2>1, SpokenMore
  <2> QED
    BY <1>3, <2>2, Zenon
<1>6. k = 1 + Cardinality(Answered')
  <2>1. Cardinality(Answered') = IF asked THEN Cardinality(Answered) + 1
                                 ELSE Cardinality(Answered)
    BY <1>1, AnsweredMore
  <2>2. Cardinality(Answered) \in Nat
    BY AnsweredFinite
  <2> QED
    BY <1>2, <1>3, <2>1, <2>2
<1>7. Spoken(Denial', out', k)
  BY <1>1, <1>4, <1>5, Zenon
<1>8. out' \in Seq(Byte)
  BY <1>1, ByteCat DEF Told
<1>9. \E j \in Nat : j = 1 + Cardinality(Answered') /\ Spoken(Denial', out', j)
  BY <1>6, <1>7, Zenon
<1> QED
  BY <1>1, <1>8, <1>9 DEF Told

(* A handler works and its answer is a message of type t, neither an error *)
(* nor ReadyForQuery.                                                      *)
LEMMA ToldOther ==
  ASSUME NEW frame, NEW type, NEW msg, NEW bytes,
         Progress, Told, phase = "serving", Works(frame, type, msg, bytes),
         bytes \in Seq(Byte), Adds(bytes, FALSE), ~AsksOf([type |-> type, msg |-> msg])
  PROVE  Told'
<1>1. Took(frame, type, msg, bytes) /\ failed' = failed
  BY DEF Works
<1>2. Len(got) + 1 \notin failed'
  BY <1>1, RestTyped DEF Progress
<1>3. FALSE <=> AsksOf([type |-> type, msg |-> msg]) \/ Len(got) + 1 \in failed'
  BY <1>2
<1> QED
  BY <1>1, <1>3, ToldTook

LEMMA ToldReady ==
  ASSUME NEW frame, NEW type, NEW msg, NEW bytes,
         Progress, Told, phase = "serving", Works(frame, type, msg, bytes),
         bytes \in Seq(Byte), Adds(bytes, TRUE), AsksOf([type |-> type, msg |-> msg])
  PROVE  Told'
<1>1. Took(frame, type, msg, bytes) /\ failed' = failed
  BY DEF Works
<1>2. TRUE <=> AsksOf([type |-> type, msg |-> msg]) \/ Len(got) + 1 \in failed'
  OBVIOUS
<1> QED
  BY <1>1, <1>2, ToldTook

LEMMA ToldRefused ==
  ASSUME NEW frame, NEW type, NEW msg,
         Progress, Told, phase = "serving", Refused(frame, type, msg)
  PROVE  Told'
<1>1. PICK error \in Errors, ready \in Ready : Took(frame, type, msg, error \o ready)
  BY Zenon DEF Refused
<1>2. IsMessage(error, 69) /\ IsMessage(ready, 90)
  BY ErrorIs, ReadyIs
<1>3. PICK bytes : bytes = Cat(error, ready)
  OBVIOUS
<1>4. bytes \in Seq(Byte) /\ Adds(bytes, TRUE)
  <2>1. error \in Seq(Byte) /\ ready \in Seq(Byte)
    BY <1>2, MessageTyped
  <2> QED
    BY <1>2, <1>3, <2>1, AddsError, ByteCat
<1>5. Took(frame, type, msg, bytes)
  BY <1>1, <1>3, Zenon DEF Cat
<1>6. failed' = failed \cup {Len(got) + 1}
  BY Zenon DEF Refused
<1>7. TRUE <=> AsksOf([type |-> type, msg |-> msg]) \/ Len(got) + 1 \in failed'
  BY <1>6
<1> QED
  BY <1>4, <1>5, <1>6, <1>7, ToldTook

(* Whatever a handler does that asks for nothing.                          *)
LEMMA ToldHandled ==
  ASSUME NEW frame, NEW type, NEW msg, NEW bytes,
         Progress, Told, phase = "serving",
         Works(frame, type, msg, bytes) \/ Refused(frame, type, msg),
         IsOther(bytes), type \notin {"query", "sync"}
  PROVE  Told'
<1>1. bytes \in Seq(Byte) /\ Adds(bytes, FALSE)
  BY AddsOther
<1>2. ~AsksOf([type |-> type, msg |-> msg])
  BY DEF AsksOf
<1> QED
  BY <1>1, <1>2, ToldOther, ToldRefused

LEMMA ServingTaken ==
  ASSUME NEW type, NEW frame \in Taken(type)
  PROVE  phase = "serving"
  BY DEF Taken

LEMMA ToldQuery ==
  ASSUME Progress, Told, HandleSimpleQuery
  PROVE  Told'
<1>0. PICK frame \in Taken("query") : \E query :
        \/ \E result \in Results, ready \in Ready :
             Works(frame, "query", query,
                   result \o (IF Deallocates(query.string) THEN <<>> ELSE ready))
        \/ Refused(frame, "query", query)
  BY Zenon DEF HandleSimpleQuery
<1>1. PICK query :
        \/ \E result \in Results, ready \in Ready :
             Works(frame, "query", query,
                   result \o (IF Deallocates(query.string) THEN <<>> ELSE ready))
        \/ Refused(frame, "query", query)
  BY <1>0, Zenon
<1>2. phase = "serving"
  BY ServingTaken
<1>3. CASE Refused(frame, "query", query)
  BY <1>2, <1>3, ToldRefused
<1>4. CASE \E result \in Results, ready \in Ready :
             Works(frame, "query", query,
                   result \o (IF Deallocates(query.string) THEN <<>> ELSE ready))
  <2>1. PICK result \in Results, ready \in Ready :
          Works(frame, "query", query,
                Cat(result, IF Deallocates(query.string) THEN <<>> ELSE ready))
    BY <1>4, Zenon DEF Cat
  <2>2. result \in Seq(Byte) /\ Adds(result, FALSE)
    <3>1. IsOther(result)
      BY Others
    <3> QED
      BY <3>1, AddsOther
  <2>3. ready \in Seq(Byte) /\ Adds(ready, TRUE)
    BY ReadyIs, MessageTyped, AddsReady
  <2>4. AsksOf([type |-> "query", msg |-> query]) <=> ~Deallocates(query.string)
    BY DEF AsksOf
  <2>5. CASE Deallocates(query.string)
    <3>1. Cat(result, <<>>) = result
      BY <2>2, CatEmpty
    <3>2. Works(frame, "query", query, result)
      BY <2>1, <2>5, <3>1, Zenon
    <3>3. ~AsksOf([type |-> "query", msg |-> query])
      BY <2>4, <2>5
    <3> QED
      BY <1>2, <2>2, <3>2, <3>3, ToldOther
  <2>6. CASE ~Deallocates(query.string)
    <3>1. PICK bytes : bytes = Cat(result, ready)
      OBVIOUS
    <3>2. Works(frame, "query", query, bytes)
      BY <2>1, <2>6, <3>1, Zenon
    <3>3. bytes \in Seq(Byte) /\ Adds(bytes, TRUE)
      BY <2>2, <2>3, <3>1, AddsTwo, ByteCat
    <3>4. AsksOf([type |-> "query", msg |-> query])
      BY <2>4, <2>6
    <3> QED
      BY <1>2, <3>2, <3>3, <3>4, ToldReady
  <2> QED
    BY <2>5, <2>6
<1> QED
  BY <1>1, <1>3, <1>4

LEMMA ToldParse ==
  ASSUME Progress, Told, HandleParse
  PROVE  Told'
<1>0. PICK frame \in Taken("parse") : \E parse : Works(frame, "parse", parse, SendParseComplete)
  BY Zenon DEF HandleParse
<1>1. PICK parse : Works(frame, "parse", parse, SendParseComplete)
  BY <1>0, Zenon
<1> QED
  BY <1>1, ServingTaken, Others, ToldHandled

LEMMA ToldBind ==
  ASSUME Progress, Told, HandleBind
  PROVE  Told'
<1>0. PICK frame \in Taken("bind") : \E bind :
        Works(frame, "bind", bind, SendBindComplete) \/ Refused(frame, "bind", bind)
  BY Zenon DEF HandleBind
<1>1. PICK bind :
        Works(frame, "bind", bind, SendBindComplete) \/ Refused(frame, "bind", bind)
  BY <1>0, Zenon
<1>2. phase = "serving" /\ IsOther(SendBindComplete)
  BY ServingTaken, Others
<1>3. "bind" \notin {"query", "sync"}
  OBVIOUS
<1> QED
  BY <1>1, <1>2, <1>3, ToldHandled, Zenon

LEMMA ToldExecute ==
  ASSUME Progress, Told, HandleExecute
  PROVE  Told'
<1>0. PICK frame \in Taken("execute") : \E execute :
        Works(frame, "execute", execute, SendCommandComplete(<<79>>))
          \/ Refused(frame, "execute", execute)
  BY Zenon DEF HandleExecute
<1>1. PICK execute :
        Works(frame, "execute", execute, SendCommandComplete(<<79>>))
          \/ Refused(frame, "execute", execute)
  BY <1>0, Zenon
<1>2. phase = "serving" /\ IsOther(SendCommandComplete(<<79>>))
  BY ServingTaken, Others
<1>3. "execute" \notin {"query", "sync"}
  OBVIOUS
<1> QED
  BY <1>1, <1>2, <1>3, ToldHandled, Zenon

LEMMA ToldDescribe ==
  ASSUME Progress, Told, HandleDescribe
  PROVE  Told'
<1>0. PICK frame \in Taken("describe") : \E describe :
        \/ Works(frame, "describe", describe, SendParameterDescription(<<25>>) \o SendNoData)
        \/ Refused(frame, "describe", describe)
  BY Zenon DEF HandleDescribe
<1>1. PICK describe :
        \/ Works(frame, "describe", describe, SendParameterDescription(<<25>>) \o SendNoData)
        \/ Refused(frame, "describe", describe)
  BY <1>0, Zenon
<1>2. phase = "serving"
  BY ServingTaken
<1>3. PICK a, b : a = SendParameterDescription(<<25>>) /\ b = SendNoData
  OBVIOUS
<1>4. IsOther(a) /\ IsOther(b)
  BY <1>3, Others
<1>5. a \in Seq(Byte) /\ Adds(a, FALSE) /\ b \in Seq(Byte) /\ Adds(b, FALSE)
  <2>1. a \in Seq(Byte) /\ Adds(a, FALSE)
    BY <1>4, AddsOther
  <2>2. b \in Seq(Byte) /\ Adds(b, FALSE)
    BY <1>4, AddsOther
  <2> QED
    BY <2>1, <2>2
<1>6. Cat(a, b) \in Seq(Byte) /\ Adds(Cat(a, b), FALSE)
  BY <1>5, AddsTwo, ByteCat
<1>7. Works(frame, "describe", describe, Cat(a, b)) \/ Refused(frame, "describe", describe)
  BY <1>1, <1>3, Zenon DEF Cat
<1>8. ~AsksOf([type |-> "describe", msg |-> describe])
  BY DEF AsksOf
<1>9. CASE Works(frame, "describe", describe, Cat(a, b))
  BY <1>2, <1>6, <1>8, <1>9, ToldOther
<1>10. CASE Refused(frame, "describe", describe)
  BY <1>2, <1>10, ToldRefused
<1> QED
  BY <1>7, <1>9, <1>10

LEMMA ToldHandleClose ==
  ASSUME Progress, Told, HandleClose
  PROVE  Told'
<1>0. PICK frame \in Taken("close") : \E msg : Works(frame, "close", msg, SendCloseComplete)
  BY Zenon DEF HandleClose
<1>1. PICK msg : Works(frame, "close", msg, SendCloseComplete)
  BY <1>0, Zenon
<1> QED
  BY <1>1, ServingTaken, Others, ToldHandled

LEMMA ToldSync ==
  ASSUME Progress, Told, HandleSync
  PROVE  Told'
<1>1. PICK frame \in Taken("sync"), ready \in Ready : Works(frame, "sync", Nothing, ready)
  BY Zenon DEF HandleSync
<1>2. ready \in Seq(Byte) /\ Adds(ready, TRUE)
  BY ReadyIs, MessageTyped, AddsReady
<1>3. AsksOf([type |-> "sync", msg |-> Nothing])
  BY DEF AsksOf
<1> QED
  BY <1>1, <1>2, <1>3, ServingTaken, ToldReady

LEMMA ToldIgnore ==
  ASSUME Progress, Told, Ignore
  PROVE  Told'
<1>1. PICK type \in {"flush", "password", "terminate", "other"} :
        \E frame \in Taken(type) : Works(frame, type, Nothing, <<>>)
  BY Zenon DEF Ignore
<1>2. PICK frame \in Taken(type) : Works(frame, type, Nothing, <<>>)
  BY <1>1
<1>3. ~AsksOf([type |-> type, msg |-> Nothing])
  BY DEF AsksOf
<1>4. <<>> \in Seq(Byte)
  BY EmptyBytes
<1> QED
  BY <1>2, <1>3, <1>4, AddsNothing, ServingTaken, ToldOther

LEMMA ToldInit ==
  ASSUME Init
  PROVE  Told
<1>1. out = <<>> /\ phase = "probe"
  BY DEF Init
<1> QED
  BY <1>1, EmptyBytes DEF Told

LEMMA ToldDenySSL ==
  ASSUME DenySSL
  PROVE  Told'
<1>1. out' = <<78>> /\ phase' = "denied"
  BY DEF DenySSL
<1>2. <<78>> \in Seq(Byte)
  BY BytesOf, SmallTyped
<1> QED
  BY <1>1, <1>2 DEF Told

LEMMA ToldAccept ==
  ASSUME Progress, Arrived, Told, Accept
  PROVE  Told'
<1>1. /\ Starting /\ Len(wire) >= 8 /\ (phase = "denied" \/ Code # SSLCode)
      /\ phase' = "serving" /\ UNCHANGED <<start, got, failed>>
  BY DEF Accept
<1>2. PICK report \in Reports : out' = Cat(out, Welcome(report))
  BY Zenon DEF Accept, Cat
<1>3. got = <<>> /\ failed = {}
  <2>1. got = <<>> /\ failed \subseteq 1..Len(got)
    BY <1>1 DEF Progress, Starting
  <2>2. Len(got) = 0
    BY <2>1
  <2> QED
    BY <2>1, <2>2
<1>4. Answered' = {}
  <2>1. got' = <<>>
    BY <1>1, <1>3
  <2>2. DOMAIN got' = {}
    BY <2>1
  <2> QED
    BY <2>2, Zenon DEF Answered
<1>5. Cardinality(Answered') = 0
  BY <1>4, FS_EmptySet
<1>6. start.kind = "ssl" <=> phase = "denied"
  <2>1. CASE phase = "probe"
    <3>1. \E b, l, c :
           /\ Opening(b, l, c) /\ Prefix(wire, Cat(b, Rest))
           /\ Unread = Cat(b, Rest) /\ Length = l /\ Code = c
           /\ phase = "probe" => b = FirstBytes(start) /\ (c = SSLCode <=> start.kind = "ssl")
      BY <1>1, BeforeStart
    <3>2. Code = SSLCode <=> start.kind = "ssl"
      BY <2>1, <3>1, Zenon
    <3> QED
      BY <1>1, <2>1, <3>2
  <2>2. CASE phase = "denied"
    BY <2>2 DEF Progress
  <2> QED
    BY <1>1, <2>1, <2>2 DEF Starting
<1>7. out = Denial
  BY <1>1, <1>6 DEF Told, Starting, Denial
<1>8. PICK d \in Seq(Byte) : d = out /\ d = Denial
  BY <1>7 DEF Told
<1>9. Denial' = d
  BY <1>1, <1>8 DEF Denial
<1>10. \E ws : Tells(d, ws, Cat(d, Welcome(report)), 1)
  BY WelcomeTold
<1>11. Spoken(Denial', out', 1)
  BY <1>2, <1>8, <1>9, <1>10, Zenon DEF Spoken
<1>12. out' \in Seq(Byte)
  <2>1. PICK ws : Tells(d, ws, Cat(d, Welcome(report)), 1)
    BY <1>10
  <2>2. Cat(d, Welcome(report)) \in Seq(Byte)
    BY <2>1, TellsTyped
  <2> QED
    BY <1>2, <1>8, <2>2
<1>13. \E n \in Nat : n = 1 + Cardinality(Answered') /\ Spoken(Denial', out', n)
  <2>1. 1 \in Nat /\ 1 = 1 + Cardinality(Answered')
    BY <1>5
  <2> QED
    BY <1>11, <2>1, Zenon
<1> QED
  BY <1>1, <1>12, <1>13 DEF Told

LEMMA ToldSame ==
  ASSUME Told, UNCHANGED <<start, phase, got, failed, out>>
  PROVE  Told'
<1>1. Answered' = Answered /\ Denial' = Denial
  BY Zenon DEF Answered, AsksOf, Denial
<1>2. out' = out /\ phase' = phase
  OBVIOUS
<1>3. phase = "serving" =>
        \E n \in Nat : n = 1 + Cardinality(Answered') /\ Spoken(Denial', out', n)
  BY <1>1, <1>2, Zenon DEF Told
<1> QED
  BY <1>2, <1>3 DEF Told

LEMMA ToldNext ==
  ASSUME Progress, Arrived, Told, [Next]_vars
  PROVE  Told'
<1>1. CASE UNCHANGED vars
  <2>1. UNCHANGED <<start, phase, got, failed, out>>
    BY <1>1 DEF vars
  <2> QED
    BY <2>1, ToldSame
<1>2. CASE SendStartup \/ (\E r \in Requests : Send(r)) \/ \E k \in 0..Len(wire) : Break(k)
  <2>1. UNCHANGED <<start, phase, got, failed, out>>
    BY <1>2 DEF SendStartup, Send, Break
  <2> QED
    BY <2>1, ToldSame
<1>3. CASE Reject \/ HangUp
  <2>1. phase' = "closed" /\ out' = out
    BY <1>3 DEF Reject, HangUp, Close
  <2> QED
    BY <2>1 DEF Told
<1>4. CASE DenySSL \/ Accept
  BY <1>4, ToldDenySSL, ToldAccept
<1>5. CASE \/ HandleSimpleQuery \/ HandleParse \/ HandleBind \/ HandleExecute
           \/ HandleDescribe \/ HandleClose
  BY <1>5, ToldQuery, ToldParse, ToldBind, ToldExecute, ToldDescribe, ToldHandleClose
<1>6. CASE HandleSync \/ Ignore
  BY <1>6, ToldSync, ToldIgnore
<1> QED
  BY <1>1, <1>2, <1>3, <1>4, <1>5, <1>6, Zenon DEF Next

(* Whatever the handlers do, the client has got whole messages, with one   *)
(* ReadyForQuery for each that asks for it or failed                       *)
(* (writer.go:24-34, server.go:185-297).                                   *)
THEOREM AnswersKept == Spec => [](Progress /\ Arrived /\ Told)
<1>1. Init => Progress /\ Arrived /\ Told
  BY ArrivedInit, ToldInit
<1>2. Progress /\ Arrived /\ Told /\ [Next]_vars => (Progress /\ Arrived /\ Told)'
  BY ArrivedNext, ToldNext
<1> QED
  BY <1>1, <1>2, PTL DEF Spec

(* Every variable keeps its type, and only messages that were handled      *)
(* have failed (server.go:128-297).                                        *)
THEOREM TypeCorrect == Spec => []TypeOK
<1>1. Progress /\ Told => TypeOK
  BY DEF Progress, Told, TypeOK
<1> QED
  BY <1>1, AnswersKept, PTL

(* What the client reads behind the byte that denies SSL.                  *)
LEMMA ReadBackIs ==
  ASSUME Told, phase = "serving"
  PROVE  \E ms \in Seq(Messages), n \in Nat :
           /\ ReadBack = {ms} /\ Begins(ms) /\ n = 1 + Cardinality(Answered)
           /\ Cardinality(Positions(ms, 90)) = n
           /\ \A i \in Positions(ms, 69) : i + 1 \in Positions(ms, 90)
           /\ Len(out) = Size(ms) + IF start.kind = "ssl" THEN 1 ELSE 0
<1>1. PICK n \in Nat : n = 1 + Cardinality(Answered) /\ Spoken(Denial, out, n)
  BY DEF Told
<1>2. PICK ms : Tells(Denial, ms, out, n)
  BY <1>1, Zenon DEF Spoken
<1>3. /\ Denial \in Seq(Byte) /\ ms \in Seq(Messages) /\ out = Cat(Denial, Bytes(ms))
      /\ Begins(ms) /\ Cardinality(Positions(ms, 90)) = n
      /\ \A i \in Positions(ms, 69) : i + 1 \in Positions(ms, 90)
  BY <1>2 DEF Tells
<1>4. PICK b \in Seq(Byte) : b = Bytes(ms) /\ Len(b) = Size(ms) /\ Frames(b) = ms
  BY <1>3, BytesTyped, Sized, FramesRead
<1>5. (IF start.kind = "ssl" THEN Tail(out) ELSE out) = b
  <2>1. CASE start.kind = "ssl"
    <3>1. out = Cat(<<78>>, b)
      BY <1>3, <1>4, <2>1 DEF Denial
    <3>2. Tail(Cat(<<78>>, b)) = b
      BY DEF Cat
    <3> QED
      BY <2>1, <3>1, <3>2
  <2>2. CASE start.kind # "ssl"
    <3>1. out = Cat(<<>>, b)
      BY <1>3, <1>4, <2>2 DEF Denial
    <3> QED
      BY <2>2, <3>1, CatEmpty
  <2> QED
    BY <2>1, <2>2
<1>6. ReadBack = {ms}
  BY <1>4, <1>5, Zenon DEF ReadBack
<1>7. Len(out) = Size(ms) + IF start.kind = "ssl" THEN 1 ELSE 0
  <2>1. Len(out) = Len(Denial) + Len(b)
    BY <1>3, <1>4, ByteCat
  <2>2. Len(Denial) = IF start.kind = "ssl" THEN 1 ELSE 0
    BY DEF Denial
  <2>3. Len(b) \in Nat
    OBVIOUS
  <2> QED
    BY <1>4, <2>1, <2>2, <2>3
<1> QED
  BY <1>1, <1>3, <1>6, <1>7, Zenon

LEMMA OpeningTypes ==
  ASSUME NEW ms \in Seq(Messages), NEW n \in Nat, n = Cardinality(StatusParams), Begins(ms)
  PROVE  SubSeq(Types(ms), 1, n + 3) = <<82>> \o [i \in 1..n |-> 83] \o <<75, 90>>
<1>1. n + 3 <= Len(ms) /\ \A i \in 1..(n + 3) : ms[i].type = Opens(i)
  BY Zenon DEF Begins
<1>2. PICK k \in Nat : k = n + 3
  OBVIOUS
<1>3. PICK ts : ts = Types(ms)
  OBVIOUS
<1>4. ts \in Seq(Byte) /\ Len(ts) = Len(ms) /\ \A i \in 1..Len(ms) : ts[i] = ms[i].type
  <2>1. DOMAIN ms = 1..Len(ms) /\ Len(ms) \in Nat
    OBVIOUS
  <2>2. ts = [i \in 1..Len(ms) |-> ts[i]] /\ \A i \in 1..Len(ms) : ts[i] = ms[i].type
    BY <1>3, <2>1 DEF Types
  <2>3. \A i \in 1..Len(ms) : ts[i] \in Byte
    <3>1. \A i \in 1..Len(ms) : ms[i] \in Messages
      OBVIOUS
    <3>2. \A i \in 1..Len(ms) : ms[i].type \in Byte
      BY <3>1, FramedTyped, Zenon
    <3> QED
      BY <2>2, <3>2, Zenon
  <2> QED
    BY <2>1, <2>2, <2>3, Enumerated
<1>5. PICK s : s = SubSeq(ts, 1, k)
  OBVIOUS
<1>6. s \in Seq(Byte) /\ Len(s) = k /\ \A i \in 1..k : s[i] = ts[i]
  <2>1. k <= Len(ts)
    BY <1>1, <1>2, <1>4
  <2> QED
    BY <1>2, <1>4, <1>5, <2>1
<1>7. PICK f : f = [i \in 1..n |-> 83]
  OBVIOUS
<1>8. f \in Seq(Byte) /\ Len(f) = n /\ \A i \in 1..n : f[i] = 83
  BY <1>7, BytesOf
<1>9. PICK x \in Seq(Byte) :
        /\ x = <<82>> \o f /\ Len(x) = n + 1 /\ x[1] = 82 /\ \A i \in 1..n : x[i + 1] = 83
  <2>1. <<82>> \in Seq(Byte)
    BY BytesOf, SmallTyped
  <2>2. <<82>> \o f \in Seq(Byte)
    BY <1>8, <2>1
  <2>3. /\ Len(<<82>> \o f) = n + 1 /\ (<<82>> \o f)[1] = 82
        /\ \A i \in 1..n : (<<82>> \o f)[i + 1] = 83
    BY <1>8, <2>1
  <2> QED
    BY <2>2, <2>3
<1>10. PICK y \in Seq(Byte) :
        /\ y = x \o <<75, 90>> /\ Len(y) = n + 3 /\ y[n + 2] = 75 /\ y[n + 3] = 90
        /\ \A i \in 1..(n + 1) : y[i] = x[i]
  <2>1. PICK e \in Seq(Byte) : e = <<75, 90>> /\ Len(e) = 2 /\ e[1] = 75 /\ e[2] = 90
    <3>1. <<75, 90>> \in Seq(Byte)
      BY BytesOf, SmallTyped
    <3> QED
      BY <3>1
  <2>2. PICK y : y = x \o e
    OBVIOUS
  <2>3. y \in Seq(Byte) /\ Len(y) = Len(x) + Len(e)
        /\ \A i \in 1..Len(y) : y[i] = IF i <= Len(x) THEN x[i] ELSE e[i - Len(x)]
    BY <2>2
  <2>4. Len(y) = n + 3
    BY <1>9, <2>1, <2>3
  <2>5. \A i \in 1..(n + 3) : y[i] = IF i <= n + 1 THEN x[i] ELSE e[i - (n + 1)]
    <3>1. Len(x) = n + 1
      BY <1>9, Zenon
    <3> QED
      BY <2>3, <2>4, <3>1, Zenon
  <2>6. y[n + 2] = e[1]
    <3>1. n + 2 \in 1..(n + 3) /\ ~(n + 2 <= n + 1) /\ (n + 2) - (n + 1) = 1
      OBVIOUS
    <3> QED
      BY <2>5, <3>1, Zenon
  <2>7. y[n + 3] = e[2]
    <3>1. n + 3 \in 1..(n + 3) /\ ~(n + 3 <= n + 1) /\ (n + 3) - (n + 1) = 2
      OBVIOUS
    <3> QED
      BY <2>5, <3>1, Zenon
  <2>8. \A i \in 1..(n + 1) : y[i] = x[i]
    BY <2>5
  <2> QED
    BY <2>1, <2>2, <2>3, <2>4, <2>6, <2>7, <2>8, Zenon
<1>11. \A i \in 1..k : y[i] = Opens(i)
  <2> SUFFICES ASSUME NEW i \in 1..k PROVE y[i] = Opens(i)
    OBVIOUS
  <2>1. CASE i = 1
    <3>1. y[1] = 82
      BY <1>9, <1>10
    <3> QED
      BY <2>1, <3>1, OpensIs
  <2>2. CASE i \in 2..(n + 1)
    <3>1. PICK j \in 1..n : i = j + 1
      BY <2>2
    <3>2. y[i] = 83
      BY <1>9, <1>10, <2>2, <3>1
    <3> QED
      BY <2>2, <3>2, OpensIs
  <2>3. CASE i = n + 2
    BY <1>10, <2>3, OpensIs, Zenon
  <2>4. CASE i = n + 3
    BY <1>10, <2>4, OpensIs, Zenon
  <2> QED
    BY <1>2, <2>1, <2>2, <2>3, <2>4
<1>12. \A i \in 1..k : s[i] = y[i]
  <2> SUFFICES ASSUME NEW i \in 1..k PROVE s[i] = y[i]
    OBVIOUS
  <2>1. i \in 1..Len(ms) /\ i \in 1..(n + 3)
    BY <1>1, <1>2
  <2> QED
    BY <1>1, <1>4, <1>6, <1>11, <2>1, Zenon
<1>13. s = y
  <2>1. Len(y) = k
    BY <1>2, <1>10
  <2> QED
    BY <1>2, <1>6, <1>12, <2>1, SeqEqual
<1>14. y = <<82>> \o [i \in 1..n |-> 83] \o <<75, 90>>
  BY <1>7, <1>9, <1>10, Zenon
<1> QED
  BY <1>2, <1>3, <1>5, <1>13, <1>14, Zenon

(* The client never loses the place in the stream: behind the byte that    *)
(* denies SSL it finds whole messages up to the last byte, first those of  *)
(* the start-up (writer.go:24-34, server.go:185-215).                      *)
THEOREM AnswersInFramesHolds == Spec => []AnswersInFrames
<1>1. ASSUME Told PROVE AnswersInFrames
  <2>1. PICK n \in Nat : n = Cardinality(StatusParams)
    BY ServerAssumption, FS_CardinalityType
  <2>2. ASSUME phase = "serving", NEW messages \in ReadBack
        PROVE  /\ Len(out) = Size(messages) + IF start.kind = "ssl" THEN 1 ELSE 0
               /\ SubSeq(Types(messages), 1, n + 3)
                    = <<82>> \o [i \in 1..n |-> 83] \o <<75, 90>>
    <3>1. PICK ms \in Seq(Messages), j \in Nat :
           /\ ReadBack = {ms} /\ Begins(ms) /\ j = 1 + Cardinality(Answered)
           /\ Cardinality(Positions(ms, 90)) = j
           /\ \A i \in Positions(ms, 69) : i + 1 \in Positions(ms, 90)
           /\ Len(out) = Size(ms) + IF start.kind = "ssl" THEN 1 ELSE 0
      BY <1>1, <2>2, ReadBackIs
    <3>2. messages = ms
      BY <2>2, <3>1
    <3>3. SubSeq(Types(ms), 1, n + 3) = <<82>> \o [i \in 1..n |-> 83] \o <<75, 90>>
      BY <2>1, <3>1, OpeningTypes
    <3> QED
      BY <3>1, <3>2, <3>3, Zenon
  <2> QED
    BY <2>1, <2>2, Zenon DEF AnswersInFrames
<1> QED
  BY <1>1, AnswersKept, PTL

(* A client that counts ReadyForQuery knows which messages are answered,   *)
(* and an error is followed by one at once, in whichever message it        *)
(* happens (server.go:217-297).                                            *)
THEOREM ReadyForEachHolds == Spec => []ReadyForEach
<1>1. ASSUME Told PROVE ReadyForEach
  <2>1. Answered = {i \in DOMAIN got : Asks(i) \/ i \in failed}
    BY Zenon DEF Answered, AsksOf, Asks
  <2>2. ASSUME phase = "serving", NEW messages \in ReadBack
        PROVE  /\ Cardinality(Positions(messages, 90)) = 1 + Cardinality(Answered)
               /\ \A i \in Positions(messages, 69) : i + 1 \in Positions(messages, 90)
    <3>1. PICK ms \in Seq(Messages), j \in Nat :
           /\ ReadBack = {ms} /\ Begins(ms) /\ j = 1 + Cardinality(Answered)
           /\ Cardinality(Positions(ms, 90)) = j
           /\ \A i \in Positions(ms, 69) : i + 1 \in Positions(ms, 90)
           /\ Len(out) = Size(ms) + IF start.kind = "ssl" THEN 1 ELSE 0
      BY <1>1, <2>2, ReadBackIs
    <3>2. messages = ms
      BY <2>2, <3>1
    <3> QED
      BY <3>1, <3>2, Zenon
  <2> QED
    BY <2>1, <2>2, Zenon DEF ReadyForEach
<1> QED
  BY <1>1, AnswersKept, PTL

-----------------------------------------------------------------------------
(* m is the last position of p with the name n.                            *)
LastOf(p, n, m) ==
  /\ m \in 1..Len(p) /\ p[m][1] = n
  /\ \A i \in 1..Len(p) : p[i][1] = n => i <= m

Names(p) == {p[i][1] : i \in 1..Len(p)}

LEMMA HasLast ==
  ASSUME NEW T, NEW p \in Seq(T), NEW n \in Names(p)
  PROVE  \E m : LastOf(p, n, m)
<1>1. PICK l \in Nat : l = Len(p)
  BY LenProperties
<1>2. PICK k \in 1..l : p[k][1] = n
  BY <1>1 DEF Names
<1> DEFINE Off == {d \in Nat : \E i \in 1..l : i = l - d /\ p[i][1] = n}
<1>3. l - k \in Off
  <2>1. l - k \in Nat /\ k = l - (l - k)
    OBVIOUS
  <2> QED
    BY <1>2, <2>1
<1>4. PICK d \in Off : \A e \in 0..(d - 1) : e \notin Off
  <2>1. Off \subseteq Nat /\ Off # {}
    BY <1>3
  <2> HIDE DEF Off
  <2> QED
    BY <2>1, Least
<1>5. PICK m \in 1..l : m = l - d /\ p[m][1] = n
  BY <1>4
<1>6. ASSUME NEW i \in 1..l, p[i][1] = n PROVE i <= m
  <2> SUFFICES ASSUME i > m PROVE FALSE
    OBVIOUS
  <2>1. d \in Nat
    BY <1>4
  <2>2. l - i \in 0..(d - 1) /\ i = l - (l - i) /\ l - i \in Nat
    BY <1>5, <2>1
  <2>3. l - i \in Off
    BY <1>6, <2>2
  <2> QED
    BY <1>4, <2>2, <2>3
<1>7. LastOf(p, n, m)
  BY <1>1, <1>5, <1>6, Zenon DEF LastOf
<1> QED
  BY <1>7

LEMMA LastIs ==
  ASSUME NEW p, NEW n, NEW m, NEW l \in Nat, LastOf(p, n, m), DOMAIN p = 1..l, l = Len(p)
  PROVE  Max({i \in DOMAIN p : p[i][1] = n}) = m
<1>1. PICK is : is = {i \in DOMAIN p : p[i][1] = n}
  OBVIOUS
<1>2. m \in is /\ is \subseteq Nat
  BY <1>1 DEF LastOf
<1>3. \A i \in is : m >= i
  BY <1>1 DEF LastOf
<1>4. PICK k : k = Max(is)
  OBVIOUS
<1>5. k \in is /\ \A i \in is : k >= i
  BY <1>2, <1>3, <1>4, Zenon DEF Max
<1>6. k = m
  <2>1. k \in Nat /\ m \in Nat /\ k >= m /\ m >= k
    BY <1>2, <1>3, <1>5
  <2> QED
    BY <2>1
<1> QED
  BY <1>1, <1>4, <1>6

(* What g holds is what the last pair of each name says.                   *)
Maps(g, p) ==
  /\ g = [n \in Names(p) |-> g[n]] /\ DOMAIN g = Names(p)
  /\ \A n, m : LastOf(p, n, m) => n \in Names(p) /\ g[n] = p[m][2]

LEMMA AsMapIs ==
  ASSUME NEW T, NEW p \in Seq(T)
  PROVE  Maps(AsMap(p), p)
<1>1. PICK l \in Nat : l = Len(p) /\ DOMAIN p = 1..l
  BY LenProperties
<1>2. Names(p) = {p[i][1] : i \in DOMAIN p}
  BY <1>1, Zenon DEF Names
<1>3. PICK g : g = AsMap(p)
  OBVIOUS
<1>4. g = [n \in Names(p) |-> p[Max({i \in DOMAIN p : p[i][1] = n})][2]]
  BY <1>2, <1>3, Zenon DEF AsMap
<1>5. /\ g = [n \in Names(p) |-> g[n]] /\ DOMAIN g = Names(p)
      /\ \A n \in Names(p) : g[n] = p[Max({i \in DOMAIN p : p[i][1] = n})][2]
  BY <1>4, Zenon
<1>6. ASSUME NEW n, NEW m, LastOf(p, n, m) PROVE n \in Names(p) /\ g[n] = p[m][2]
  <2>1. n \in Names(p)
    BY <1>6, Zenon DEF LastOf, Names
  <2>2. Max({i \in DOMAIN p : p[i][1] = n}) = m
    BY <1>1, <1>6, LastIs
  <2> QED
    BY <1>5, <2>1, <2>2, Zenon
<1>7. Maps(g, p)
  BY <1>5, <1>6, Zenon DEF Maps
<1> QED
  BY <1>3, <1>7, Zenon

(* The last pair of a name in r is that of q, or of p if q has none.       *)
Joined(r, p, q) ==
  /\ \A n, m : LastOf(q, n, m) => \E k : LastOf(r, n, k) /\ r[k] = q[m]
  /\ \A n, m : LastOf(p, n, m) /\ n \notin Names(q) => LastOf(r, n, m) /\ r[m] = p[m]
  /\ Names(r) = Names(p) \cup Names(q)

LEMMA LastBehind ==
  ASSUME NEW T, NEW p \in Seq(T), NEW q \in Seq(T), NEW r, r = Cat(p, q)
  PROVE  r \in Seq(T) /\ Joined(r, p, q)
<1>1. PICK a \in Nat, b \in Nat : a = Len(p) /\ b = Len(q)
  BY LenProperties
<1>2. r \in Seq(T) /\ Len(r) = a + b
  BY <1>1, CatTyped
<1>3. \A i \in 1..(a + b) : r[i] = IF i <= a THEN p[i] ELSE q[i - a]
  BY <1>1, ConcatProperties DEF Cat
<1>4. \A i \in 1..a : i \in 1..(a + b) /\ r[i] = p[i]
  BY <1>3
<1>5. \A i \in 1..b : a + i \in 1..(a + b) /\ r[a + i] = q[i]
  BY <1>3
<1>6. \A i \in 1..(a + b) : i \in 1..a \/ \E j \in 1..b : i = a + j
  <2> SUFFICES ASSUME NEW i \in 1..(a + b), i \notin 1..a PROVE \E j \in 1..b : i = a + j
    OBVIOUS
  <2>1. i - a \in 1..b /\ i = a + (i - a)
    OBVIOUS
  <2> QED
    BY <2>1
<1>7. ASSUME NEW n, NEW m, LastOf(q, n, m) PROVE \E k : LastOf(r, n, k) /\ r[k] = q[m]
  <2>1. m \in 1..b /\ q[m][1] = n /\ \A i \in 1..b : q[i][1] = n => i <= m
    BY <1>1, <1>7, Zenon DEF LastOf
  <2>2. PICK k : k = a + m
    OBVIOUS
  <2>3. k \in 1..(a + b) /\ r[k] = q[m]
    BY <1>5, <2>1, <2>2
  <2>4. ASSUME NEW i \in 1..(a + b), r[i][1] = n PROVE i <= k
    <3>1. CASE i \in 1..a
      BY <2>1, <2>2, <3>1
    <3>2. CASE \E j \in 1..b : i = a + j
      <4>1. PICK j \in 1..b : i = a + j
        BY <3>2
      <4>2. q[j][1] = n
        BY <1>5, <2>4, <4>1, Zenon
      <4>3. j <= m
        BY <2>1, <4>2
      <4> QED
        BY <2>1, <2>2, <4>1, <4>3
    <3> QED
      BY <1>6, <3>1, <3>2
  <2>5. LastOf(r, n, k)
    <3>1. Len(r) = a + b /\ r[k][1] = n
      BY <1>2, <2>1, <2>3
    <3> QED
      BY <2>3, <2>4, <3>1, Zenon DEF LastOf
  <2> QED
    BY <2>3, <2>5
<1>8. ASSUME NEW n, NEW m, LastOf(p, n, m), n \notin Names(q)
      PROVE  LastOf(r, n, m) /\ r[m] = p[m]
  <2>1. m \in 1..a /\ p[m][1] = n /\ \A i \in 1..a : p[i][1] = n => i <= m
    BY <1>1, <1>8, Zenon DEF LastOf
  <2>2. m \in 1..(a + b) /\ r[m] = p[m] /\ r[m][1] = n
    BY <1>4, <2>1, Zenon
  <2>3. ASSUME NEW i \in 1..(a + b), r[i][1] = n PROVE i <= m
    <3>1. CASE i \in 1..a
      <4>1. p[i][1] = n
        BY <1>4, <2>3, <3>1, Zenon
      <4> QED
        BY <2>1, <3>1, <4>1
    <3>2. CASE \E j \in 1..b : i = a + j
      <4>1. PICK j \in 1..b : i = a + j
        BY <3>2
      <4>2. q[j][1] = n
        BY <1>5, <2>3, <4>1, Zenon
      <4> QED
        BY <1>1, <1>8, <4>2, Zenon DEF Names
    <3> QED
      BY <1>6, <3>1, <3>2
  <2> QED
    BY <1>2, <2>2, <2>3, Zenon DEF LastOf
<1>9. Names(r) = Names(p) \cup Names(q)
  <2>1. ASSUME NEW n \in Names(r) PROVE n \in Names(p) \cup Names(q)
    <3>1. PICK i \in 1..(a + b) : n = r[i][1]
      BY <1>2, Zenon DEF Names
    <3>2. CASE i \in 1..a
      BY <1>1, <1>4, <3>1, <3>2, Zenon DEF Names
    <3>3. CASE \E j \in 1..b : i = a + j
      BY <1>1, <1>5, <3>1, <3>3, Zenon DEF Names
    <3> QED
      BY <1>6, <3>2, <3>3
  <2>2. ASSUME NEW n \in Names(p) PROVE n \in Names(r)
    <3>1. PICK j \in 1..a : n = p[j][1]
      BY <1>1, Zenon DEF Names
    <3>2. j \in 1..(a + b) /\ r[j] = p[j]
      BY <1>4
    <3> QED
      BY <1>2, <3>1, <3>2, Zenon DEF Names
  <2>3. ASSUME NEW n \in Names(q) PROVE n \in Names(r)
    <3>1. PICK j \in 1..b : n = q[j][1]
      BY <1>1, Zenon DEF Names
    <3>2. PICK i : i = a + j
      OBVIOUS
    <3>3. i \in 1..(a + b) /\ r[i] = q[j]
      BY <1>5, <3>2
    <3> QED
      BY <1>2, <3>1, <3>3, Zenon DEF Names
  <2> QED
    BY <2>1, <2>2, <2>3
<1>10. Joined(r, p, q)
  BY <1>7, <1>8, <1>9, Zenon DEF Joined
<1> QED
  BY <1>2, <1>10

(* To replace the values of a map is to write the pairs behind it.         *)
LEMMA Replacing ==
  ASSUME NEW T, NEW p \in Seq(T), NEW q \in Seq(T)
  PROVE  Replaced(AsMap(p), AsMap(q)) = AsMap(Cat(p, q))
<1>1. PICK r : r = Cat(p, q)
  OBVIOUS
<1>2. r \in Seq(T) /\ Joined(r, p, q)
  BY <1>1, LastBehind
<1>3. Maps(AsMap(p), p) /\ Maps(AsMap(q), q)
  BY AsMapIs
<1>4. Maps(AsMap(r), r)
  BY <1>2, AsMapIs
<1>5. Names(r) = Names(p) \cup Names(q)
  BY <1>2, Zenon DEF Joined
<1>6. ASSUME NEW n \in Names(r)
      PROVE  (IF n \in Names(q) THEN AsMap(q)[n] ELSE AsMap(p)[n]) = AsMap(r)[n]
  <2>1. CASE n \in Names(q)
    <3>1. PICK m : LastOf(q, n, m)
      BY <2>1, HasLast
    <3>2. PICK k : LastOf(r, n, k) /\ r[k] = q[m]
      BY <1>2, <3>1, Zenon DEF Joined
    <3>3. AsMap(q)[n] = q[m][2] /\ AsMap(r)[n] = r[k][2]
      BY <1>3, <1>4, <3>1, <3>2, Zenon DEF Maps
    <3> QED
      BY <2>1, <3>2, <3>3, Zenon
  <2>2. CASE n \notin Names(q)
    <3>1. n \in Names(p)
      BY <1>5, <1>6, <2>2, Zenon
    <3>2. PICK m : LastOf(p, n, m)
      BY <3>1, HasLast
    <3>3. LastOf(r, n, m) /\ r[m] = p[m]
      BY <1>2, <2>2, <3>2, Zenon DEF Joined
    <3>4. AsMap(p)[n] = p[m][2] /\ AsMap(r)[n] = r[m][2]
      BY <1>3, <1>4, <3>2, <3>3, Zenon DEF Maps
    <3> QED
      BY <2>2, <3>3, <3>4, Zenon
  <2> QED
    BY <2>1, <2>2
<1>7. Replaced(AsMap(p), AsMap(q))
        = [n \in Names(r) |-> IF n \in Names(q) THEN AsMap(q)[n] ELSE AsMap(p)[n]]
  BY <1>3, <1>5, Zenon DEF Replaced, Maps
<1>8. [n \in Names(r) |-> IF n \in Names(q) THEN AsMap(q)[n] ELSE AsMap(p)[n]]
        = [n \in Names(r) |-> AsMap(r)[n]]
  BY <1>6, Zenon
<1>9. AsMap(r) = [n \in Names(r) |-> AsMap(r)[n]]
  BY <1>4, Zenon DEF Maps
<1> QED
  BY <1>1, <1>7, <1>8, <1>9, Zenon

LEMMA SomeOrder ==
  ASSUME NEW S, IsFiniteSet(S)
  PROVE  SetToSeq(S) \in Seq(S)
<1>1. PICK n \in Nat : n = Cardinality(S) /\ ExistsBijection(1..n, S)
  BY FS_CardinalityType
<1>2. \E f \in [1..n -> S] : IsInjective(f)
  BY <1>1, Zenon DEF ExistsBijection, Bijection, Injection
<1>3. PICK f : f = SetToSeq(S)
  OBVIOUS
<1>4. f \in [1..n -> S]
  BY <1>1, <1>2, <1>3, Zenon DEF SetToSeq
<1>5. f \in Seq(S)
  BY <1>4
<1> QED
  BY <1>3, <1>5, Zenon

LEMMA ReportsTyped == SetToSeq(StatusParams) \in Seq(Texts \X Texts)
<1>1. StatusParams \subseteq Texts \X Texts /\ IsFiniteSet(StatusParams)
  BY ServerAssumption
<1>2. SetToSeq(StatusParams) \in Seq(StatusParams)
  BY <1>1, SomeOrder
<1> QED
  BY <1>1, <1>2

LEMMA ParamsAre ==
  ASSUME NEW s \in Starts
  PROVE  s.params \in Seq(Texts \X Texts) /\ Params(s) = FlattenSeq(Entries(s.params))
<1>1. s.params \in Seq(Texts \X Texts)
  BY ClientAssumption
<1>2. Params(s) = FlattenSeq(Entries(s.params))
  BY Zenon DEF Params, Entries, Entry, Cat
<1> QED
  BY <1>1, <1>2

(* A start-up that has arrived is read back.                               *)
LEMMA StartupTaken ==
  ASSUME NEW s \in Starts, NEW rest \in Seq(Byte), NEW w,
         Prefix(w, Cat(Startup(s), rest)), NEW l \in Nat, l = Len(Startup(s)), l <= Len(w)
  PROVE  StartupParameters(SubSeq(w, 9, l)) = AsMap(s.params)
<1>1. PICK p \in Seq(Byte) : p = Params(s) /\ Len(p) + 9 \in Longs
  BY ParamsTyped
<1>2. PICK t \in Seq(Byte) : t = Append(p, 0) /\ Len(t) = Len(p) + 1
  <2>1. 0 \in Byte
    BY DEF Byte
  <2>2. Append(p, 0) \in Seq(Byte) /\ Len(Append(p, 0)) = Len(p) + 1
    BY <2>1
  <2> QED
    BY <2>2, Zenon
<1>3. PICK n \in Longs : n = Len(p) + 9
  BY <1>1
<1>4. ProtocolVersion \in Longs
  BY SMT DEF Longs, ProtocolVersion
<1>5. PICK h \in Seq(Byte) : h = Header(n, ProtocolVersion) /\ Len(h) = 8
  BY <1>4, HeaderIs
<1>6. Startup(s) = Cat(h, t)
  BY <1>1, <1>2, <1>3, <1>5, Zenon DEF Startup, Cat
<1>7. PICK b \in Seq(Byte) : b = Cat(h, t) /\ Len(b) = 8 + Len(t)
  <2>1. Cat(h, t) \in Seq(Byte) /\ Len(Cat(h, t)) = 8 + Len(t)
    BY <1>5, ByteCat
  <2> QED
    BY <2>1, Zenon
<1>8. At(w, 1, b)
  <2>1. Prefix(w, Cat(b, rest)) /\ Len(b) <= Len(w)
    BY <1>6, <1>7
  <2> QED
    BY <2>1, PrefixHead
<1>9. At(w, 1 + Len(h), t)
  BY <1>7, <1>8, AtCat
<1>10. At(w, 9, t)
  <2>1. 1 + Len(h) = 9
    BY <1>5
  <2> QED
    BY <1>9, <2>1, Zenon
<1>11. SubSeq(w, 9, 9 + Len(t) - 1) = t
  <2>1. SubSeq(w, 9, 9 - 1 + Len(t)) = t
    BY <1>10, AtSub, Zenon
  <2>2. 9 - 1 + Len(t) = 9 + Len(t) - 1
    <3>1. PICK k \in Nat : k = Len(t)
      BY LenProperties
    <3>2. 9 - 1 + k = 9 + k - 1
      OBVIOUS
    <3> QED
      BY <3>1, <3>2, Zenon
  <2> QED
    BY <2>1, <2>2, Zenon
<1>12. l = 9 + Len(t) - 1
  BY <1>6, <1>7
<1>13. SubSeq(w, 9, l) = t
  BY <1>11, <1>12, Zenon
<1>14. PICK ps \in Seq(Texts \X Texts) : ps = s.params /\ p = FlattenSeq(Entries(ps))
  BY <1>1, ParamsAre
<1>15. StartupParameters(Append(FlattenSeq(Entries(ps)), 0)) = AsMap(ps)
  BY StartupRead
<1> QED
  BY <1>2, <1>13, <1>14, <1>15, Zenon

LEMMA AskedAccept ==
  ASSUME Progress, Arrived, Accept, start.kind \in {"plain", "ssl"}
  PROVE  parameters' = AsMap(start.params \o SetToSeq(StatusParams))
<1>1. /\ Starting /\ Len(wire) >= 8 /\ Len(wire) >= Length /\ Length >= 8
      /\ (phase = "denied" \/ Code # SSLCode)
      /\ start \in Starts /\ Rest \in Seq(Byte)
  BY RestTyped DEF Accept, Progress
<1>2. parameters' = Replaced(StartupParameters(SubSeq(wire, 9, Length)), AsMap(SetToSeq(StatusParams)))
  BY Zenon DEF Accept
<1>3. PICK b, l, c :
           /\ Opening(b, l, c) /\ Prefix(wire, Cat(b, Rest))
           /\ Unread = Cat(b, Rest) /\ Length = l /\ Code = c
           /\ phase = "probe" => b = FirstBytes(start) /\ (c = SSLCode <=> start.kind = "ssl")
           /\ phase = "denied" => b = Startup(start)
  BY <1>1, BeforeStart
<1>4. b = Startup(start)
  <2>1. CASE phase = "probe"
    <3>1. b = FirstBytes(start) /\ start.kind = "plain"
      BY <1>1, <1>3, <2>1
    <3> QED
      BY <3>1, Zenon DEF FirstBytes
  <2>2. CASE phase = "denied"
    BY <1>3, <2>2
  <2> QED
    BY <1>1, <2>1, <2>2 DEF Starting
<1>5. Length \in Nat /\ Length = Len(Startup(start))
  <2>1. l = Len(b) /\ b \in Seq(Byte)
    BY <1>1, <1>3 DEF Opening
  <2>2. Length = Len(b) /\ Len(b) \in Nat
    BY <1>3, <2>1
  <2> QED
    BY <1>4, <2>2
<1>6. StartupParameters(SubSeq(wire, 9, Length)) = AsMap(start.params)
  <2>1. PICK s \in Starts, rest \in Seq(Byte), n \in Nat : s = start /\ rest = Rest /\ n = Length
    BY <1>1, <1>5, Zenon
  <2>4. PICK w : w = wire
    OBVIOUS
  <2>2. Prefix(w, Cat(Startup(s), rest)) /\ n = Len(Startup(s)) /\ n <= Len(w)
    BY <1>1, <1>3, <1>4, <1>5, <2>1, <2>4, Zenon
  <2>3. StartupParameters(SubSeq(w, 9, n)) = AsMap(s.params)
    BY <2>2, StartupTaken
  <2> QED
    BY <2>1, <2>3, <2>4, Zenon
<1>7. PICK p \in Seq(Texts \X Texts), q \in Seq(Texts \X Texts) :
        p = start.params /\ q = SetToSeq(StatusParams)
  BY <1>1, ParamsAre, ReportsTyped
<1>8. Replaced(AsMap(p), AsMap(q)) = AsMap(Cat(p, q))
  BY Replacing
<1> QED
  BY <1>2, <1>6, <1>7, <1>8, Zenon DEF Cat

LEMMA AskedNext ==
  ASSUME Progress, Arrived, StartsAsAsked, [Next]_vars
  PROVE  StartsAsAsked'
<1>1. CASE Accept
  <2>1. start' = start /\ phase' = "serving"
    BY <1>1 DEF Accept
  <2>2. ASSUME start.kind \in {"plain", "ssl"}
        PROVE  parameters' = AsMap(start.params \o SetToSeq(StatusParams))
    BY <1>1, <2>2, AskedAccept
  <2> QED
    BY <2>1, <2>2, Zenon DEF StartsAsAsked
<1>2. CASE DenySSL \/ Reject \/ HangUp
  <2>1. phase' \in {"denied", "closed"}
    BY <1>2 DEF DenySSL, Reject, HangUp, Close
  <2> QED
    BY <2>1 DEF StartsAsAsked
<1>3. ASSUME UNCHANGED <<start, phase, parameters>> PROVE StartsAsAsked'
  BY <1>3, Zenon DEF StartsAsAsked
<1>4. CASE UNCHANGED vars
  BY <1>3, <1>4, Zenon DEF vars
<1>5. CASE \/ SendStartup \/ (\E r \in Requests : Send(r)) \/ \E k \in 0..Len(wire) : Break(k)
  BY <1>3, <1>5, Zenon DEF SendStartup, Send, Break
<1>6. CASE \/ HandleSimpleQuery \/ HandleParse \/ HandleBind \/ HandleExecute
           \/ HandleDescribe \/ HandleClose \/ HandleSync \/ Ignore
  <2>1. \E frame, type, msg, bytes : Took(frame, type, msg, bytes)
    BY <1>6, Zenon DEF HandleSimpleQuery, HandleParse, HandleBind, HandleExecute,
       HandleDescribe, HandleClose, HandleSync, Ignore, Works, Refused
  <2> QED
    BY <1>3, <2>1, Zenon DEF Took
<1> QED
  BY <1>1, <1>2, <1>4, <1>5, <1>6, Zenon DEF Next

(* A session has the parameters that its client asked for, with SSL denied *)
(* or never asked for, but for those that the server reports itself        *)
(* (server.go:166-212).                                                    *)
THEOREM StartsAsAskedHolds == Spec => []StartsAsAsked
<1>1. Init => StartsAsAsked
  BY DEF Init, StartsAsAsked
<1>2. Progress /\ Arrived /\ StartsAsAsked /\ [Next]_vars => StartsAsAsked'
  BY AskedNext
<1> QED
  BY <1>1, <1>2, StreamKept, PTL DEF Spec
=============================================================================
