---------------------------- MODULE StreamLemmas ----------------------------
(***************************************************************************)
(* Facts about streams that the proofs about the wire protocols share: the *)
(* least element of a set of numbers, from which what a recursive function *)
(* computes is proved, the concatenation of a sequence of sequences, and   *)
(* what is left of a stream whose beginning has been read.                 *)
(***************************************************************************)
EXTENDS Integers, Sequences, SequencesExt, SequenceTheorems, WellFoundedInduction, TLAPS

Below == {ss \in Nat \X Nat : ss[1] < ss[2]}

LEMMA BelowIsWellFounded == IsWellFoundedOn(Below, Nat)
  BY NatLessThanWellFounded DEF OpToRel, Below

(* An induction over numbers is a proof that the set of those for which    *)
(* the claim is wrong has no least element.                                *)
LEMMA Least ==
  ASSUME NEW S, S \subseteq Nat, S # {}
  PROVE  \E n \in S : \A m \in 0..(n - 1) : m \notin S
<1>1. PICK n \in S : \A m \in S : ~ (<<m, n>> \in Below)
  BY BelowIsWellFounded, WFMin
<1>2. \A m \in S : ~ (m < n)
  BY <1>1 DEF Below
<1> QED
  BY <1>2
(* The same as an induction from 0 up to a bound.                          *)
LEMMA UpTo ==
  ASSUME NEW m \in Nat, NEW Good, 0 \in Good,
         \A n \in 0..(m - 1) : n \in Good => n + 1 \in Good
  PROVE  \A n \in 0..m : n \in Good
<1> DEFINE Bad == {n \in 0..m : n \notin Good}
<1>1. SUFFICES ASSUME Bad # {} PROVE FALSE
  OBVIOUS
<1>2. Bad \subseteq Nat
  OBVIOUS
<1>3. PICK n \in Bad : \A k \in 0..(n - 1) : k \notin Bad
  <2> HIDE DEF Bad
  <2> QED
    BY <1>1, <1>2, Least
<1>4. n \in 1..m /\ n - 1 \in 0..(m - 1) /\ n - 1 \notin Bad
  BY <1>3
<1>5. n - 1 \in Good
  BY <1>4
<1>6. (n - 1) + 1 \in Good
  BY <1>4, <1>5
<1> QED
  BY <1>3, <1>4, <1>6
-----------------------------------------------------------------------------
(* Two streams, one behind the other: \o as a name, so that the provers     *)
(* treat it by these facts.                                                *)
Cat(s, t) == s \o t

LEMMA CatTyped ==
  ASSUME NEW S, NEW s \in Seq(S), NEW t \in Seq(S)
  PROVE  Cat(s, t) \in Seq(S) /\ Len(Cat(s, t)) = Len(s) + Len(t)
  BY ConcatProperties DEF Cat

LEMMA CatAssociative ==
  ASSUME NEW S, NEW s \in Seq(S), NEW t \in Seq(S), NEW u \in Seq(S)
  PROVE  Cat(Cat(s, t), u) = Cat(s, Cat(t, u))
  BY ConcatAssociative DEF Cat

LEMMA CatEmpty ==
  ASSUME NEW S, NEW s \in Seq(S)
  PROVE  Cat(s, <<>>) = s /\ Cat(<<>>, s) = s
  BY ConcatEmptySeq DEF Cat

(* The first n sequences of s, joined: what FlattenSeq computes.           *)
Flat(s, n, f) == f = [i \in 1..n |-> IF i = 1 THEN s[i] ELSE Cat(f[i - 1], s[i])]

LEMMA FlatExtended ==
  ASSUME NEW s, NEW f, NEW n \in Nat, Flat(s, n, f)
  PROVE  \E g : Flat(s, n + 1, g)
<1> DEFINE v == IF n = 0 THEN s[1] ELSE Cat(f[n], s[n + 1])
           g == [i \in 1..(n + 1) |-> IF i = n + 1 THEN v ELSE f[i]]
<1>1. ASSUME NEW i \in 1..(n + 1)
      PROVE  g[i] = IF i = 1 THEN s[i] ELSE Cat(g[i - 1], s[i])
  <2>1. CASE i = n + 1
    BY <2>1
  <2>2. CASE i # n + 1
    <3>1. i \in 1..n /\ g[i] = f[i] /\ (i # 1 => g[i - 1] = f[i - 1])
      BY <2>2
    <3>2. f[i] = IF i = 1 THEN s[i] ELSE Cat(f[i - 1], s[i])
      BY <3>1 DEF Flat
    <3> QED
      BY <3>1, <3>2
  <2> QED
    BY <2>1, <2>2
<1>2. g = [i \in 1..(n + 1) |-> g[i]]
  OBVIOUS
<1> HIDE DEF g
<1>3. Flat(s, n + 1, g)
  BY <1>1, <1>2 DEF Flat
<1> QED
  BY <1>3

LEMMA FlatExists ==
  ASSUME NEW s, NEW m \in Nat
  PROVE  \E f : Flat(s, m, f)
<1> DEFINE Good == {n \in 0..m : \E f : Flat(s, n, f)}
<1>1. 0 \in Good
  <2>1. Flat(s, 0, <<>>)
    BY DEF Flat
  <2> QED
    BY <2>1
<1>2. \A n \in 0..(m - 1) : n \in Good => n + 1 \in Good
  BY FlatExtended
<1>3. \A n \in 0..m : n \in Good
  <2> HIDE DEF Good
  <2> QED
    BY <1>1, <1>2, UpTo
<1> QED
  BY <1>3

LEMMA FlatFirst ==
  ASSUME NEW s, NEW f, NEW n \in Nat, n # 0, Flat(s, n, f)
  PROVE  f[1] = s[1]
  BY DEF Flat

LEMMA FlatNext ==
  ASSUME NEW s, NEW f, NEW n \in Nat, NEW i \in Nat, NEW j \in 1..n,
         Flat(s, n, f), i # 0, j = i + 1
  PROVE  f[j] = Cat(f[i], s[j])
<1>1. f[j] = IF j = 1 THEN s[j] ELSE Cat(f[j - 1], s[j])
  BY DEF Flat
<1> QED
  BY <1>1

(* The first n of s are those of t; the first n of t are those of s from   *)
(* the second one on.                                                      *)
Same(s, t, n) == \A i \in 1..n : s[i] = t[i]
Follows(s, t, n) == \A i \in 1..n : s[i + 1] = t[i]
AreSeqs(s, n, S) == \A i \in 1..n : s[i] \in Seq(S)

(* What has been joined of equal sequences is equal, and a sequence.       *)
LEMMA FlatUnique ==
  ASSUME NEW s, NEW t, NEW f, NEW g, NEW n \in Nat, NEW m \in Nat,
         n <= m, Same(s, t, n), Flat(s, n, f), Flat(t, m, g)
  PROVE  Same(f, g, n)
<1> DEFINE Good == {i \in 0..n : i = 0 \/ f[i] = g[i]}
<1>1. 0 \in Good
  OBVIOUS
<1>2. ASSUME NEW i \in 0..(n - 1), i \in Good
      PROVE  i + 1 \in Good
  <2>1. PICK j \in 1..n : j = i + 1
    OBVIOUS
  <2>2. j \in 1..m /\ s[j] = t[j]
    BY DEF Same
  <2>3. CASE i = 0
    <3>1. f[1] = s[1] /\ g[1] = t[1]
      BY FlatFirst
    <3> QED
      BY <2>1, <2>2, <2>3, <3>1
  <2>4. CASE i # 0
    <3>1. f[j] = Cat(f[i], s[j]) /\ g[j] = Cat(g[i], t[j])
      BY <2>1, <2>2, <2>4, FlatNext
    <3> QED
      BY <1>2, <2>1, <2>2, <2>4, <3>1
  <2> QED
    BY <2>3, <2>4
<1>3. \A i \in 0..n : i \in Good
  <2> HIDE DEF Good
  <2> QED
    BY <1>1, <1>2, UpTo
<1> QED
  BY <1>3 DEF Same

LEMMA FlatTyped ==
  ASSUME NEW S, NEW s, NEW f, NEW n \in Nat, AreSeqs(s, n, S), Flat(s, n, f)
  PROVE  AreSeqs(f, n, S)
<1> DEFINE Good == {i \in 0..n : i = 0 \/ f[i] \in Seq(S)}
<1>1. 0 \in Good
  OBVIOUS
<1>2. ASSUME NEW i \in 0..(n - 1), i \in Good
      PROVE  i + 1 \in Good
  <2>1. PICK j \in 1..n : j = i + 1
    OBVIOUS
  <2>2. PICK v \in Seq(S) : v = s[j]
    BY DEF AreSeqs
  <2>3. CASE i = 0
    <3>1. f[1] = s[1]
      BY <2>1, FlatFirst
    <3> QED
      BY <2>1, <2>2, <2>3, <3>1
  <2>4. CASE i # 0
    <3>1. f[j] = Cat(f[i], s[j])
      BY <2>1, <2>4, FlatNext
    <3>2. PICK u \in Seq(S) : u = f[i]
      BY <1>2, <2>4
    <3>3. Cat(u, v) \in Seq(S)
      BY CatTyped
    <3> QED
      BY <2>1, <2>2, <3>1, <3>2, <3>3
  <2> QED
    BY <2>3, <2>4
<1>3. \A i \in 0..n : i \in Good
  <2> HIDE DEF Good
  <2> QED
    BY <1>1, <1>2, UpTo
<1> QED
  BY <1>3 DEF AreSeqs

LEMMA FlattenIs ==
  ASSUME NEW s, NEW n \in Nat, n # 0, Len(s) = n
  PROVE  \E f : Flat(s, n, f) /\ FlattenSeq(s) = f[n]
<1> DEFINE f == CHOOSE f : Flat(s, n, f)
<1>1. Flat(s, n, f)
  BY FlatExists
<1>2. FlattenSeq(s) = f[n]
  BY Zenon DEF FlattenSeq, Flat, Cat
<1> QED
  BY <1>1, <1>2

(* Nothing joined is nothing, and sequences joined are a sequence.         *)
LEMMA FlattenEmpty ==
  FlattenSeq(<<>>) = <<>>
  BY DEF FlattenSeq

LEMMA FlattenTyped ==
  ASSUME NEW S, NEW s \in Seq(Seq(S))
  PROVE  FlattenSeq(s) \in Seq(S)
<1>1. CASE s = <<>>
  <2>1. <<>> \in Seq(S)
    BY EmptySeq
  <2> QED
    BY <1>1, <2>1, FlattenEmpty
<1>2. CASE s # <<>>
  <2>1. PICK n \in Nat : n = Len(s) /\ n # 0
    BY <1>2, EmptySeq
  <2>2. AreSeqs(s, n, S)
    BY <2>1 DEF AreSeqs
  <2>3. PICK f : Flat(s, n, f) /\ FlattenSeq(s) = f[n]
    BY <2>1, FlattenIs
  <2>4. AreSeqs(f, n, S)
    BY <2>2, <2>3, FlatTyped
  <2>5. n \in 1..n
    BY <2>1
  <2> QED
    BY <2>3, <2>4, <2>5 DEF AreSeqs
<1> QED
  BY <1>1, <1>2

(* FlattenSeq joins the last sequence to those before it.                  *)
LEMMA FlattenAppend ==
  ASSUME NEW S, NEW s \in Seq(Seq(S)), NEW e \in Seq(S)
  PROVE  FlattenSeq(Append(s, e)) = Cat(FlattenSeq(s), e)
<1>1. PICK t \in Seq(Seq(S)), n \in Nat, m \in Nat :
         /\ m # 0
         /\ t = Append(s, e) /\ n = Len(s) /\ m = Len(t) /\ m = n + 1 /\ t[m] = e
         /\ Same(s, t, n)
  <2>1. /\ Append(s, e) \in Seq(Seq(S)) /\ Len(s) \in Nat /\ Len(Append(s, e)) = Len(s) + 1
        /\ Append(s, e)[Len(s) + 1] = e
        /\ \A i \in 1..Len(s) : s[i] = Append(s, e)[i]
    BY AppendProperties, LenProperties
  <2>2. Same(s, Append(s, e), Len(s))
    BY <2>1 DEF Same
  <2>3. Len(Append(s, e)) \in Nat \ {0} /\ Append(s, e)[Len(Append(s, e))] = e
    BY <2>1
  <2> QED
    BY <2>1, <2>2, <2>3
<1>A. m # 0 /\ n = Len(s) /\ m = Len(t) /\ m = n + 1 /\ t[m] = e /\ Same(s, t, n)
  BY <1>1
<1>B. FlattenSeq(Append(s, e)) = FlattenSeq(t)
  BY <1>1
<1> SUFFICES FlattenSeq(t) = Cat(FlattenSeq(s), e)
  BY <1>B
<1>2. PICK f : Flat(t, m, f) /\ FlattenSeq(t) = f[m]
  BY <1>A, FlattenIs
<1>3. CASE n = 0
  <2>1. s = <<>>
    BY <1>A, <1>3, EmptySeq
  <2>2. Cat(<<>>, e) = e
    BY CatEmpty
  <2>3. FlattenSeq(s) = <<>>
    BY <2>1, FlattenEmpty
  <2>4. m = 1 /\ f[1] = t[1]
    BY <1>A, <1>2, <1>3, FlatFirst
  <2> QED
    BY <1>A, <1>2, <2>2, <2>3, <2>4
<1>4. CASE n # 0
  <2>0. n # 0 /\ n <= m /\ n \in 1..n /\ m \in 1..m
    BY <1>A, <1>4
  <2>1. PICK g : Flat(s, n, g) /\ FlattenSeq(s) = g[n]
    BY <1>A, <2>0, FlattenIs
  <2>2. Same(g, f, n)
    BY <1>A, <1>2, <2>0, <2>1, FlatUnique
  <2>3. f[m] = Cat(f[n], t[m])
    BY <1>A, <1>2, <2>0, FlatNext
  <2>4. g[n] = f[n]
    BY <2>0, <2>2 DEF Same
  <2> QED
    BY <1>A, <1>2, <2>1, <2>3, <2>4
<1> QED
  BY <1>3, <1>4

(* The first sequence stands in front of the others.                       *)
LEMMA FlatTail ==
  ASSUME NEW S, NEW s, NEW t, NEW f, NEW g, NEW h, NEW n \in Nat, NEW m \in Nat,
         h \in Seq(S), m = n + 1, AreSeqs(t, n, S), Follows(s, t, n),
         s[1] = h, Flat(s, m, f), Flat(t, n, g)
  PROVE  \A i \in 1..n : f[i + 1] = Cat(h, g[i])
<1>1. f[1] = h
  <2>1. m # 0
    OBVIOUS
  <2> QED
    BY <2>1, FlatFirst
<1>2. AreSeqs(g, n, S)
  BY FlatTyped
<1> DEFINE Good == {i \in 0..n : i = 0 \/ f[i + 1] = Cat(h, g[i])}
<1>3. 0 \in Good
  OBVIOUS
<1>4. ASSUME NEW i \in 0..(n - 1), i \in Good
      PROVE  i + 1 \in Good
  <2>1. PICK j \in 1..n, k \in 1..m : j = i + 1 /\ k = j + 1
    OBVIOUS
  <2>2. f[k] = Cat(f[j], s[k])
    BY <2>1, FlatNext
  <2>4. PICK v \in Seq(S) : v = t[j] /\ v = s[k]
    BY <2>1 DEF AreSeqs, Follows
  <2>5. f[k] = Cat(h, g[j])
    <3>1. CASE i = 0
      <4>1. j = 1 /\ g[1] = t[1]
        BY <2>1, <3>1, FlatFirst
      <4> QED
        BY <1>1, <2>2, <2>4, <4>1
    <3>2. CASE i # 0
      <4>1. PICK u \in Seq(S) : u = g[i]
        BY <1>2, <3>2 DEF AreSeqs
      <4>2. f[j] = Cat(h, u)
        BY <1>4, <2>1, <3>2, <4>1
      <4>3. Cat(Cat(h, u), v) = Cat(h, Cat(u, v))
        BY CatAssociative
      <4>4. g[j] = Cat(g[i], t[j])
        BY <2>1, <3>2, FlatNext
      <4> QED
        BY <2>2, <2>4, <4>1, <4>2, <4>3, <4>4
    <3> QED
      BY <3>1, <3>2
  <2> QED
    BY <2>1, <2>5
<1>5. \A i \in 0..n : i \in Good
  <2> HIDE DEF Good
  <2> QED
    BY <1>3, <1>4, UpTo
<1> QED
  BY <1>5

LEMMA FlattenTail ==
  ASSUME NEW S, NEW s \in Seq(Seq(S)), s # <<>>
  PROVE  FlattenSeq(s) = Cat(s[1], FlattenSeq(Tail(s)))
<1>1. PICK t \in Seq(Seq(S)), n \in Nat, m \in Nat, h \in Seq(S) :
         /\ m # 0
         /\ t = Tail(s) /\ n = Len(t) /\ m = Len(s) /\ m = n + 1 /\ s[1] = h
         /\ AreSeqs(t, n, S) /\ Follows(s, t, n)
  <2>1. Tail(s) \in Seq(Seq(S)) /\ Len(Tail(s)) \in Nat /\ s[1] \in Seq(S)
        /\ Len(s) = Len(Tail(s)) + 1
        /\ AreSeqs(Tail(s), Len(Tail(s)), S) /\ Follows(s, Tail(s), Len(Tail(s)))
    BY DEF AreSeqs, Follows
  <2>2. Len(s) \in Nat \ {0}
    BY EmptySeq
  <2> QED
    BY <2>1, <2>2
<1>A. m # 0 /\ n = Len(t) /\ m = Len(s) /\ m = n + 1 /\ s[1] = h
      /\ AreSeqs(t, n, S) /\ Follows(s, t, n)
  BY <1>1
<1>B. Cat(s[1], FlattenSeq(Tail(s))) = Cat(h, FlattenSeq(t))
  BY <1>1
<1> SUFFICES FlattenSeq(s) = Cat(h, FlattenSeq(t))
  BY <1>B
<1>2. PICK f : Flat(s, m, f) /\ FlattenSeq(s) = f[m]
  BY <1>A, FlattenIs
<1>3. CASE n = 0
  <2>1. t = <<>>
    BY <1>A, <1>3, EmptySeq
  <2>2. m = 1 /\ f[1] = h
    BY <1>A, <1>2, <1>3, FlatFirst
  <2>3. Cat(h, <<>>) = h
    BY CatEmpty
  <2>4. FlattenSeq(t) = <<>>
    BY <2>1, FlattenEmpty
  <2> QED
    BY <1>A, <1>2, <2>2, <2>3, <2>4
<1>4. CASE n # 0
  <2>0. n # 0 /\ n \in 1..n
    BY <1>A, <1>4
  <2>1. PICK g : Flat(t, n, g) /\ FlattenSeq(t) = g[n]
    BY <1>A, <2>0, FlattenIs
  <2>2. \A i \in 1..n : f[i + 1] = Cat(h, g[i])
    <3>1. m = n + 1 /\ s[1] = h /\ AreSeqs(t, n, S) /\ Follows(s, t, n)
      BY <1>A
    <3>2. Flat(s, m, f) /\ Flat(t, n, g)
      BY <1>2, <2>1
    <3> QED
      BY <3>1, <3>2, FlatTail
  <2>3. f[m] = Cat(h, g[n])
    BY <1>A, <2>0, <2>2
  <2> QED
    BY <1>A, <1>2, <2>1, <2>3
<1> QED
  BY <1>3, <1>4
-----------------------------------------------------------------------------
(* One more element of a beginning, one less of what is left.              *)
LEMMA PrefixExtended ==
  ASSUME NEW S, NEW s \in Seq(S), NEW i \in Nat, NEW j \in 1..Len(s), j = i + 1
  PROVE  SubSeq(s, 1, i) \in Seq(S) /\ SubSeq(s, 1, j) = Append(SubSeq(s, 1, i), s[j])
<1>1. SubSeq(s, 1, j) \in Seq(S) /\ SubSeq(s, 1, i) \in Seq(S) /\ s[j] \in S
  OBVIOUS
<1>2. Len(SubSeq(s, 1, j)) = j /\ Len(SubSeq(s, 1, i)) = i
  OBVIOUS
<1> DEFINE t == Append(SubSeq(s, 1, i), s[j])
<1>3. t \in Seq(S) /\ Len(t) = j /\ t[j] = s[j] /\ \A k \in 1..i : t[k] = SubSeq(s, 1, i)[k]
  BY <1>1, <1>2, AppendProperties
<1>4. /\ \A k \in 1..j : SubSeq(s, 1, j)[k] = s[k]
      /\ \A k \in 1..i : SubSeq(s, 1, i)[k] = s[k]
  OBVIOUS
<1> HIDE DEF t
<1>5. \A k \in 1..j : SubSeq(s, 1, j)[k] = t[k]
  BY <1>3, <1>4
<1>6. SubSeq(s, 1, j) = t
  BY <1>1, <1>2, <1>3, <1>5, SeqEqual
<1> QED
  BY <1>1, <1>6 DEF t

LEMMA RestShortened ==
  ASSUME NEW S, NEW s \in Seq(S), NEW j \in 1..Len(s)
  PROVE  /\ SubSeq(s, j, Len(s)) \in Seq(S) /\ SubSeq(s, j, Len(s)) # <<>>
         /\ SubSeq(s, j, Len(s))[1] = s[j]
         /\ Tail(SubSeq(s, j, Len(s))) = SubSeq(s, j + 1, Len(s))
<1>1. Len(s) \in j..Len(s)
  OBVIOUS
<1>2. SubSeq(s, j, Len(s)) \in Seq(S) /\ Len(SubSeq(s, j, Len(s))) = Len(s) - j + 1
  OBVIOUS
<1>3. Tail(SubSeq(s, j, Len(s))) = SubSeq(s, j + 1, Len(s))
  BY <1>1, HeadTailOfSubSeq
<1>4. SubSeq(s, j, Len(s))[1] = s[j]
  OBVIOUS
<1>5. SubSeq(s, j, Len(s)) # <<>>
  <2>1. Len(SubSeq(s, j, Len(s))) # 0
    BY <1>1, <1>2
  <2>2. Len(<<>>) = 0
    BY EmptySeq
  <2> QED
    BY <2>1, <2>2
<1> QED
  BY <1>2, <1>3, <1>4, <1>5
=============================================================================
