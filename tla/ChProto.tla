------------------------------ MODULE ChProto ------------------------------
(***************************************************************************)
(* The encoding of pkg/chproto: integers as groups of seven bits, the      *)
(* lowest first and all but the last marked with 128, strings behind their *)
(* length, and fixed little-endian numbers.  A stream is a sequence of     *)
(* bytes.  A reader gets the stream and the position of its next byte and  *)
(* returns the value, the position behind it, and how it went: "got",      *)
(* "malformed" (the error of an overlong VarInt) or "short" (the stream    *)
(* ended, which consumes all of it).                                       *)
(***************************************************************************)
EXTENDS Integers, Sequences, SequencesExt, FiniteSetsExt

CONSTANTS
  MaxVarInt, (* the longest VarInt that is read: 10 bytes in the code       *)
  TopGroup   (* how many values the last group of that VarInt has: 2 in the *)
             (* code, where 64 bits are nine groups of seven and one bit    *)

ASSUME VarIntAssumption ==
  /\ MaxVarInt \in Nat /\ MaxVarInt >= 2
  /\ TopGroup \in {2, 4, 8, 16, 32, 64, 128}

Byte == 0..255

Got(v, next) == [val |-> v, next |-> next, end |-> "got"]
Malformed(v, next) == [val |-> v, next |-> next, end |-> "malformed"]
Short(v, in) == [val |-> v, next |-> Len(in) + 1, end |-> "short"]

(* v behind k groups of seven bits.                                         *)
Shifted(v, k) ==
  LET q[i \in 0..k] == IF i = 0 THEN v ELSE q[i - 1] \div 128 IN q[k]

Uints == {v \in Nat : Shifted(v, MaxVarInt - 1) < TopGroup}

(* The bits of a byte that belong to the number: what is shifted beyond     *)
(* the width of result is lost without an error.                           *)
Group(bytes, i) == bytes[i] % (IF i = MaxVarInt THEN TopGroup ELSE 128)

Number(bytes) ==
  LET from[i \in 1..(Len(bytes) + 1)] ==
        IF i > Len(bytes) THEN 0 ELSE Group(bytes, i) + 128 * from[i + 1]
  IN  from[1]

WriteVarInt(v) ==
  LET n == Min({k \in 1..MaxVarInt : Shifted(v, k - 1) < 128})
  IN  [i \in 1..n |-> IF i = n THEN Shifted(v, i - 1) ELSE (Shifted(v, i - 1) % 128) + 128]

ReadVarInt(in, p) ==
  LET stops == {k \in 1..MaxVarInt : p + k - 1 <= Len(in) /\ in[p + k - 1] < 128}
      n == Min(stops)
  IN  IF stops # {} THEN Got(Number(SubSeq(in, p, p + n - 1)), p + n)
      ELSE IF p + MaxVarInt - 1 <= Len(in) THEN Malformed(0, p + MaxVarInt)
      ELSE Short(0, in)

WriteString(s) == WriteVarInt(Len(s)) \o s

ReadString_PartialText(in, p) ==
  LET n == ReadVarInt(in, p)
  IN  IF n.end # "got" THEN [n EXCEPT !.val = <<>>]
      ELSE IF n.next + n.val - 1 > Len(in)
           THEN Short(SubSeq(in, n.next, Len(in)), in)
      ELSE Got(SubSeq(in, n.next, n.next + n.val - 1), n.next + n.val)

(* A string that is cut off is empty, whatever has arrived of it.          *)
ReadString(in, p) ==
  LET n == ReadVarInt(in, p)
  IN  IF n.end # "got" THEN [n EXCEPT !.val = <<>>]
      ELSE IF n.next + n.val - 1 > Len(in) THEN Short(<<>>, in)
      ELSE Got(SubSeq(in, n.next, n.next + n.val - 1), n.next + n.val)

(* The value of a fixed number is left as its bytes, lowest first.         *)
ReadFixed(in, p, n) ==
  IF p + n - 1 > Len(in) THEN Short([i \in 1..n |-> 0], in)
  ELSE Got(SubSeq(in, p, p + n - 1), p + n)
-----------------------------------------------------------------------------
(* Several fields in a row, read by a caller that ignores the errors.      *)
ReadField(in, p, kind) ==
  CASE kind = "varint" -> ReadVarInt(in, p)
    [] kind = "string" -> ReadString(in, p)
    [] kind = "uint32" -> ReadFixed(in, p, 4)

ReadNext(before, in, kind) ==
  LET f == ReadField(in, before.next, kind)
  IN  [val |-> Append(before.val, f.val),
       next |-> f.next,
       end |-> IF f.end = "short" THEN f.end ELSE before.end]

(* The CHOOSE has TLC evaluate each field once.                            *)
ReadFields(in, p, kinds) ==
  LET read[i \in 0..Len(kinds)] ==
        IF i = 0 THEN Got(<<>>, p)
        ELSE CHOOSE r \in {ReadNext(b, in, kinds[i]) : b \in {read[i - 1]}} : TRUE
  IN  read[Len(kinds)]
=============================================================================
