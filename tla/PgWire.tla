------------------------------- MODULE PgWire -------------------------------
(***************************************************************************)
(* The messages of pkg/pgwire: a type, a length that counts itself, and a  *)
(* body of numbers with the highest byte first and of texts that end in a  *)
(* zero.  A stream is a sequence of bytes.  A reader gets the bytes and    *)
(* the position of the next one and returns the value and the position     *)
(* behind it; the readers of a body are given whole bodies, as ReadMessage *)
(* has read them.  An operator X_Y is the definition X with a fault of the *)
(* kind Y seeded into it; no specification uses it.                        *)
(***************************************************************************)
EXTENDS Integers, Sequences, SequencesExt, FiniteSetsExt

CONSTANT Null (* the value of a parameter or a column without one          *)

Byte == 0..255
Shorts == {n \in Nat : n <= 32767}
Longs == {n \in Nat : n <= 2147483647}
Letters == 1..255
Texts == Seq(Letters) (* a text cannot hold the zero that ends it           *)

Got(v, next) == [val |-> v, next |-> next]

(* n divided by 256, k times.                                              *)
Shifted(n, k) == LET q[i \in 0..k] == IF i = 0 THEN n ELSE q[i - 1] \div 256 IN q[k]

BigEndian_NotMasked(n, width) == [i \in 1..width |-> Shifted(n, width - i)]
BigEndian(n, width) == [i \in 1..width |-> Shifted(n, width - i) % 256]

(* The highest bit is the sign; numbers of the protocol that have none     *)
(* stay below it.                                                          *)
Number(b, p, width) ==
  LET n[i \in 1..width] ==
        IF i = 1 THEN b[p] - 256 * (b[p] \div 128) ELSE 256 * n[i - 1] + b[p + i - 1]
  IN  Got(n[width], p + width)

Text(s) == Append(s, 0)
TextAt(b, p) ==
  LET end == Min({i \in p..Len(b) : b[i] = 0})
  IN  Got(SubSeq(b, p, end - 1), end + 1)

(* n values, each read behind the one before it, with Read(i, p) for the   *)
(* value i at position p.  The sets of one have TLC evaluate each once.    *)
Chain(p, n, Read(_, _)) ==
  LET read[i \in 0..n] ==
        IF i = 0 THEN Got(<<>>, p)
        ELSE CHOOSE r \in UNION {{Got(Append(before.val, v.val), v.next) :
                                    v \in {Read(i, before.next)}} :
                                 before \in {read[i - 1]}} : TRUE
  IN  read[n]

Short(b, p) == Number(b, p, 2)
Long(b, p) == Number(b, p, 4)

(* A value has its length in front; the length -1 stands for no value.     *)
Value_EmptyIsNull(v) ==
  IF v \in {Null, <<>>} THEN BigEndian(-1, 4) ELSE BigEndian(Len(v), 4) \o v
Value(v) == IF v = Null THEN BigEndian(-1, 4) ELSE BigEndian(Len(v), 4) \o v
ValueAt(b, p) ==
  LET n == Long(b, p).val
  IN  IF n = -1 THEN Got(Null, p + 4)
      ELSE Got(SubSeq(b, p + 4, p + 3 + n), p + 4 + n)

(* The parts of a body: a text, a number of four bytes, or a number of two *)
(* bytes and as many shorts, longs or values.                              *)
PartAt(b, p, kind) ==
  LET n == Short(b, p).val
  IN  CASE kind = "text" -> TextAt(b, p)
        [] kind = "long" -> Long(b, p)
        [] kind = "shorts" -> Chain(p + 2, n, LAMBDA i, q : Short(b, q))
        [] kind = "longs" -> Chain(p + 2, n, LAMBDA i, q : Long(b, q))
        [] kind = "values" -> Chain(p + 2, n, LAMBDA i, q : ValueAt(b, q))

Parts(b, kinds) == Chain(1, Len(kinds), LAMBDA i, p : PartAt(b, p, kinds[i])).val
-----------------------------------------------------------------------------
(* Messages.  A frame that has not arrived whole has a position of 0.      *)
writeMessage_LengthOfBody(type, body) == <<type>> \o BigEndian(Len(body), 4) \o body
writeMessage(type, body) == <<type>> \o BigEndian(Len(body) + 4, 4) \o body

NoFrame == [type |-> 0, body |-> <<>>, next |-> 0]
ReadMessage(in, p) ==
  LET n == IF p + 4 <= Len(in) THEN Long(in, p + 1).val ELSE 0
  IN  IF n < 4 \/ p + n > Len(in) THEN NoFrame
      ELSE [type |-> in[p], body |-> SubSeq(in, p + 5, p + n), next |-> p + 1 + n]

(* The messages of a stream as a client reads them.                        *)
Frames(in) ==
  LET from[p \in 1..(Len(in) + 1)] ==
        LET f == ReadMessage(in, p)
        IN  IF f.next = 0 THEN <<>>
            ELSE <<[type |-> f.type, body |-> f.body]>> \o from[f.next]
  IN  from[1]

(* What the server reads from the bodies of the client's messages.         *)
ParseQuery(b) == [string |-> TextAt(b, 1).val]

ParseParse(b) ==
  LET part == Parts(b, <<"text", "text", "longs">>)
  IN  [name |-> part[1], query |-> part[2], oids |-> part[3]]

BindParts_ResultsFirst == <<"text", "text", "shorts", "shorts", "values">>
BindParts == <<"text", "text", "shorts", "values", "shorts">>
ParseBind(b) ==
  LET part == Parts(b, BindParts)
  IN  [portal |-> part[1], statement |-> part[2], formats |-> part[3],
       params |-> part[4], results |-> part[5]]

ParseExecute(b) ==
  LET part == Parts(b, <<"text", "long">>)
  IN  [portal |-> part[1], maxRows |-> part[2]]

ParseDescribe(b) == [kind |-> b[1], name |-> SubSeq(b, 2, Len(b) - 1)]
ParseClose(b) == [kind |-> b[1], name |-> SubSeq(b, 2, Len(b) - 1)]

(* The parameters of a start-up: names and values in turn, each with its   *)
(* zero, and one more zero at the end.                                     *)
Split(b) ==
  LET parts[i \in 0..Len(b)] ==
        IF i = 0 THEN <<<<>>>>
        ELSE IF b[i] = 0 THEN Append(parts[i - 1], <<>>)
        ELSE [parts[i - 1] EXCEPT ![Len(parts[i - 1])] = Append(@, b[i])]
  IN  parts[Len(b)]

Pairs(parts) == [i \in 1..(Len(parts) \div 2) |-> <<parts[2 * i - 1], parts[2 * i]>>]

(* A map, in which a later value replaces an earlier one of that name.     *)
AsMap(pairs) ==
  [n \in {pairs[i][1] : i \in DOMAIN pairs} |->
     pairs[Max({i \in DOMAIN pairs : pairs[i][1] = n})][2]]

StartupParameters(b) ==
  IF Len(b) > 1 THEN AsMap(Pairs(Split(Front(b)))) ELSE AsMap(<<>>)
-----------------------------------------------------------------------------
(* The messages of the server.                                             *)
AuthenticationOK == writeMessage(82, BigEndian(0, 4))
SendParameterStatus(name, value) == writeMessage(83, Text(name) \o Text(value))
SendBackendKeyData(pid, secret) ==
  writeMessage(75, BigEndian(pid, 4) \o BigEndian(secret, 4))
SendReadyForQuery(status) == writeMessage(90, <<status>>)
SendCommandComplete(tag) == writeMessage(67, Text(tag))
SendParseComplete == writeMessage(49, <<>>)
SendBindComplete == writeMessage(50, <<>>)
SendCloseComplete == writeMessage(51, <<>>)
SendNoData == writeMessage(110, <<>>)
SendEmptyQueryResponse == writeMessage(73, <<>>)
SendParameterDescription(oids) ==
  writeMessage(116, BigEndian(Len(oids), 2)
                    \o FlattenSeq([i \in DOMAIN oids |-> BigEndian(oids[i], 4)]))
(* fields is the sequence of <<code, value>> in which the map was walked.  *)
Fields(fields) ==
  FlattenSeq([i \in DOMAIN fields |-> <<fields[i][1]>> \o Text(fields[i][2])])
SendErrorResponse(fields) == writeMessage(69, Append(Fields(fields), 0))
SendDataRow(values) ==
  writeMessage(68, BigEndian(Len(values), 2)
                   \o FlattenSeq([i \in DOMAIN values |-> Value(values[i])]))
SendRowDescription(fields) ==
  writeMessage(84, BigEndian(Len(fields), 2)
                   \o FlattenSeq([i \in DOMAIN fields |->
                        Text(fields[i].name) \o BigEndian(0, 4) \o BigEndian(0, 2)
                        \o BigEndian(fields[i].oid, 4) \o BigEndian(-1, 2)
                        \o BigEndian(0, 4) \o BigEndian(fields[i].format, 2)]))
=============================================================================
