------------------------------ MODULE PgValues ------------------------------
(***************************************************************************)
(* The values of one Execute: the parameters that the client has bound, on *)
(* their way to MySQL or into a query of the catalog, and the rows on      *)
(* their way back.  Each side may send a value as text or in binary, and   *)
(* has announced which; the server keeps what it was told in the portal.   *)
(* The messages around it are in PgConnection, whether RowDescription is   *)
(* due is in PgSession.                                                    *)
(*                                                                         *)
(* A value is Null, a number, a text, or an array of texts.  An operator   *)
(* X_Y is the definition X with a fault of the kind Y seeded into it; no   *)
(* specification uses it.                                                  *)
(***************************************************************************)
EXTENDS PgWire

CONSTANTS
  Portals,  (* what clients bind: [path, pieces, params, formats, columns, *)
            (* results, described].  pieces is the query, cut into texts   *)
            (* and numbers of parameters; params are [type, val]; columns  *)
            (* are those it selects by name, <<>> for all of them          *)
  Results,  (* what a query may return: [names, rows]                      *)
  TypeOf    (* the type of the column with a name                          *)

VARIABLES
  portal,   (* the portal that is executed                                 *)
  result,   (* the answer to its query                                     *)
  phase,    (* "bound", "sending", "done" or "failed"                      *)
  query,    (* the text that is executed                                   *)
  args,     (* the arguments that go with it                               *)
  fetched,  (* how many rows were sent                                     *)
  out       (* the bytes that were sent to the client                      *)

vars == <<portal, result, phase, query, args, fetched, out>>

(* How executePreparedStatement runs a query: with or without parameters,  *)
(* as a write with RETURNING, from the catalog, as a query that the        *)
(* catalog does not know, or not at all, with a fixed row of texts.        *)
Paths == {"parameters", "plain", "returning", "catalog", "unknown", "fixed"}

ASSUME PortalsAssumption == \A p \in Portals : p.path \in Paths
-----------------------------------------------------------------------------
(* Numbers as texts.                                                       *)
Digits(n) ==
  LET d[k \in Nat] == IF k < 10 THEN <<48 + k>> ELSE Append(d[k \div 10], 48 + (k % 10))
  IN  IF n < 0 THEN <<45>> \o d[-n] ELSE d[n]

DigitsAt(s) ==
  LET d[i \in 0..Len(s)] == IF i = 0 THEN 0 ELSE 10 * d[i - 1] + s[i] - 48 IN d[Len(s)]
ParseInt(s) == IF s[1] = 45 THEN -DigitsAt(Tail(s)) ELSE DigitsAt(s)

Int2 == 21
Int4 == 23
Int8 == 20
TextType == 25
TextArray == 1009
Width == Int2 :> 2 @@ Int4 :> 4 @@ Int8 :> 8

(* The format of value i among codes: none means text, one is for all.     *)
FormatOf(codes, i) ==
  IF codes = <<>> THEN 0 ELSE IF Len(codes) = 1 THEN codes[1] ELSE codes[i]

(* An array as a text.                                                     *)
Braced(v) ==
  <<123>> \o FlattenSeq([i \in DOMAIN v |-> IF i = 1 THEN v[i] ELSE <<44>> \o v[i]])
  \o <<125>>

(* The client's side of Bind and DataRow.  An array in binary has its      *)
(* dimensions, a flag, the type of its elements, its length and lower      *)
(* bound in front.                                                         *)
Encoded(type, v, format) ==
  CASE v = Null -> Null
    [] v # Null /\ type \in DOMAIN Width ->
         IF format = 1 THEN BigEndian(v, Width[type]) ELSE Digits(v)
    [] v # Null /\ type = TextType -> v
    [] v # Null /\ type = TextArray /\ format = 0 -> Braced(v)
    [] v # Null /\ type = TextArray /\ format = 1 ->
         BigEndian(1, 4) \o BigEndian(0, 4) \o BigEndian(TextType, 4)
         \o BigEndian(Len(v), 4) \o BigEndian(1, 4)
         \o FlattenSeq([i \in DOMAIN v |-> BigEndian(Len(v[i]), 4) \o v[i]])

(* What the client makes of a value of a row, as a text.  A number in      *)
(* binary has its width, or the client cannot read it.                     *)
Unreadable == <<>>
Decoded(type, data, format) ==
  IF data = Null \/ type \notin DOMAIN Width \/ format = 0 THEN data
  ELSE IF Len(data) = Width[type] THEN Digits(Number(data, 1, Len(data)).val)
  ELSE Unreadable
-----------------------------------------------------------------------------
(* Parameters.                                                             *)
ParamBytes(p) ==
  [i \in DOMAIN p.params |->
     Encoded(p.params[i].type, p.params[i].val, FormatOf(p.formats, i))]

(* The elements of the JSON array that is made of an array.  A null bitmap *)
(* is looked for behind the header, where the first element begins; an     *)
(* element whose bit is not set becomes null, and one that does not fit    *)
(* into the rest ends the array.                                           *)
pgBinaryArrayToJSON(b) ==
  LET n == Long(b, 13).val
      Set(i) == (b[21 + (i - 1) \div 8] \div 2^((i - 1) % 8)) % 2 = 1
      Fits(p) == p + 3 <= Len(b) /\ p + 3 + Long(b, p).val <= Len(b)
      from[i \in 1..(n + 1), p \in 1..(Len(b) + 1)] ==
        IF i > n THEN <<>>
        ELSE IF ~Set(i) THEN <<Null>> \o from[i + 1, p]
        ELSE IF ~Fits(p) THEN <<>>
        ELSE <<ValueAt(b, p).val>> \o from[i + 1, ValueAt(b, p).next]
  IN  IF Long(b, 1).val # 1 THEN <<>> ELSE from[1, 21 + (n + 7) \div 8]

(* A number in binary stays as it is.                                      *)
convertPGParam_EmptyIsNull(data, format, type) ==
  IF data \in {Null, <<>>} THEN Null ELSE data
convertPGParam(data, format, type) ==
  IF data # Null /\ format = 1 /\ type >= 1000 /\ Len(data) > 12
  THEN pgBinaryArrayToJSON(data) ELSE data

(* The first code counts for every parameter.                              *)
FirstFormat(p) == IF p.formats = <<>> THEN 0 ELSE p.formats[1]

Arguments(p) ==
  LET data == ParamBytes(p)
  IN  [i \in DOMAIN data |-> convertPGParam(data[i], FirstFormat(p), p.params[i].type)]

(* Into a query of the catalog, parameters are written as numbers when     *)
(* they have the length of one, otherwise in quotes.                       *)
Quote == 39
Doubled(s) ==
  FlattenSeq([i \in DOMAIN s |-> IF s[i] = Quote THEN <<Quote, Quote>> ELSE <<s[i]>>])
InQuotes(s) == <<Quote>> \o Doubled(s) \o <<Quote>>

NullWord == <<78, 85, 76, 76>>
Unsigned(b) == [i \in 1..(Len(b) + 1) |-> IF i = 1 THEN 0 ELSE b[i - 1]]
Literal(data, format) ==
  CASE data = Null -> NullWord
    [] data # Null /\ format = 1 /\ Len(data) \in {2, 4, 8} ->
         Digits(Number(Unsigned(data), 1, Len(data) + 1).val)
    [] OTHER -> InQuotes(data)

Placeholder(i) == <<36>> \o Digits(i)

Replaced(s, old, new) ==
  LET At(i) == i + Len(old) <= Len(s) + 1 /\ SubSeq(s, i, i + Len(old) - 1) = old
      from[i \in 1..(Len(s) + 1)] ==
        IF i > Len(s) THEN <<>>
        ELSE IF At(i) THEN new \o from[i + Len(old)]
        ELSE <<s[i]>> \o from[i + 1]
  IN  from[1]

(* From the last parameter to the first: $1 is the beginning of $10.       *)
Substituted_FirstToLast(text, data, format) ==
  LET after[i \in 0..Len(data)] ==
        IF i = 0 THEN text
        ELSE Replaced(after[i - 1], Placeholder(i), Literal(data[i], format))
  IN  after[Len(data)]
Substituted(text, data, format) ==
  LET after[i \in 1..(Len(data) + 1)] ==
        IF i > Len(data) THEN text
        ELSE Replaced(after[i + 1], Placeholder(i), Literal(data[i], format))
  IN  after[1]

(* The text of a query whose parameters are written as Param(i), and the   *)
(* numbers of its parameters in the order of their places.                 *)
QueryText(pieces, Param(_)) ==
  FlattenSeq([i \in DOMAIN pieces |->
                IF pieces[i].param = 0 THEN pieces[i].text ELSE Param(pieces[i].param)])

Places(p) ==
  LET places == SelectSeq(p.pieces, LAMBDA piece : piece.param # 0)
  IN  [k \in DOMAIN places |-> places[k].param]

Sent(p) == QueryText(p.pieces, Placeholder)

(* MySQL gets a question mark for every number, and gives them the         *)
(* arguments in their order; it refuses more or fewer than it has.         *)
QuestionMark(i) == <<63>>
Translated(p) == QueryText(p.pieces, QuestionMark)
EnoughFor(p, arguments) == Len(Places(p)) = Len(arguments)
-----------------------------------------------------------------------------
(* Rows.                                                                   *)
canBinaryEncode(type) == type \in {Int2, Int4, Int8}

(* SendDataRow writes a value as text; textToBinary then reads it.         *)
CellText(type, v) ==
  IF v # Null /\ type \in DOMAIN Width THEN Digits(v) ELSE v
textToBinary(text, type) ==
  IF type \in DOMAIN Width THEN BigEndian(ParseInt(text), Width[type]) ELSE text

Cell(type, v, format) ==
  IF v # Null /\ format = 1 THEN textToBinary(CellText(type, v), type)
  ELSE CellText(type, v)

(* The columns that are sent: for a query of the catalog those it selects, *)
(* by name and in its order; a column that the answer lacks is NULL.       *)
Columns(p, r) == IF p.path = "catalog" /\ p.columns # <<>> THEN p.columns ELSE r.names
Selected(p, r, row) ==
  [i \in DOMAIN Columns(p, r) |->
     IF \E j \in DOMAIN r.names : r.names[j] = Columns(p, r)[i]
     THEN row[CHOOSE j \in DOMAIN r.names : r.names[j] = Columns(p, r)[i]]
     ELSE Null]

WantsBinary(p) == p.path \in {"plain", "parameters"} /\ p.results # <<>> /\ p.results[1] = 1

(* The formats that RowDescription announces.                              *)
Announced(p, r) ==
  [i \in DOMAIN Columns(p, r) |->
     IF WantsBinary(p) /\ canBinaryEncode(TypeOf[Columns(p, r)[i]]) THEN 1 ELSE 0]

(* The formats that SendDataRow is given; a column beyond them is text.    *)
RowFormats(p, r) ==
  CASE p.path = "plain" -> Announced(p, r)
    [] p.path = "parameters" -> IF WantsBinary(p) THEN p.results ELSE <<>>
    [] OTHER -> <<>>

DataRow(p, r, row) ==
  LET formats == RowFormats(p, r)
  IN  SendDataRow([i \in DOMAIN Columns(p, r) |->
        Cell(TypeOf[Columns(p, r)[i]], Selected(p, r, row)[i],
             IF i \in DOMAIN formats THEN formats[i] ELSE 0)])

Description(p, r) ==
  SendRowDescription([i \in DOMAIN Columns(p, r) |->
    [name |-> Columns(p, r)[i], oid |-> TypeOf[Columns(p, r)[i]],
     format |-> Announced(p, r)[i]]])

(* A query that the catalog does not know goes on without its portal, and  *)
(* is described a second time; a RETURNING is never described here.        *)
Describes(p) == p.path # "returning" /\ (~p.described \/ p.path = "unknown")

(* What a portal's query may return: a fixed answer is a row of texts.     *)
Answers(p) ==
  {r \in Results : p.path = "fixed" =>
     Len(r.rows) = 1 /\ \A i \in DOMAIN r.names : TypeOf[r.names[i]] = TextType}
-----------------------------------------------------------------------------
Init ==
  /\ portal \in Portals
  /\ result \in Answers(portal)
  /\ phase = "bound"
  /\ query = <<>>
  /\ args = <<>>
  /\ fetched = 0
  /\ out = <<>>

Ask(text, arguments) ==
  /\ phase = "bound"
  /\ phase' = "sending"
  /\ query' = text
  /\ args' = arguments
  /\ out' = IF Describes(portal) THEN Description(portal, result) ELSE <<>>
  /\ UNCHANGED <<portal, result, fetched>>

Write(text, arguments) ==
  /\ phase = "bound"
  /\ phase' = "done"
  /\ query' = text
  /\ args' = arguments
  /\ out' = SendCommandComplete(<<85, 49>>)
  /\ UNCHANGED <<portal, result, fetched>>

executeParameterizedMySQLQuery ==
  /\ portal.path = "parameters"
  /\ EnoughFor(portal, portal.params)
  /\ Ask(Translated(portal), Arguments(portal))

executeMySQLQuery ==
  portal.path = "plain" /\ Ask(Translated(portal), <<>>)

executeCatalogQueryExtended ==
  /\ portal.path \in {"catalog", "unknown"}
  /\ Ask(Substituted(Sent(portal), ParamBytes(portal), FirstFormat(portal)), <<>>)

(* The write has succeeded, and the row is read back by its id, the first  *)
(* parameter, or cannot be.                                                *)
executeWriteReturning ==
  /\ portal.path = "returning"
  /\ EnoughFor(portal, portal.params)
  /\ \/ portal.params # <<>> /\ Ask(Translated(portal), Arguments(portal))
     \/ Write(Translated(portal), Arguments(portal))

FixedAnswer ==
  portal.path = "fixed" /\ Ask(<<>>, <<>>)

(* A write, and a query with parameters that MySQL has refused and that is *)
(* run again as a write, are answered without rows.                        *)
ExecWrite ==
  \/ /\ portal.path = "parameters"
     /\ EnoughFor(portal, portal.params)
     /\ Write(Translated(portal), Arguments(portal))
  \/ portal.path = "plain" /\ Write(Translated(portal), <<>>)

SendRow ==
  /\ phase = "sending" /\ fetched < Len(result.rows)
  /\ fetched' = fetched + 1
  /\ out' = out \o DataRow(portal, result, result.rows[fetched + 1])
  /\ UNCHANGED <<portal, result, phase, query, args>>

(* MySQL refuses the query, or its rows end with an error, which           *)
(* executeWriteReturning does not look at.                                 *)
Fail ==
  /\ portal.path # "fixed"
  /\ phase = "bound" \/ (phase = "sending" /\ portal.path # "returning")
  /\ phase' = "failed"
  /\ UNCHANGED <<portal, result, query, args, fetched, out>>

Complete ==
  /\ phase = "sending"
  /\ fetched = Len(result.rows) \/ portal.path = "returning"
  /\ phase' = "done"
  /\ out' = out \o SendCommandComplete(<<83>> \o Digits(fetched))
  /\ UNCHANGED <<portal, result, query, args, fetched>>

(* The client executes the portal again, and gets another answer.          *)
Again ==
  /\ phase \in {"done", "failed"}
  /\ result' \in Answers(portal)
  /\ phase' = "bound" /\ query' = <<>> /\ args' = <<>> /\ fetched' = 0 /\ out' = <<>>
  /\ UNCHANGED portal

Next ==
  \/ executeParameterizedMySQLQuery \/ executeMySQLQuery \/ executeCatalogQueryExtended
  \/ executeWriteReturning \/ FixedAnswer \/ ExecWrite \/ SendRow \/ Fail \/ Complete \/ Again

Spec == Init /\ [][Next]_vars
-----------------------------------------------------------------------------
(* What a value means, as a text or Null.                                  *)
Meaning(type, v) ==
  IF v # Null /\ type = TextArray THEN Braced(v) ELSE CellText(type, v)

(* The parameters that do not arrive: numbers in binary, which MySQL gets  *)
(* as bytes, and arrays as soon as a format is binary, which it gets as    *)
(* bytes, with NULL for every element, or empty.                           *)
Lost(p, i) ==
  LET binary == FormatOf(p.formats, i) = 1
  IN  \/ p.params[i].type \in DOMAIN Width /\ binary
      \/ p.params[i].type = TextArray /\ (binary \/ FirstFormat(p) = 1)

(* If a statement has its parameters in the order of their numbers, MySQL  *)
(* puts each value where the client has, NULL and the empty text told      *)
(* apart, unless it is lost on the way.  A statement with another order    *)
(* gets its values exchanged (translator.go:474-477, server.go:1018-1033,  *)
(* 1294-1312, 1640-1732).                                                  *)
InOrder(p) == Places(p) = [k \in DOMAIN p.params |-> k]
ArgumentsArrive ==
  args # <<>> /\ InOrder(portal) =>
    \A k \in DOMAIN args :
      LET i == Places(portal)[k]
      IN  Lost(portal, i) \/ args[k] = Meaning(portal.params[i].type, portal.params[i].val)

(* The parameters that the catalog misreads: negative numbers in binary,   *)
(* numbers whose format is not that of the first parameter, texts that are *)
(* taken for numbers, and texts in which a placeholder can be found.       *)
Misread(p, i) ==
  LET param == p.params[i]
      format == FormatOf(p.formats, i)
  IN  /\ param.val # Null
      /\ IF param.type \in DOMAIN Width
         THEN format # FirstFormat(p) \/ (format = 1 /\ param.val < 0)
         ELSE \/ FirstFormat(p) = 1 /\ Len(param.val) \in {2, 4, 8}
              \/ \E j \in DOMAIN param.val : param.val[j] = 36

(* In a query of the catalog every parameter stands where the client put   *)
(* it, as one literal, unless one of them is misread: $1 is not read       *)
(* within $10, and a text ends where it should (server.go:1076-1111).      *)
MeantLiteral(i) ==
  LET param == portal.params[i]
      inBinary == FormatOf(portal.formats, i) = 1 /\ param.type \in DOMAIN Width
  IN  CASE param.val = Null -> NullWord
        [] param.val # Null /\ inBinary -> Digits(param.val)
        [] OTHER -> InQuotes(Meaning(param.type, param.val))
SubstitutedInPlace ==
  /\ portal.path \in {"catalog", "unknown"}
  /\ phase \in {"sending", "done"}
  /\ \A i \in DOMAIN portal.params : ~Misread(portal, i)
  => query = QueryText(portal.pieces, MeantLiteral)

(* The portals that get numbers in another format than their clients read: *)
(* with parameters, those that ask for binary other than with one code for *)
(* each of the n columns; and those described before that ask for several  *)
(* formats, or for binary from the catalog or from RETURNING.              *)
OtherFormat(p, n) ==
  \/ p.path = "parameters" /\ WantsBinary(p) /\ p.results # [i \in 1..n |-> 1]
  \/ /\ ~Describes(p)
     /\ \/ \E i \in DOMAIN p.results : p.results[i] # p.results[1]
        \/ p.path \in {"catalog", "returning"} /\ p.results # <<>> /\ p.results[1] = 1

(* The client reads the rows that MySQL or the catalog returned, in their  *)
(* order and without one more or less, when it decodes them as             *)
(* RowDescription said or, when that was sent before, as it has asked;     *)
(* only numbers are unreadable to the portals of OtherFormat (server.go:   *)
(* 1125-1195, 1238-1292, 1362-1402, 1581-1617, writer.go:93-203).          *)
RowsArrive ==
  LET columns == Columns(portal, result)
      Rows == SelectSeq(Frames(out), LAMBDA f : f.type = 68)
      Format(i) == IF Describes(portal) THEN Announced(portal, result)[i]
                   ELSE FormatOf(portal.results, i)
      Unread(i) == TypeOf[columns[i]] \in DOMAIN Width /\ OtherFormat(portal, Len(columns))
  IN  /\ Len(Rows) = fetched
      /\ \A k \in DOMAIN Rows : \A cells \in {Parts(Rows[k].body, <<"values">>)[1]} :
           /\ Len(cells) = Len(columns)
           /\ \A i \in DOMAIN columns, j \in DOMAIN result.names :
                columns[i] = result.names[j] /\ ~Unread(i) =>
                  Decoded(TypeOf[columns[i]], cells[i], Format(i)) =
                    Meaning(TypeOf[columns[i]], result.rows[k][j])
=============================================================================
