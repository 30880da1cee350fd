--------------------------- MODULE NativeProtocol ---------------------------
(***************************************************************************)
(* One connection of the ClickHouse native server: the bytes that the      *)
(* client has sent and the server has not read, the loop that takes one    *)
(* packet after the other from them, and the packets it answers with.      *)
(* handleConn and its helpers ignore read errors, so what a handler gets   *)
(* from a stream that ends in the middle of a packet is part of the model. *)
(*                                                                         *)
(* One step handles one packet: the server runs nothing else for this      *)
(* connection and waits while a packet is incomplete.  A text is a short   *)
(* sequence of bytes, and Kind says what the server makes of it; one that  *)
(* is not in its domain is a query that MySQL refuses.  An operator X_Y is *)
(* the definition X with a fault of the kind Y seeded into it; no          *)
(* specification uses it.                                                  *)
(***************************************************************************)
EXTENDS ChProto

CONSTANTS
  Kind,        (* text -> one of Kinds                                      *)
  Requests,    (* the packets the client sends                             *)
  Tables,      (* the results of MySQL, as [cols, rows]                    *)
  MaxRequests, (* bound: how many packets a client sends                   *)
  Breaks       (* TRUE when the connection may break                       *)

PacketHello == 0
PacketQuery == 1
PacketData == 2
PacketCancel == 3
PacketPing == 4

QuerySecondary == 1
CompressionEnabled == 1

Requested == {"hello", "query", "data", "cancel", "ping", "other"}

Kinds == {"blank", "system", "insert", "write", "read"}

(* What a client can write into its packets.  TrimSpace leaves nothing of   *)
(* the empty text.                                                         *)
ASSUME NativeAssumption ==
  /\ <<>> \in DOMAIN Kind /\ Kind[<<>>] = "blank"
  /\ \A text \in DOMAIN Kind : Kind[text] \in Kinds
  /\ \A r \in Requests :
       /\ r.type \in Requested
       /\ r.type = "query" =>
            /\ r.text \in Seq(Byte) /\ Len(r.text) \in Uints
            /\ r.secondary \in Seq(Byte) /\ Len(r.secondary) \in Uints
            /\ r.kind \in Uints /\ r.compression \in Uints
       /\ r.type = "data" => r.cols \in Uints /\ r.rows \in Uints
  /\ \A t \in Tables : t.cols \in Nat \ {0} /\ t.rows \in Nat
  /\ MaxRequests \in Nat /\ Breaks \in BOOLEAN

VARIABLES
  wire,     (* the bytes that wait to be read                              *)
  broken,   (* whether the client's side of the connection has ended       *)
  phase,    (* "handshake", "serving" or "closed"                          *)
  sent,     (* the packets the client has sent, after its handshake        *)
  handled,  (* how many packets the server has taken from the stream       *)
  executed, (* the texts given to MySQL, to the buffer or to system.go     *)
  out       (* the packets the server has answered with                    *)

vars == <<wire, broken, phase, sent, handled, executed, out>>
-----------------------------------------------------------------------------
(* The fields of the packets, in the order in which they are read: the     *)
(* handshake has three numbers and default_db, user and password; a query  *)
(* its id, stage, compression, interface version, client name, version in  *)
(* three parts, revision, timezone, quota key, distributed depth, text and *)
(* kind.                                                                   *)
HelloFields == <<"uint32", "uint32", "uint32", "string", "string", "string">>

QueryFields_NoDepth ==
  <<"string", "varint", "varint", "varint", "string", "varint", "varint",
    "varint", "varint", "string", "varint", "string", "varint">>

QueryFields ==
  <<"string", "varint", "varint", "varint", "string", "varint", "varint",
    "varint", "varint", "string", "varint", "varint", "string", "varint">>

Write(v, kind) ==
  CASE kind = "varint" -> WriteVarInt(v)
    [] kind = "string" -> WriteString(v)
    [] kind = "uint32" -> [i \in 1..4 |-> v]

Fields(values, kinds) ==
  FlattenSeq([i \in DOMAIN kinds |-> Write(values[i], kinds[i])])

(* What a client writes for a packet.  A block has the name, the type, the *)
(* serialisation and the values of every column behind its two numbers.    *)
Column(rows) == <<1, 110, 1, 83, 0>> \o FlattenSeq([i \in 1..rows |-> <<1, 55>>])

Hello == Fields(<<0, 0, 0, <<>>, <<100>>, <<>>>>, HelloFields)

Encode(r) ==
  CASE r.type = "hello" -> <<PacketHello>> \o Hello
    [] r.type = "query" ->
         <<PacketQuery>>
         \o Fields(<<<<120>>, 0, r.compression, 1, <<99>>, 24, 8, 5, 200,
                     <<>>, 0, 0, r.text, r.kind>>,
                   <<"string", "varint", "varint", "varint", "string", "varint",
                     "varint", "varint", "varint", "string", "varint", "varint",
                     "string", "varint">>)
         \o (IF r.kind = QuerySecondary THEN WriteString(r.secondary) ELSE <<>>)
         \o (IF r.compression = CompressionEnabled THEN <<9, 9, 9, 9>> ELSE <<>>)
    [] r.type = "data" ->
         <<PacketData>> \o WriteVarInt(r.cols) \o WriteVarInt(r.rows)
         \o FlattenSeq([i \in 1..r.cols |-> Column(r.rows)])
    [] r.type = "cancel" -> <<PacketCancel>>
    [] r.type = "ping" -> <<PacketPing>>
    [] r.type = "other" -> <<9>>

Stream(requests) == FlattenSeq([i \in DOMAIN requests |-> Encode(requests[i])])

Init ==
  /\ wire = Hello
  /\ broken = FALSE
  /\ phase = "handshake"
  /\ sent = <<>>
  /\ handled = 0
  /\ executed = <<>>
  /\ out = <<>>
-----------------------------------------------------------------------------
Send(r) ==
  /\ ~broken
  /\ Len(sent) < MaxRequests
  /\ sent' = Append(sent, r)
  /\ wire' = wire \o Encode(r)
  /\ UNCHANGED <<broken, phase, handled, executed, out>>

(* The connection ends, and what was under way is cut off anywhere.        *)
Break(k) ==
  /\ Breaks
  /\ ~broken
  /\ broken' = TRUE
  /\ wire' = SubSeq(wire, 1, k)
  /\ UNCHANGED <<phase, sent, handled, executed, out>>

(* A read waits for bytes that may still come, and fails at the end.       *)
Arrived(read) == read.end # "short" \/ broken

Consume(next) == wire' = SubSeq(wire, next, Len(wire))

(* The packets of an answer.  A value of a result is named by its column   *)
(* and its row.                                                            *)
Packet(t) == [type |-> t]
Block(cols, rows, values) ==
  [type |-> "data", cols |-> cols, rows |-> rows, values |-> values]
EndOfStream == Packet("end")
Packets ==
  [type : {"hello", "pong", "progress", "exception", "end"}]
  \cup [type : {"data"}, cols : Nat, rows : Nat, values : Seq(Nat \X Nat)]

ByRow(cols, rows) ==
  [i \in 1..(cols * rows) |-> <<((i - 1) % cols) + 1, ((i - 1) \div cols) + 1>>]
ByColumn(cols, rows) ==
  [i \in 1..(cols * rows) |-> <<((i - 1) \div rows) + 1, ((i - 1) % rows) + 1>>]

Reply(packets) == out' = out \o packets
sendEmptyBlock == <<Block(0, 0, <<>>)>>
sendNativeProgress == <<Packet("progress"), EndOfStream>>
sendNativeError == <<Packet("exception"), EndOfStream>>
sendNativeResponse(t) ==
  <<Packet("progress"), Block(t.cols, t.rows, ByRow(t.cols, t.rows)), EndOfStream>>
sendNativeData_ByRow(t, n) ==
  <<Packet("progress"), Block(t.cols, n, ByRow(t.cols, n)), EndOfStream>>
sendNativeData_AllRows(t, n) ==
  <<Packet("progress"), [Block(t.cols, n, ByColumn(t.cols, n)) EXCEPT !.rows = t.rows],
    EndOfStream>>
sendNativeData(t, n) ==
  <<Packet("progress"), Block(t.cols, n, ByColumn(t.cols, n)), EndOfStream>>

(* The first number must arrive, errors of the other fields are ignored.   *)
Handshake ==
  /\ phase = "handshake"
  /\ \E hello \in {ReadFields(wire, 1, HelloFields)} :
       /\ Arrived(hello)
       /\ Consume(hello.next)
       /\ IF Len(wire) < 4
          THEN phase' = "closed" /\ UNCHANGED out
          ELSE phase' = "serving" /\ Reply(<<Packet("hello")>>)
       /\ UNCHANGED <<broken, sent, handled, executed>>

HangUp_ReadsOn ==
  /\ phase = "serving"
  /\ wire = <<>>
  /\ broken
  /\ UNCHANGED vars

HangUp ==
  /\ phase = "serving"
  /\ wire = <<>>
  /\ broken
  /\ phase' = "closed"
  /\ UNCHANGED <<wire, broken, sent, handled, executed, out>>

(* The server takes the packet at the head of the stream.                  *)
Takes(type) == phase = "serving" /\ wire # <<>> /\ wire[1] = type
Took == handled' = handled + 1 /\ UNCHANGED <<broken, sent>>

(* The two numbers of a block are read, its columns are not.               *)
SkipBlock ==
  /\ Takes(PacketData)
  /\ \E block \in {ReadFields(wire, 2, <<"varint", "varint">>)} :
       /\ Arrived(block)
       /\ Consume(block.next)
       /\ Took
       /\ UNCHANGED <<phase, executed, out>>

Ping ==
  /\ Takes(PacketPing)
  /\ Consume(2)
  /\ Reply(<<Packet("pong")>>)
  /\ Took
  /\ UNCHANGED <<phase, executed>>

(* Queries run one after the other, so Cancel never finds one running: it  *)
(* ends the connection.                                                    *)
Cancel ==
  /\ Takes(PacketCancel)
  /\ Consume(2)
  /\ phase' = "closed"
  /\ Took
  /\ UNCHANGED <<executed, out>>

ReHandshake ==
  /\ Takes(PacketHello)
  /\ \E hello \in {ReadFields(wire, 2, HelloFields)} :
       /\ Arrived(hello)
       /\ Consume(hello.next)
       /\ Reply(<<Packet("hello")>>)
       /\ Took
       /\ UNCHANGED <<phase, executed>>

(* Of a packet of any other type one byte is read.                         *)
Unknown ==
  /\ phase = "serving" /\ wire # <<>> /\ wire[1] \notin 0..4
  /\ Consume(2)
  /\ Took
  /\ UNCHANGED <<phase, executed, out>>
-----------------------------------------------------------------------------
(* The query packet, as a set of one: the fixed fields, the secondary      *)
(* text, which replaces the first one unless it is empty, and four bytes   *)
(* that are skipped when compression is asked for.                         *)
KindField(fixed) == fixed.val[Len(fixed.val)]
TextField(fixed) == fixed.val[Len(fixed.val) - 1]
Second(fixed) == IF KindField(fixed) = QuerySecondary THEN <<"string">> ELSE <<>>
Sizes(fixed) == IF fixed.val[3] = CompressionEnabled THEN <<"uint32">> ELSE <<>>
PacketOf(fixed, more) ==
  [text |-> IF Second(fixed) = <<>> \/ more.val[1] = <<>> THEN TextField(fixed)
            ELSE more.val[1],
   next |-> more.next,
   end |-> IF fixed.end = "short" THEN fixed.end ELSE more.end]
Query ==
  UNION {{PacketOf(fixed, more) :
            more \in {ReadFields(wire, fixed.next, Second(fixed) \o Sizes(fixed))}} :
         fixed \in {ReadFields(wire, 2, QueryFields)}}

KindOf(text) == IF text \in DOMAIN Kind THEN Kind[text] ELSE "read"

(* What a query of each kind is answered with.  A blank one gets an empty  *)
(* block and no end of the stream behind it.  A system query whose MySQL   *)
(* query fails is handed on like any other text, and MySQL refuses it.  An *)
(* INSERT is in the buffer and a direct write has been executed when they  *)
(* are answered.  rows.Next ends the loop of a SELECT after the last row   *)
(* or when the connection to MySQL is lost, which nobody looks at; a row   *)
(* that cannot be scanned fails behind the progress packet.                *)
AnswersTo(kind) ==
  CASE kind = "blank" -> {sendEmptyBlock}
    [] kind = "system" -> {sendNativeResponse(t) : t \in Tables} \cup {sendNativeError}
    [] kind \in {"insert", "write"} -> {sendNativeProgress, sendNativeError}
    [] kind = "read" ->
         (UNION {{sendNativeData(t, n) : n \in 0..t.rows} : t \in Tables})
         \cup {sendNativeError, <<Packet("progress")>> \o sendNativeError}

handleCHQuery ==
  /\ Takes(PacketQuery)
  /\ \E q \in Query :
       /\ Arrived(q)
       /\ Consume(q.next)
       /\ executed' = IF KindOf(q.text) = "blank" THEN executed
                      ELSE Append(executed, q.text)
       /\ \E packets \in AnswersTo(KindOf(q.text)) : Reply(packets)
  /\ Took
  /\ UNCHANGED phase
-----------------------------------------------------------------------------
Serve ==
  \/ Handshake \/ HangUp
  \/ SkipBlock \/ Ping \/ Cancel \/ ReHandshake \/ Unknown
  \/ handleCHQuery

Next ==
  \/ \E r \in Requests : Send(r)
  \/ \E k \in 0..Len(wire) : Break(k)
  \/ Handshake \/ HangUp
  \/ SkipBlock \/ Ping \/ Cancel \/ ReHandshake \/ Unknown
  \/ handleCHQuery

Spec == Init /\ [][Next]_vars

(* The goroutine of the connection runs, and each call of MySQL returns    *)
(* because of its context of 30 seconds.                                   *)
FairSpec == Spec /\ WF_vars(Serve)
-----------------------------------------------------------------------------
(* A block announces as many values as it holds.                           *)
PacketOK(p) ==
  p.type = "data" => Len(p.values) = p.cols * p.rows

TypeOK ==
  /\ wire \in Seq(Byte)
  /\ broken \in BOOLEAN
  /\ phase \in {"handshake", "serving", "closed"}
  /\ sent \in Seq(Requests)
  /\ handled \in Nat
  /\ executed \in Seq(Seq(Byte))
  /\ out \in Seq(Packets)
  /\ \A i \in DOMAIN out : PacketOK(out[i])

WithoutColumns == \A i \in DOMAIN sent : sent[i].type = "data" => sent[i].cols = 0

(* As long as the client sends no block with columns, the server stands at *)
(* the beginning of the next packet after each one it has handled: the     *)
(* unread bytes are the packets not yet handled, all of them or, behind a  *)
(* break, a part (http_server.go:446-622).                                 *)
InStep ==
  LET ahead == Stream(SubSeq(sent, handled + 1, Len(sent)))
      unread == IF phase = "handshake" THEN Hello \o ahead ELSE ahead
  IN  WithoutColumns =>
        IF broken THEN IsPrefix(wire, unread) ELSE wire = unread

(* What is to be executed for the first n packets, in their order.         *)
Wanted(r) ==
  IF r.kind = QuerySecondary /\ r.secondary # <<>> THEN r.secondary ELSE r.text
IsAsked(r) == r.type = "query" /\ KindOf(Wanted(r)) # "blank"
Asked(n) ==
  LET asked[i \in 0..n] ==
        IF i = 0 THEN <<>>
        ELSE IF IsAsked(sent[i]) THEN Append(asked[i - 1], Wanted(sent[i]))
        ELSE asked[i - 1]
  IN  asked[n]

(* The text of every query that was handled is executed, once and in the   *)
(* order of the packets, and nothing else is.  Where the connection breaks *)
(* within the last query, it is not executed, or its first text is, as a   *)
(* whole and never a part of it (http_server.go:530-577, varint.go:41-56). *)
OnlyWhatWasSent ==
  WithoutColumns =>
    \/ executed = Asked(handled)
    \/ /\ broken /\ wire = <<>>
       /\ handled > 0 /\ sent[handled].type = "query"
       /\ executed \in {Asked(handled - 1),
                       Append(Asked(handled - 1), sent[handled].text)}

(* The answers as a client reads them: the packets up to each end of a     *)
(* stream, and those that have none behind them yet.                       *)
Taking(read, p) ==
  IF p = EndOfStream THEN [whole |-> Append(read.whole, read.open), open |-> <<>>]
  ELSE IF p.type \in {"progress", "data", "exception"}
       THEN [whole |-> read.whole, open |-> Append(read.open, p)]
  ELSE read
AnswersRead ==
  LET read[i \in 0..Len(out)] ==
        IF i = 0 THEN [whole |-> <<>>, open |-> <<>>] ELSE Taking(read[i - 1], out[i])
  IN  read[Len(out)]

(* A value belongs to a row and a column by its place, column by column.   *)
Decodes(b) ==
  \A c \in 1..b.cols, r \in 1..b.rows : b.values[(c - 1) * b.rows + r] = <<c, r>>

Answers(kind, packets) ==
  LET types == [i \in DOMAIN packets |-> packets[i].type]
  IN  \/ types \in {<<"exception">>, <<"progress", "exception">>}
      \/ kind \in {"insert", "write"} /\ types = <<"progress">>
      \/ kind = "system" /\ types = <<"progress", "data">>
      \/ kind = "read" /\ types = <<"progress", "data">> /\ Decodes(packets[2])

(* A client that sends neither columns nor blank texts gets exactly one    *)
(* answer to each query, in order, that fits the query, and for a SELECT   *)
(* shows every value in its own row and column; every answer ends, unless  *)
(* the connection broke within the query (http_server.go:694-830).         *)
OneAnswerEach ==
  WithoutColumns /\ (\A i \in DOMAIN sent : sent[i].type = "query" => IsAsked(sent[i]))
    => /\ Len(AnswersRead.whole) = Len(executed)
       /\ \A k \in DOMAIN executed : Answers(KindOf(executed[k]), AnswersRead.whole[k])
       /\ AnswersRead.open = <<>> \/ (broken /\ wire = <<>>)

(* A packet that was sent is handled, or the connection is closed: the     *)
(* server never waits for bytes that belong to no packet                   *)
(* (http_server.go:488-513).                                               *)
EventuallyHandled ==
  \A n \in 1..MaxRequests :
    Len(sent) >= n ~> handled >= n \/ phase = "closed" \/ ~WithoutColumns
=============================================================================
