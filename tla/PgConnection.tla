---------------------------- MODULE PgConnection ----------------------------
(***************************************************************************)
(* One connection of the PostgreSQL server, byte for byte: the start-up    *)
(* with or without a request for SSL, the loop that reads one message      *)
(* after the other, and the messages that go back.  What a handler makes   *)
(* of its message is in PgSession and PgTransactions; here it succeeds or  *)
(* returns an error, in any way those modules allow.                       *)
(*                                                                         *)
(* One step handles one message: the server runs nothing else for this     *)
(* connection and waits while a message is incomplete.  A client may send  *)
(* the next message before the last one is answered.  An operator X_Y is   *)
(* the definition X with a fault of the kind Y seeded into it; no          *)
(* specification uses it.                                                  *)
(***************************************************************************)
EXTENDS PgWire

CONSTANTS
  Starts,       (* how clients start: [kind, params], kind is one of Kinds *)
  Requests,     (* the messages clients send                               *)
  StatusParams, (* the parameters the server reports, <<name, value>>      *)
  ErrorFields,  (* the fields of an error, <<code, value>>                 *)
  Statuses,     (* what getTransactionStatus may return                    *)
  Pid, Secret,  (* the key of the connection                               *)
  MaxRequests,  (* bound: how many messages a client sends                 *)
  Breaks        (* TRUE when the connection may break                      *)

(* "probe" is a client that opens the connection, sends a header with a    *)
(* length that is too small, and looks whether someone is there.           *)
Kinds == {"plain", "ssl", "cancel", "probe"}

(* What is read of a message without a body.                               *)
Nothing == [none |-> 0]

ASSUME ConnectionAssumption ==
  /\ \A s \in Starts : s.kind \in Kinds
  /\ MaxRequests \in Nat /\ Breaks \in BOOLEAN

(* What the server sends has a size that its length can express.           *)
ASSUME ServerAssumption ==
  /\ IsFiniteSet(StatusParams) /\ StatusParams \subseteq Texts \X Texts
  /\ \A param \in StatusParams : Len(param[1]) + Len(param[2]) + 6 \in Longs
  /\ IsFiniteSet(ErrorFields) /\ ErrorFields \subseteq Byte \X Texts
  /\ \A fields \in SetToSeqs(ErrorFields) : Len(Fields(fields)) + 5 \in Longs
  /\ Statuses \subseteq Byte /\ Pid \in Longs /\ Secret \in Longs

VARIABLES
  start,      (* how this client starts                                    *)
  wire,       (* the bytes that wait to be read                            *)
  broken,     (* whether the client's side has ended                       *)
  phase,      (* "probe", "denied", "serving" or "closed"                  *)
  started,    (* whether the client has sent its start-up message          *)
  parameters, (* the parameters of the session                             *)
  sent,       (* the messages the client has sent after its start-up       *)
  got,        (* what the server has read, a record for each message       *)
  failed,     (* the numbers of the messages that returned an error        *)
  out         (* the bytes that were sent to the client                    *)

vars == <<start, wire, broken, phase, started, parameters, sent, got, failed, out>>
-----------------------------------------------------------------------------
(* The client's side, as the protocol defines it.                          *)
ProtocolVersion == 196608
SSLCode == 80877103
CancelCode == 80877102

Header(length, code) == BigEndian(length, 4) \o BigEndian(code, 4)
Params(s) ==
  FlattenSeq([i \in DOMAIN s.params |-> Text(s.params[i][1]) \o Text(s.params[i][2])])
Startup(s) == Header(Len(Params(s)) + 9, ProtocolVersion) \o Append(Params(s), 0)

FirstBytes(s) ==
  CASE s.kind = "plain" -> Startup(s)
    [] s.kind = "ssl" -> Header(8, SSLCode)
    [] s.kind = "cancel" -> Header(16, CancelCode) \o BigEndian(7, 4) \o BigEndian(9, 4)
    [] s.kind = "probe" -> Header(4, ProtocolVersion)

List(items) == BigEndian(Len(items), 2) \o FlattenSeq(items)
Words(ns, width) == List([i \in DOMAIN ns |-> BigEndian(ns[i], width)])

Body(r) ==
  CASE r.type = "query" -> Text(r.msg.string)
    [] r.type = "parse" -> Text(r.msg.name) \o Text(r.msg.query) \o Words(r.msg.oids, 4)
    [] r.type = "bind" ->
         Text(r.msg.portal) \o Text(r.msg.statement) \o Words(r.msg.formats, 2)
         \o List([i \in DOMAIN r.msg.params |->
                    IF r.msg.params[i] = Null THEN <<255, 255, 255, 255>>
                    ELSE BigEndian(Len(r.msg.params[i]), 4) \o r.msg.params[i]])
         \o Words(r.msg.results, 2)
    [] r.type = "execute" -> Text(r.msg.portal) \o BigEndian(r.msg.maxRows, 4)
    [] r.type \in {"describe", "close"} -> <<r.msg.kind>> \o Text(r.msg.name)
    [] OTHER -> <<>>

(* The type bytes of the messages that handleMessage knows, and 122.       *)
TypeByte ==
  [query |-> 81, parse |-> 80, bind |-> 66, execute |-> 69, describe |-> 68,
   sync |-> 83, flush |-> 72, close |-> 67, terminate |-> 88, password |-> 112,
   other |-> 122]

Encode(r) ==
  <<TypeByte[r.type]>> \o BigEndian(Len(Body(r)) + 4, 4) \o Body(r)

(* What the messages of a type carry.                                      *)
Values == Seq(Byte) \cup {Null}
Content(type) ==
  CASE type = "query" -> [string : Texts]
    [] type = "parse" -> [name : Texts, query : Texts, oids : Seq(Longs)]
    [] type = "bind" -> [portal : Texts, statement : Texts, formats : Seq(Shorts),
                         params : Seq(Values), results : Seq(Shorts)]
    [] type = "execute" -> [portal : Texts, maxRows : Longs]
    [] type \in {"describe", "close"} -> [kind : Byte, name : Texts]
    [] OTHER -> {Nothing}

(* Clients send messages of the protocol, of a size that it can express.   *)
Countable(r) ==
  CASE r.type = "parse" -> Len(r.msg.oids) \in Shorts
    [] r.type = "bind" ->
         /\ Len(r.msg.formats) \in Shorts /\ Len(r.msg.results) \in Shorts
         /\ Len(r.msg.params) \in Shorts
         /\ \A i \in DOMAIN r.msg.params :
              r.msg.params[i] # Null => Len(r.msg.params[i]) \in Longs
    [] OTHER -> TRUE

ASSUME ClientAssumption ==
  /\ Null \notin Seq(Byte)
  /\ \A r \in Requests :
       /\ r.type \in DOMAIN TypeByte /\ r.msg \in Content(r.type)
       /\ Countable(r) /\ Len(Body(r)) + 4 \in Longs
  /\ \A s \in Starts :
       /\ s.params \in Seq(Texts \X Texts)
       /\ Len(Params(s)) + 9 \in Longs

Init ==
  /\ start \in Starts
  /\ wire = FirstBytes(start)
  /\ broken = FALSE
  /\ phase = "probe"
  /\ started = (start.kind # "ssl")
  /\ parameters = <<>>
  /\ sent = <<>>
  /\ got = <<>>
  /\ failed = {}
  /\ out = <<>>

(* A client that was denied SSL goes on without it.                        *)
SendStartup ==
  /\ phase = "denied" /\ ~started /\ ~broken
  /\ started' = TRUE
  /\ wire' = wire \o Startup(start)
  /\ UNCHANGED <<start, broken, phase, parameters, sent, got, failed, out>>

Send(r) ==
  /\ started /\ start.kind \in {"plain", "ssl"} /\ ~broken
  /\ Len(sent) < MaxRequests
  /\ sent' = Append(sent, r)
  /\ wire' = wire \o Encode(r)
  /\ UNCHANGED <<start, broken, phase, started, parameters, got, failed, out>>

(* The connection ends, and what was under way is cut off anywhere.        *)
Break(k) ==
  /\ Breaks /\ ~broken
  /\ broken' = TRUE
  /\ wire' = SubSeq(wire, 1, k)
  /\ UNCHANGED <<start, phase, started, parameters, sent, got, failed, out>>
-----------------------------------------------------------------------------
(* The start-up: a header of 8 bytes, then as much as its length says.     *)
Starting == phase \in {"probe", "denied"}
Code == Number(wire, 5, 4).val
Length == Number(wire, 1, 4).val
Consume(n) == wire' = SubSeq(wire, n + 1, Len(wire))

DenySSL_HangsUp ==
  /\ phase = "probe" /\ Len(wire) >= 8 /\ Code = SSLCode
  /\ phase' = "closed"
  /\ out' = <<78>>
  /\ Consume(8)
  /\ UNCHANGED <<start, broken, started, parameters, sent, got, failed>>

DenySSL ==
  /\ phase = "probe" /\ Len(wire) >= 8 /\ Code = SSLCode
  /\ phase' = "denied"
  /\ out' = <<78>>
  /\ Consume(8)
  /\ UNCHANGED <<start, broken, started, parameters, sent, got, failed>>

Reports == SetToSeqs(StatusParams)

Welcome(report) ==
  AuthenticationOK
  \o FlattenSeq([i \in DOMAIN report |-> SendParameterStatus(report[i][1], report[i][2])])
  \o SendBackendKeyData(Pid, Secret) \o SendReadyForQuery(73)

(* A map after the assignments of another (@@, in words the prover knows). *)
Replaced(old, new) ==
  [n \in DOMAIN old \cup DOMAIN new |-> IF n \in DOMAIN new THEN new[n] ELSE old[n]]

(* Everyone is let in.  The second header may have any code, and so may    *)
(* the first one apart from that of SSL: a request to cancel starts a      *)
(* session too, and cancels nothing.                                       *)
Accept_KeepsHeader ==
  /\ Starting /\ Len(wire) >= 8 /\ Len(wire) >= Length /\ Length >= 8
  /\ phase = "denied" \/ Code # SSLCode
  /\ \E params \in {StartupParameters(b) : b \in {SubSeq(wire, 5, Length)}} :
       parameters' = Replaced(params, AsMap(SetToSeq(StatusParams)))
  /\ \E report \in Reports : out' = out \o Welcome(report)
  /\ Consume(Length)
  /\ phase' = "serving"
  /\ UNCHANGED <<start, broken, started, sent, got, failed>>

Accept ==
  /\ Starting /\ Len(wire) >= 8 /\ Len(wire) >= Length /\ Length >= 8
  /\ phase = "denied" \/ Code # SSLCode
  /\ \E params \in {StartupParameters(b) : b \in {SubSeq(wire, 9, Length)}} :
       parameters' = Replaced(params, AsMap(SetToSeq(StatusParams)))
  /\ \E report \in Reports : out' = out \o Welcome(report)
  /\ Consume(Length)
  /\ phase' = "serving"
  /\ UNCHANGED <<start, broken, started, sent, got, failed>>

Close ==
  /\ phase' = "closed"
  /\ UNCHANGED <<start, wire, broken, started, parameters, sent, got, failed, out>>

(* A length below 8, or a connection that ends first.                      *)
Reject ==
  /\ Starting
  /\ \/ Len(wire) >= 8 /\ Length < 8
     \/ broken /\ Len(wire) < 8
     \/ broken /\ Len(wire) >= 8 /\ Len(wire) < Length
  /\ Close
-----------------------------------------------------------------------------
(* The message at the head of the stream, as a set that is empty unless it *)
(* has arrived whole and has that type.                                    *)
Taken(type) ==
  IF phase = "serving" /\ wire # <<>> /\ wire[1] = TypeByte[type]
  THEN {frame \in {ReadMessage(wire, 1)} : frame.next # 0}
  ELSE {}

(* handleMessage took a frame, read it as msg, and the client gets bytes.  *)
Took(frame, type, msg, bytes) ==
  /\ got' = Append(got, [type |-> type, msg |-> msg])
  /\ out' = out \o bytes
  /\ Consume(frame.next - 1)
  /\ UNCHANGED <<start, broken, phase, started, parameters, sent>>

Works(frame, type, msg, bytes) == Took(frame, type, msg, bytes) /\ UNCHANGED failed

Ready == {SendReadyForQuery(s) : s \in Statuses}
Errors == {SendErrorResponse(fields) : fields \in SetToSeqs(ErrorFields)}

(* The handler returned an error: handleConn sends it and ReadyForQuery,   *)
(* whatever the message was, and takes the next one.                       *)
Refused_NotReady(frame, type, msg) ==
  /\ \E error \in Errors : Took(frame, type, msg, error)
  /\ failed' = failed \cup {Len(got) + 1}
Refused(frame, type, msg) ==
  /\ \E error \in Errors, ready \in Ready : Took(frame, type, msg, error \o ready)
  /\ failed' = failed \cup {Len(got) + 1}

Deallocates(query) == Len(query) >= 2 /\ query[1] = 100 /\ query[2] = 32
Results == {SendCommandComplete(<<79>>), SendEmptyQueryResponse}

(* pgx does not expect ReadyForQuery after DEALLOCATE.                     *)
HandleSimpleQuery ==
  \E frame \in Taken("query") : \E query \in {ParseQuery(frame.body)} :
    \/ \E result \in Results, ready \in Ready :
         Works(frame, "query", query,
               result \o (IF Deallocates(query.string) THEN <<>> ELSE ready))
    \/ Refused(frame, "query", query)

HandleParse ==
  \E frame \in Taken("parse") : \E parse \in {ParseParse(frame.body)} :
    Works(frame, "parse", parse, SendParseComplete)

HandleBind ==
  \E frame \in Taken("bind") : \E bind \in {ParseBind(frame.body)} :
    \/ Works(frame, "bind", bind, SendBindComplete)
    \/ Refused(frame, "bind", bind)

HandleExecute ==
  \E frame \in Taken("execute") : \E execute \in {ParseExecute(frame.body)} :
    \/ Works(frame, "execute", execute, SendCommandComplete(<<79>>))
    \/ Refused(frame, "execute", execute)

HandleDescribe ==
  \E frame \in Taken("describe") : \E describe \in {ParseDescribe(frame.body)} :
    \/ Works(frame, "describe", describe, SendParameterDescription(<<25>>) \o SendNoData)
    \/ Refused(frame, "describe", describe)

HandleClose ==
  \E frame \in Taken("close") :
    Works(frame, "close", ParseClose(frame.body), SendCloseComplete)

HandleSync ==
  \E frame \in Taken("sync"), ready \in Ready : Works(frame, "sync", Nothing, ready)

(* Flush, Password, Terminate and types that are not known: nothing is     *)
(* sent, and after Terminate the loop waits for the client to hang up.     *)
Ignore ==
  \E type \in {"flush", "password", "terminate", "other"} :
    \E frame \in Taken(type) : Works(frame, type, Nothing, <<>>)

(* The connection has ended, between two messages or within one.           *)
HangUp ==
  /\ phase = "serving" /\ broken /\ ReadMessage(wire, 1).next = 0
  /\ Close
-----------------------------------------------------------------------------
Serve ==
  \/ DenySSL \/ Accept \/ Reject \/ HangUp \/ Ignore
  \/ HandleSimpleQuery \/ HandleParse \/ HandleBind \/ HandleExecute
  \/ HandleDescribe \/ HandleClose \/ HandleSync

Next ==
  \/ SendStartup
  \/ \E r \in Requests : Send(r)
  \/ \E k \in 0..Len(wire) : Break(k)
  \/ DenySSL \/ Accept \/ Reject \/ HangUp \/ Ignore
  \/ HandleSimpleQuery \/ HandleParse \/ HandleBind \/ HandleExecute
  \/ HandleDescribe \/ HandleClose \/ HandleSync

Spec == Init /\ [][Next]_vars

(* The goroutine of the connection runs, and a client that is denied SSL   *)
(* goes on.                                                                *)
FairSpec == Spec /\ WF_vars(Serve) /\ WF_vars(SendStartup)
-----------------------------------------------------------------------------
TypeOK ==
  /\ start \in Starts
  /\ wire \in Seq(Byte) /\ out \in Seq(Byte)
  /\ broken \in BOOLEAN /\ started \in BOOLEAN
  /\ phase \in {"probe", "denied", "serving", "closed"}
  /\ sent \in Seq(Requests)
  /\ failed \subseteq DOMAIN got

Rest == FlattenSeq([i \in 1..(Len(sent) - Len(got)) |-> Encode(sent[Len(got) + i])])

(* The server reads what the client wrote: the messages it has handled are *)
(* the first ones that were sent, field by field, NULL and the empty value *)
(* told apart, and the unread bytes are those that follow, up to where the *)
(* connection broke (wire.go:175-303, server.go:217-236).                  *)
ReadsWhatWasSent ==
  /\ IsPrefix(got, [i \in DOMAIN sent |-> [type |-> sent[i].type, msg |-> sent[i].msg]])
  /\ phase = "serving" => IF broken THEN IsPrefix(wire, Rest) ELSE wire = Rest

(* A session has the parameters of its start-up, with SSL denied or never  *)
(* asked for, but for those that the server reports itself                 *)
(* (server.go:166-212).                                                    *)
StartsAsAsked ==
  phase = "serving" /\ start.kind \in {"plain", "ssl"} =>
    parameters = AsMap(start.params \o SetToSeq(StatusParams))

(* What the client reads, behind the byte that denies SSL, as a set of one *)
(* sequence of messages.                                                   *)
ReadBack == {Frames(IF start.kind = "ssl" THEN Tail(out) ELSE out)}
Size(messages) ==
  Len(FlattenSeq([i \in DOMAIN messages |-> messages[i].body])) + 5 * Len(messages)
Positions(messages, type) == {i \in DOMAIN messages : messages[i].type = type}
Types(messages) == [i \in DOMAIN messages |-> messages[i].type]

(* The client never loses the place in the stream: it finds whole messages *)
(* up to the last byte, first those of the start-up.                       *)
(* (writer.go:24-34, server.go:185-215).                                   *)
AnswersInFrames ==
  LET n == Cardinality(StatusParams)
  IN  phase = "serving" =>
        \A messages \in ReadBack :
          /\ Len(out) = Size(messages) + IF start.kind = "ssl" THEN 1 ELSE 0
          /\ SubSeq(Types(messages), 1, n + 3)
               = <<82>> \o [i \in 1..n |-> 83] \o <<75, 90>>

Asks(i) ==
  CASE got[i].type = "query" -> ~Deallocates(got[i].msg.string)
    [] OTHER -> got[i].type = "sync"

(* A client that counts ReadyForQuery knows which messages are answered:   *)
(* it gets one for the start-up, for every query but DEALLOCATE and for    *)
(* every Sync, and an error is followed by one at once, in whichever       *)
(* message it happens (server.go:217-297).                                 *)
ReadyForEach ==
  phase = "serving" =>
    \A messages \in ReadBack :
      /\ Cardinality(Positions(messages, 90)) =
           1 + Cardinality({i \in DOMAIN got : Asks(i) \/ i \in failed})
      /\ \A i \in Positions(messages, 69) : i + 1 \in Positions(messages, 90)

(* A message that was sent is handled, or the connection is closed, and a  *)
(* client that asks for a session gets it unless the connection breaks     *)
(* (server.go:128-236).                                                    *)
EventuallyHandled ==
  /\ \A n \in 1..MaxRequests :
       Len(sent) >= n ~> Len(got) >= n \/ phase = "closed"
  /\ start.kind \in {"plain", "ssl"} ~> phase = "serving" \/ broken
=============================================================================
