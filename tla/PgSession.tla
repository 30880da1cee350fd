----------------------------- MODULE PgSession -----------------------------
(***************************************************************************)
(* The extended query protocol of one PostgreSQL connection: prepared      *)
(* statements, portals, and who sends the RowDescription of a result.      *)
(* Execute sends it unless the portal was bound after a Describe of a      *)
(* statement of that name, which describedPortals remembers.               *)
(*                                                                         *)
(* handleMessage serves one message after the other, so one step is one    *)
(* message and all its answers.  A query is named by its text and texts    *)
(* are sorted by how Describe and Execute treat them; values are left out. *)
(* The messages a step sends are a set: their order is that of the         *)
(* handler, RowDescription, then DataRows, then CommandComplete or         *)
(* ErrorResponse with ReadyForQuery.  Clients may pipeline: they send      *)
(* messages whatever the last answers were.  An operator X_Y is the        *)
(* definition X with a fault of the kind Y seeded into it; no              *)
(* specification uses it.                                                  *)
(***************************************************************************)
EXTENDS FiniteSets

CONSTANTS
  Names,      (* names of prepared statements                              *)
  Portals,    (* names of portals                                          *)
  Selects,    (* texts that start with SELECT, most catalog queries too    *)
  PassedOn,   (* catalog queries of information_schema: left to MySQL      *)
  Constant,   (* SELECT version() and the Prisma start-up query            *)
  Listings,   (* other texts that return rows: SHOW, WITH ...              *)
  Returnings, (* INSERT and UPDATE with RETURNING                          *)
  Writes,     (* writes without RETURNING                                  *)
  NoText,     (* no query                                                  *)
  NoName,     (* no name                                                   *)
  Client,     (* what clients do: a subset of Habits                       *)
  Faults      (* which calls of MySQL may fail: a subset of FaultKinds     *)

Texts == Selects \cup PassedOn \cup Constant \cup Listings \cup Returnings \cup Writes

(* "reuse": Parse a name again.  "skip describe": Bind a statement that    *)
(* was not described.  "late describe": Describe a statement that a portal *)
(* is bound to already.                                                    *)
Habits == {"reuse", "skip describe", "late describe"}
FaultKinds == {"describe select", "describe returning", "execute"}

Messages == {"ParseComplete", "BindComplete", "CloseComplete",
             "ParameterDescription", "RowDescription", "NoData", "DataRow",
             "CommandComplete", "ErrorResponse", "ReadyForQuery"}

ASSUME TextAssumption ==
  /\ NoText \notin Texts
  /\ Selects \cap (PassedOn \cup Constant \cup Listings \cup Returnings \cup Writes) = {}
  /\ PassedOn \cap (Constant \cup Listings \cup Returnings \cup Writes) = {}
  /\ Constant \cap (Listings \cup Returnings \cup Writes) = {}
  /\ Listings \cap (Returnings \cup Writes) = {}
  /\ Returnings \cap Writes = {}

ASSUME ClientAssumption ==
  /\ NoName \notin Names /\ NoName \notin Portals
  /\ Client \subseteq Habits
  /\ Faults \subseteq FaultKinds

VARIABLES
  preparedStatements, (* the text of each prepared statement               *)
  portals,            (* the text a portal runs, and its described flag    *)
  describedPortals,   (* names of statements that were once described      *)
  out,                (* the messages the last step sent                   *)
  executed,           (* the portal the last step executed                 *)
  used,               (* names that were ever parsed                       *)
  bound,              (* the live statement each portal was bound to       *)
  asked,              (* statements that were described since their Parse  *)
  told,               (* those of which the client got a RowDescription    *)
  knows,              (* portals of which it got one, by their statement   *)
  refused             (* portals for whose statement it only got NoData    *)

clientVars == <<used, bound, asked, told, knows, refused>>
vars == <<preparedStatements, portals, describedPortals, out, executed, used,
          bound, asked, told, knows, refused>>

NoPortal == [text |-> NoText, described |-> FALSE]

Init ==
  /\ preparedStatements = [n \in Names |-> NoText]
  /\ portals = [p \in Portals |-> NoPortal]
  /\ describedPortals = {}
  /\ out = {}
  /\ executed = NoName
  /\ used = {}
  /\ bound = [p \in Portals |-> NoName]
  /\ asked = {}
  /\ told = {}
  /\ knows = {} /\ refused = {}

(* A handler that returned nil has sent ms and nothing else.               *)
Send(ms) ==
  /\ out' = ms
  /\ executed' = NoName

(* A handler that returned an error after ms: handleConn sends             *)
(* ErrorResponse and ReadyForQuery and goes on with the next message.      *)
SendError(ms) == out' = ms \cup {"ErrorResponse", "ReadyForQuery"}

Refuse ==
  /\ SendError({})
  /\ executed' = NoName
  /\ UNCHANGED <<preparedStatements, portals, describedPortals>>
  /\ UNCHANGED clientVars
-----------------------------------------------------------------------------
(* The portals that lose their statement when name n gets another or none. *)
Orphan(n) == bound' = [p \in Portals |-> IF bound[p] = n THEN NoName ELSE bound[p]]

(* handleParse replaces the statement; describedPortals stays.             *)
Parse(n, q) ==
  /\ n \in used => "reuse" \in Client
  /\ preparedStatements' = [preparedStatements EXCEPT ![n] = q]
  /\ used' = used \cup {n}
  /\ asked' = asked \ {n}
  /\ told' = told \ {n}
  /\ Orphan(n)
  /\ Send({"ParseComplete"})
  /\ UNCHANGED <<portals, describedPortals, knows, refused>>

(* The described flag of a portal bound to statement n.                    *)
Described_Forgotten(n) == FALSE
Described(n) == n \in describedPortals

Bind(p, n) ==
  /\ n \in asked \/ "skip describe" \in Client
  /\ preparedStatements[n] # NoText
  /\ portals' = [portals EXCEPT ![p] = [text |-> preparedStatements[n],
                                        described |-> Described(n)]]
  /\ bound' = [bound EXCEPT ![p] = n]
  /\ knows' = IF n \in told THEN knows \cup {p} ELSE knows \ {p}
  /\ refused' = IF n \in asked \ told THEN refused \cup {p} ELSE refused \ {p}
  /\ Send({"BindComplete"})
  /\ UNCHANGED <<preparedStatements, describedPortals, used, asked, told>>

(* The portal of that name, if there is one, keeps what it ran before.     *)
BindUnknown(n) == preparedStatements[n] = NoText /\ Refuse

CloseStatement(n) ==
  /\ preparedStatements' = [preparedStatements EXCEPT ![n] = NoText]
  /\ asked' = asked \ {n}
  /\ told' = told \ {n}
  /\ Orphan(n)
  /\ Send({"CloseComplete"})
  /\ UNCHANGED <<portals, describedPortals, used, knows, refused>>

ClosePortal(p) ==
  /\ portals' = [portals EXCEPT ![p] = NoPortal]
  /\ bound' = [bound EXCEPT ![p] = NoName]
  /\ knows' = knows \ {p} /\ refused' = refused \ {p}
  /\ Send({"CloseComplete"})
  /\ UNCHANGED <<preparedStatements, describedPortals, used, asked, told>>
-----------------------------------------------------------------------------
(* Whether Describe of a statement with text q sends RowDescription: for   *)
(* SELECT and RETURNING it asks MySQL, and answers NoData if that fails.   *)
DescribesRows(q) == q \in Selects \cup PassedOn \cup Constant \cup Returnings

DescribeFails(q) ==
  \/ q \in Selects \cup PassedOn /\ "describe select" \in Faults
  \/ q \in Returnings /\ "describe returning" \in Faults

BoundTo(n) == {p \in Portals : bound[p] = n}

MayDescribe(n) ==
  /\ preparedStatements[n] # NoText
  /\ BoundTo(n) = {} \/ "late describe" \in Client

DescribeStatement(n) ==
  /\ MayDescribe(n)
  /\ DescribesRows(preparedStatements[n])
  /\ describedPortals' = describedPortals \cup {n}
  /\ asked' = asked \cup {n}
  /\ told' = told \cup {n}
  /\ knows' = knows \cup BoundTo(n)
  /\ Send({"ParameterDescription", "RowDescription"})
  /\ UNCHANGED <<preparedStatements, portals, used, bound, refused>>

DescribeNoData_MarksDescribed(n) ==
  /\ MayDescribe(n)
  /\ \/ ~DescribesRows(preparedStatements[n])
     \/ DescribeFails(preparedStatements[n])
  /\ asked' = asked \cup {n}
  /\ describedPortals' = describedPortals \cup {n}
  /\ Send({"ParameterDescription", "NoData"})
  /\ UNCHANGED <<preparedStatements, portals, used, bound, told, knows, refused>>

DescribeNoData(n) ==
  /\ MayDescribe(n)
  /\ \/ ~DescribesRows(preparedStatements[n])
     \/ DescribeFails(preparedStatements[n])
  /\ asked' = asked \cup {n}
  /\ Send({"ParameterDescription", "NoData"})
  /\ UNCHANGED <<preparedStatements, portals, describedPortals, used, bound,
                 told, knows, refused>>

DescribeUnknown(n) == preparedStatements[n] = NoText /\ Refuse

(* Describe of a portal does not look at it.                               *)
DescribePortal ==
  /\ Send({"NoData"})
  /\ UNCHANGED <<preparedStatements, portals, describedPortals>>
  /\ UNCHANGED clientVars
-----------------------------------------------------------------------------
Run(p) ==
  /\ executed' = p
  /\ UNCHANGED <<preparedStatements, portals, describedPortals>>
  /\ UNCHANGED clientVars

(* executeMySQLQuery sees the flag only if it is given the portal, which   *)
(* executeCatalogQuery does not do.                                        *)
RowDescription(p) ==
  IF portals[p].described /\ portals[p].text \notin PassedOn THEN {} ELSE {"RowDescription"}

(* executeMySQLQuery, executeParameterizedMySQLQuery, executeCatalogQuery  *)
(* and the queries with a fixed answer; a result may be empty.             *)
ExecuteRows(p) ==
  /\ portals[p].text \in Selects \cup PassedOn \cup Constant \cup Listings
  /\ Run(p)
  /\ \E dataRows \in SUBSET {"DataRow"} :
       /\ portals[p].text \in Constant => dataRows # {}
       /\ out' = RowDescription(p) \cup dataRows \cup {"CommandComplete"}

(* executeWriteReturning sends no RowDescription, and no row when it does  *)
(* not find the one it wrote.                                              *)
ExecuteReturning(p) ==
  /\ portals[p].text \in Returnings
  /\ Run(p)
  /\ \E dataRows \in SUBSET {"DataRow"} : out' = dataRows \cup {"CommandComplete"}

ExecuteWrite(p) ==
  /\ portals[p].text \in Writes
  /\ Run(p)
  /\ out' = {"CommandComplete"}

(* MySQL fails before the first row or after some of them.                 *)
ExecuteFails(p) ==
  /\ "execute" \in Faults
  /\ portals[p].text \in Texts \ Constant
  /\ Run(p)
  /\ \/ SendError({})
     \/ /\ portals[p].text \in Selects \cup PassedOn \cup Listings
        /\ \E dataRows \in SUBSET {"DataRow"} :
             SendError(RowDescription(p) \cup dataRows)

(* A query with parameters whose Query failed is run again with Exec.      *)
ExecuteRetried(p) ==
  /\ "execute" \in Faults
  /\ portals[p].text \in Selects \cup Listings
  /\ Run(p)
  /\ out' = {"CommandComplete"}

ExecuteUnknown_NotChecked(p) ==
  /\ portals[p] = NoPortal
  /\ Run(p)
  /\ out' = {"CommandComplete"}

ExecuteUnknown(p) == portals[p] = NoPortal /\ Refuse

Execute(p) ==
  \/ ExecuteRows(p) \/ ExecuteReturning(p) \/ ExecuteWrite(p)
  \/ ExecuteFails(p) \/ ExecuteRetried(p) \/ ExecuteUnknown(p)

Sync ==
  /\ out' = {"ReadyForQuery"}
  /\ executed' = NoName
  /\ UNCHANGED <<preparedStatements, portals, describedPortals>>
  /\ UNCHANGED clientVars
-----------------------------------------------------------------------------
Next ==
  \/ \E n \in Names :
       \/ \E q \in Texts : Parse(n, q)
       \/ \E p \in Portals : Bind(p, n)
       \/ BindUnknown(n) \/ CloseStatement(n)
       \/ DescribeStatement(n) \/ DescribeNoData(n) \/ DescribeUnknown(n)
  \/ \E p \in Portals : ClosePortal(p) \/ Execute(p)
  \/ DescribePortal \/ Sync

Spec == Init /\ [][Next]_vars
-----------------------------------------------------------------------------
TypeOK ==
  /\ preparedStatements \in [Names -> Texts \cup {NoText}]
  /\ portals \in [Portals -> [text : Texts \cup {NoText}, described : BOOLEAN]]
  /\ describedPortals \subseteq Names
  /\ out \subseteq Messages
  /\ executed \in {p \in Portals : portals[p] # NoPortal} \cup {NoName}
  /\ used \subseteq Names
  /\ bound \in [Portals -> Names \cup {NoName}]
  /\ asked \subseteq Names /\ told \subseteq asked
  /\ knows \subseteq Portals /\ refused \subseteq Portals

(* Rows reach a client after their columns: Execute leaves RowDescription  *)
(* out only if a Describe of the statement that the portal runs has sent   *)
(* it.  The exception is a RETURNING whose Describe failed: its rows come  *)
(* without one (docs/LOGS.md:115-117, server.go:312-434, 1528-1620).       *)
AnnouncedBeforeRows ==
  "DataRow" \in out =>
    \/ executed \in knows \/ "RowDescription" \in out
    \/ portals[executed].text \in Returnings /\ executed \in refused

(* Describe and Execute do not both send RowDescription for a portal,      *)
(* unless it runs a catalog query that the catalog leaves to MySQL, for    *)
(* which both do (docs/LOGS.md:115-117, server.go:322-328, 1121-1123,      *)
(* 1255-1265).                                                             *)
NotAnnouncedTwice ==
  executed \in knows /\ portals[executed].text \notin PassedOn =>
    "RowDescription" \notin out
=============================================================================
