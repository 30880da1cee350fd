------------------------------ MODULE Catalog ------------------------------
(***************************************************************************)
(* The pg_catalog queries that read MySQL while they read MySQL: the       *)
(* handlers of pg_class, pg_attribute and pg_index keep the connection of  *)
(* their first result open and ask the pool for another one to run a       *)
(* nested query, without a timeout.  The OID of a table is its position in *)
(* the list of tables, made anew by every handler, so OIDs that a client   *)
(* keeps may name other tables after a DDL statement.                      *)
(*                                                                         *)
(* One step ends where a handler has to wait: for a connection or for      *)
(* MySQL.  Tables are numbered in the order of their names; an OID is the  *)
(* position itself, without the offset 16384.  An operator X_Y is the      *)
(* definition X with a fault of the kind Y seeded into it; no              *)
(* specification uses it.                                                  *)
(***************************************************************************)
EXTENDS Naturals, Sequences, FiniteSets

CONSTANTS
  Nesting,      (* sessions that send catalog queries, and others          *)
  Plain,        (* sessions whose queries need one connection              *)
  MaxOpenConns, (* SetMaxOpenConns                                         *)
  Tables,       (* the names of tables, as numbers in their order          *)
  InitTables,   (* the tables that exist in the beginning                  *)
  MaxDdl,       (* bound: how many DDL statements other clients run        *)
  Failing       (* TRUE when MySQL may refuse a query                      *)

Sessions == Nesting \cup Plain
Queries == {"pg_class", "pg_attribute", "pg_index", "plain"}
NoTable == 0

ASSUME SessionAssumption ==
  /\ IsFiniteSet(Nesting) /\ IsFiniteSet(Plain)
  /\ MaxOpenConns \in Nat \ {0}

ASSUME TableAssumption ==
  /\ IsFiniteSet(Tables) /\ Tables \subseteq Nat \ {NoTable}
  /\ InitTables \subseteq Tables
  /\ MaxDdl \in Nat /\ Failing \in BOOLEAN

VARIABLES
  tables, (* the base tables of the database                               *)
  ddl,    (* how many DDL statements have run                              *)
  pc,     (* "ready", "open", "scan", "nested" or "read"                   *)
  query,  (* the query in progress                                         *)
  oid,    (* the OID a pg_attribute query asks for                         *)
  list,   (* the tables its first MySQL query has returned                 *)
  left,   (* how many nested queries it has yet to run                     *)
  known,  (* the tables of the last pg_class answer, by OID                *)
  answer  (* the table whose columns pg_attribute last returned            *)

vars == <<tables, ddl, pc, query, oid, list, left, known, answer>>

Init ==
  /\ tables = InitTables
  /\ ddl = 0
  /\ pc = [s \in Sessions |-> "ready"]
  /\ query = [s \in Sessions |-> "plain"]
  /\ oid = [s \in Sessions |-> 0]
  /\ list = [s \in Sessions |-> <<>>]
  /\ left = [s \in Sessions |-> 0]
  /\ known = [s \in Sessions |-> <<>>]
  /\ answer = [s \in Sessions |-> NoTable]

(* A handler holds the connection of its first result from "scan" on, and  *)
(* one more while its nested query runs.  One that is in "open" or in      *)
(* "nested" waits in the pool's queue.                                     *)
Holding == {s \in Sessions : pc[s] \in {"scan", "nested", "read"}}
Reading == {s \in Sessions : pc[s] = "read"}
InUse == Cardinality(Holding) + Cardinality(Reading)

Available == InUse < MaxOpenConns

(* ORDER BY table_name.                                                    *)
ByName(ts) ==
  CHOOSE f \in [1..Cardinality(ts) -> ts] :
    \A i, j \in 1..Cardinality(ts) : i < j => f[i] < f[j]

TableAt_ZeroBased(ts, i) == IF i + 1 \in DOMAIN ts THEN ts[i + 1] ELSE NoTable
TableAt(ts, i) == IF i \in DOMAIN ts THEN ts[i] ELSE NoTable

NestedQueries_AlwaysOne(q, ts, i) == 1

(* The nested queries of a handler whose first query returned ts: two for  *)
(* each table, one for the table it looks for, or one.                     *)
NestedQueries(q, ts, i) ==
  CASE q = "pg_class" -> 2 * Len(ts)
    [] q = "pg_attribute" -> IF TableAt(ts, i) = NoTable THEN 0 ELSE 1
    [] q = "pg_index" -> 1
    [] q = "plain" -> 0
-----------------------------------------------------------------------------
(* A client asks for the columns of a table it knows by its OID.           *)
Ask(s, q, i) ==
  /\ pc[s] = "ready"
  /\ q = "plain" \/ s \in Nesting
  /\ IF q = "pg_attribute" THEN i \in DOMAIN known[s] ELSE i = 0
  /\ pc' = [pc EXCEPT ![s] = "open"]
  /\ query' = [query EXCEPT ![s] = q]
  /\ oid' = [oid EXCEPT ![s] = i]
  /\ answer' = [answer EXCEPT ![s] = NoTable]
  /\ UNCHANGED <<tables, ddl, list, left, known>>

Open(s) ==
  /\ pc[s] = "open"
  /\ Available
  /\ pc' = [pc EXCEPT ![s] = "scan"]
  /\ list' = [list EXCEPT ![s] = ByName(tables)]
  /\ left' = [left EXCEPT ![s] = NestedQueries(query[s], ByName(tables), oid[s])]
  /\ UNCHANGED <<tables, ddl, query, oid, known, answer>>

(* The handler returns, and its variables are gone.                        *)
Return(s) ==
  /\ pc' = [pc EXCEPT ![s] = "ready"]
  /\ query' = [query EXCEPT ![s] = "plain"]
  /\ list' = [list EXCEPT ![s] = <<>>]
  /\ left' = [left EXCEPT ![s] = 0]

OpenFails(s) ==
  /\ Failing
  /\ pc[s] = "open"
  /\ Available
  /\ Return(s)
  /\ UNCHANGED <<tables, ddl, oid, known, answer>>

Nest_PastTheEnd(s) ==
  /\ pc[s] = "scan"
  /\ pc' = [pc EXCEPT ![s] = "nested"]
  /\ UNCHANGED <<tables, ddl, query, oid, list, left, known, answer>>

(* The first result stays open while the handler asks for a connection.    *)
Nest(s) ==
  /\ pc[s] = "scan"
  /\ left[s] > 0
  /\ pc' = [pc EXCEPT ![s] = "nested"]
  /\ UNCHANGED <<tables, ddl, query, oid, list, left, known, answer>>

OpenNested(s) ==
  /\ pc[s] = "nested"
  /\ Available
  /\ pc' = [pc EXCEPT ![s] = "read"]
  /\ answer' = [answer EXCEPT ![s] =
       IF query[s] = "pg_attribute" /\ TableAt(list[s], oid[s]) \in tables
       THEN TableAt(list[s], oid[s]) ELSE @]
  /\ UNCHANGED <<tables, ddl, query, oid, list, left, known>>

(* pg_attribute returns the error; the others go on without the result.    *)
NestedFails(s) ==
  /\ Failing
  /\ pc[s] = "nested"
  /\ Available
  /\ IF query[s] = "pg_attribute"
     THEN Return(s)
     ELSE /\ pc' = [pc EXCEPT ![s] = "scan"]
          /\ left' = [left EXCEPT ![s] = @ - 1]
          /\ UNCHANGED <<query, list>>
  /\ UNCHANGED <<tables, ddl, oid, known, answer>>

CloseNested(s) ==
  /\ pc[s] = "read"
  /\ pc' = [pc EXCEPT ![s] = "scan"]
  /\ left' = [left EXCEPT ![s] = @ - 1]
  /\ UNCHANGED <<tables, ddl, query, oid, list, known, answer>>

Finish_Rescans(s) ==
  /\ pc[s] = "scan"
  /\ left[s] = 0
  /\ left' = [left EXCEPT ![s] = NestedQueries(query[s], list[s], oid[s])]
  /\ UNCHANGED <<tables, ddl, pc, query, oid, list, known, answer>>

(* The first result is exhausted or closed, and the client is answered.    *)
Finish(s) ==
  /\ pc[s] = "scan"
  /\ left[s] = 0
  /\ Return(s)
  /\ known' = [known EXCEPT ![s] = IF query[s] = "pg_class" THEN list[s] ELSE @]
  /\ UNCHANGED <<tables, ddl, oid, answer>>

(* CREATE TABLE or DROP TABLE of any other client of the database.         *)
Ddl(t) ==
  /\ ddl < MaxDdl
  /\ ddl' = ddl + 1
  /\ tables' = IF t \in tables THEN tables \ {t} ELSE tables \cup {t}
  /\ UNCHANGED <<pc, query, oid, list, left, known, answer>>
-----------------------------------------------------------------------------
Progress(s) ==
  OpenFails(s) \/ Open(s) \/ Nest(s) \/ OpenNested(s) \/ NestedFails(s)
  \/ CloseNested(s) \/ Finish(s)

Next ==
  \/ \E s \in Sessions :
       \/ \E q \in Queries, i \in 0..Cardinality(Tables) : Ask(s, q, i)
       \/ Open(s) \/ OpenFails(s) \/ Nest(s) \/ OpenNested(s) \/ NestedFails(s)
       \/ CloseNested(s) \/ Finish(s)
  \/ \E t \in Tables : Ddl(t)

Spec == Init /\ [][Next]_vars

(* The pool serves its queue first come first served, so a connection that *)
(* becomes available again and again reaches every waiting handler; the    *)
(* queries of MySQL return, and clients read their answers.                *)
FairSpec == Spec /\ \A s \in Sessions : SF_vars(Progress(s))
-----------------------------------------------------------------------------
TypeOK ==
  /\ tables \subseteq Tables
  /\ ddl \in 0..MaxDdl
  /\ pc \in [Sessions -> {"ready", "open", "scan", "nested", "read"}]
  /\ query \in [Sessions -> Queries]
  /\ oid \in [Sessions -> Nat]
  /\ list \in [Sessions -> Seq(Tables)]
  /\ left \in [Sessions -> Nat]
  /\ known \in [Sessions -> Seq(Tables)]
  /\ answer \in [Sessions -> Tables \cup {NoTable}]

(* The connections of the pool are never all held by handlers that wait    *)
(* for another one (docs/PRODUCT.md:133, catalog.go:238-487).              *)
NotAllWaiting ==
  ~Available => \E s \in Sessions : pc[s] \in {"scan", "read"}

(* Until a table is created or dropped, pg_attribute returns the columns   *)
(* of the table that had the OID in the client's last pg_class answer, or  *)
(* none, although each handler numbers the tables anew (catalog.go:247-262 *)
(* and 309-336: "reverse of handlePGClass").                               *)
AttributesOfThatTable ==
  ddl = 0 =>
    \A s \in Sessions : answer[s] # NoTable => answer[s] = known[s][oid[s]]

(* Every query is answered although handlers hold a connection while they  *)
(* queue for another (catalog.go:238-487).                                 *)
EventuallyAnswered == \A s \in Sessions : pc[s] = "open" ~> pc[s] = "ready"
=============================================================================
