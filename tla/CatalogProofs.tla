--------------------------- MODULE CatalogProofs ---------------------------
(***************************************************************************)
(* Proofs about Catalog, for every number of sessions and connections:     *)
(* when MaxOpenConns is larger than the number of sessions that nest their *)
(* queries, the pool never comes to a standstill in which all its          *)
(* connections are held by handlers that wait.  And about the numbers of   *)
(* tables: without DDL statements everyone means the same ones, and there  *)
(* is an order to number any set of tables by.                             *)
(***************************************************************************)
EXTENDS Catalog, StreamLemmas, FiniteSetTheorems

(* What the sessions' bookkeeping needs to be for these proofs: which      *)
(* values pc has, and that only sessions in Nesting have nested queries to *)
(* run.                                                                    *)
States == {"ready", "open", "scan", "nested", "read"}

OnlyNestingNests ==
  \A s \in Sessions \ Nesting :
    /\ query[s] = "plain"
    /\ pc[s] = "scan" => left[s] = 0
    /\ pc[s] \notin {"nested", "read"}

Discipline ==
  /\ pc \in [Sessions -> States]
  /\ query \in [Sessions -> Queries]
  /\ left = [s \in Sessions |-> left[s]]
  /\ OnlyNestingNests

(* The steps of session s, without the quantifiers of Next.                *)
SessionStep(s) ==
  \/ \E q \in Queries, i \in 0..Cardinality(Tables) : Ask(s, q, i)
  \/ Open(s) \/ OpenFails(s) \/ Nest(s) \/ OpenNested(s) \/ NestedFails(s)
  \/ CloseNested(s) \/ Finish(s)

(* Every step is one of a session, or leaves the sessions alone.           *)
LEMMA StepKinds ==
  ASSUME [Next]_vars
  PROVE (\E s \in Sessions : SessionStep(s)) \/ UNCHANGED <<pc, query, left>>
  BY DEF Next, SessionStep, Ddl, vars

(* A session moves alone, and along the states of a handler.               *)
LEMMA Moves ==
  ASSUME NEW s \in Sessions, Discipline, SessionStep(s)
  PROVE /\ pc' \in [Sessions -> States]
        /\ \A r \in Sessions \ {s} : pc'[r] = pc[r]
        /\ \/ pc[s] = "ready" /\ pc'[s] = "open"
           \/ pc[s] = "open" /\ pc'[s] = "ready"
           \/ pc[s] = "open" /\ pc'[s] = "scan" /\ Available
           \/ pc[s] = "scan" /\ pc'[s] = "nested"
           \/ pc[s] = "nested" /\ pc'[s] = "read" /\ Available
           \/ pc[s] = "nested" /\ pc'[s] \in {"ready", "scan"}
           \/ pc[s] = "read" /\ pc'[s] = "scan"
           \/ pc[s] = "scan" /\ pc'[s] = "ready"
  BY DEF SessionStep, Ask, Open, OpenFails, Nest, OpenNested, NestedFails,
         CloseNested, Finish, Return, Discipline, States

(* Every step keeps the bookkeeping: one case for the session that moves,  *)
(* one for the steps that leave the sessions alone.                        *)
LEMMA DisciplineStep ==
  ASSUME Discipline, [Next]_vars
  PROVE Discipline'
<1>1. ASSUME NEW s \in Sessions, SessionStep(s) PROVE Discipline'
  <2>1. pc' \in [Sessions -> States]
    BY <1>1, Moves
  <2>2. /\ query' \in [Sessions -> Queries]
        /\ left' = [r \in Sessions |-> left'[r]]
        /\ \A r \in Sessions \ {s} : query'[r] = query[r] /\ left'[r] = left[r]
    BY <1>1 DEF SessionStep, Ask, Open, OpenFails, Nest, OpenNested, NestedFails,
                CloseNested, Finish, Return, Discipline, Queries
  <2>3. ASSUME s \notin Nesting
        PROVE /\ query'[s] = "plain"
              /\ pc'[s] = "scan" => left'[s] = 0
              /\ pc'[s] \notin {"nested", "read"}
    <3>1. /\ query[s] = "plain" /\ pc[s] \notin {"nested", "read"}
          /\ pc[s] = "scan" => left[s] = 0
      BY <2>3 DEF Discipline, OnlyNestingNests
    <3>2. CASE \E q \in Queries, i \in 0..Cardinality(Tables) : Ask(s, q, i)
      BY <3>2, <2>3, <2>1 DEF Ask, Discipline, States
    <3>3. CASE Open(s)
      <4>1. NestedQueries("plain", ByName(tables), oid[s]) = 0
        BY DEF NestedQueries
      <4>2. left'[s] = 0
        BY <3>1, <3>3, <4>1 DEF Open, Discipline
      <4> QED BY <3>1, <3>3, <4>2 DEF Open, Discipline
    <3>4. CASE OpenFails(s) \/ Finish(s)
      BY <3>1, <3>4 DEF OpenFails, Finish, Return, Discipline
    <3>5. ~Nest(s) /\ ~OpenNested(s) /\ ~NestedFails(s) /\ ~CloseNested(s)
      BY <3>1 DEF Nest, OpenNested, NestedFails, CloseNested
    <3> QED BY <1>1, <3>2, <3>3, <3>4, <3>5 DEF SessionStep
  <2>4. OnlyNestingNests'
    BY <1>1, <2>2, <2>3, Moves DEF OnlyNestingNests, Discipline
  <2> QED BY <2>1, <2>2, <2>4 DEF Discipline
<1>2. CASE UNCHANGED <<pc, query, left>>
  BY <1>2 DEF Discipline, OnlyNestingNests
<1> QED BY <1>1, <1>2, StepKinds

(* No handler runs in the beginning.                                       *)
LEMMA InitDiscipline ==
  ASSUME Init
  PROVE Discipline
  BY DEF Init, Discipline, OnlyNestingNests, States, Queries
-----------------------------------------------------------------------------
(* The counts of connections are natural numbers.                          *)
LEMMA Counts ==
  /\ IsFiniteSet(Sessions) /\ IsFiniteSet(Holding) /\ IsFiniteSet(Reading)
  /\ Cardinality(Holding) \in Nat /\ Cardinality(Reading) \in Nat
<1>1. IsFiniteSet(Sessions)
  BY SessionAssumption, FS_Union DEF Sessions
<1>2. IsFiniteSet(Holding) /\ IsFiniteSet(Reading)
  BY <1>1, FS_Subset DEF Holding, Reading
<1> QED BY <1>1, <1>2, FS_CardinalityType

-----------------------------------------------------------------------------
(* More connections than sessions that nest their queries.                 *)
EnoughConnections == Cardinality(Nesting) < MaxOpenConns

(* Without a handler that reads, only nesting sessions hold connections,   *)
(* one each: fewer than there are.                                         *)
LEMMA SomeoneMoves ==
  ASSUME EnoughConnections, Discipline
  PROVE NotAllWaiting
<1> SUFFICES ASSUME ~\E s \in Sessions : pc[s] \in {"scan", "read"}
             PROVE Available
  BY DEF NotAllWaiting
<1>1. Reading = {}
  BY DEF Reading
<1>2. Holding \subseteq Nesting
  BY DEF Holding, Discipline, OnlyNestingNests
<1>3. Cardinality(Holding) <= Cardinality(Nesting)
  BY <1>2, SessionAssumption, FS_Subset
<1>4. Cardinality(Reading) = 0
  BY <1>1, FS_EmptySet
<1>5. Cardinality(Nesting) \in Nat
  BY SessionAssumption, FS_CardinalityType
<1> QED BY <1>3, <1>4, <1>5, Counts, SessionAssumption DEF EnoughConnections, Available, InUse

(* With more connections than sessions that nest, whatever other sessions  *)
(* ask for, the connections are never all held by handlers that wait for   *)
(* one: the pool cannot deadlock (docs/PRODUCT.md:133, catalog.go:238-487).*)
THEOREM NoStandstill ==
  ASSUME EnoughConnections
  PROVE Spec => []NotAllWaiting
<1>1. Init => Discipline BY InitDiscipline
<1>2. Discipline /\ [Next]_vars => Discipline' BY DisciplineStep
<1>3. Discipline => NotAllWaiting BY SomeoneMoves
<1> QED BY <1>1, <1>2, <1>3, PTL DEF Spec
-----------------------------------------------------------------------------
(* The numbers of the tables as long as there was no DDL statement.        *)
Numbers == ByName(InitTables)

(* Whoever knows or uses numbers has these.                                *)
NumberInv ==
  /\ oid = [s \in Sessions |-> oid[s]] /\ list = [s \in Sessions |-> list[s]]
  /\ known = [s \in Sessions |-> known[s]] /\ answer = [s \in Sessions |-> answer[s]]
  /\ ddl \in Nat
  /\ ddl = 0 =>
       /\ tables = InitTables
       /\ \A s \in Sessions :
            /\ known[s] \in {<<>>, Numbers}
            /\ pc[s] \in {"scan", "nested", "read"} => list[s] = Numbers
            /\ pc[s] # "ready" /\ query[s] = "pg_attribute" => known[s] = Numbers
            /\ answer[s] # NoTable => known[s] = Numbers /\ answer[s] = Numbers[oid[s]]

LEMMA NumberStep ==
  ASSUME Discipline, NumberInv, [Next]_vars
  PROVE  NumberInv'
<1> DEFINE Alone(s) == \A r \in Sessions \ {s} :
             /\ pc'[r] = pc[r] /\ query'[r] = query[r] /\ oid'[r] = oid[r]
             /\ list'[r] = list[r] /\ known'[r] = known[r] /\ answer'[r] = answer[r]
           Shape == /\ oid' = [s \in Sessions |-> oid'[s]]
                    /\ list' = [s \in Sessions |-> list'[s]]
                    /\ known' = [s \in Sessions |-> known'[s]]
                    /\ answer' = [s \in Sessions |-> answer'[s]]
<1>1. ASSUME NEW s \in Sessions, SessionStep(s)
      PROVE  NumberInv'
  <2>1. Alone(s) /\ Shape /\ UNCHANGED <<tables, ddl>>
    BY <1>1 DEF SessionStep, Ask, Open, OpenFails, Nest, OpenNested, NestedFails,
                CloseNested, Finish, Return, Discipline, NumberInv
  <2>2. ASSUME ddl = 0
        PROVE  /\ known'[s] \in {<<>>, Numbers}
               /\ pc'[s] \in {"scan", "nested", "read"} => list'[s] = Numbers
               /\ pc'[s] # "ready" /\ query'[s] = "pg_attribute" => known'[s] = Numbers
               /\ answer'[s] # NoTable =>
                    known'[s] = Numbers /\ answer'[s] = Numbers[oid'[s]]
    <3>0. /\ tables = InitTables /\ known[s] \in {<<>>, Numbers}
          /\ pc[s] \in {"scan", "nested", "read"} => list[s] = Numbers
          /\ pc[s] # "ready" /\ query[s] = "pg_attribute" => known[s] = Numbers
          /\ answer[s] # NoTable => known[s] = Numbers /\ answer[s] = Numbers[oid[s]]
      BY <2>2 DEF NumberInv
    <3>1. ASSUME NEW q \in Queries, NEW i \in 0..Cardinality(Tables), Ask(s, q, i)
          PROVE  /\ answer'[s] = NoTable /\ pc'[s] = "open" /\ query'[s] = q
                 /\ known'[s] = known[s]
                 /\ q = "pg_attribute" => known[s] = Numbers
      <4>1. /\ answer'[s] = NoTable /\ pc'[s] = "open" /\ query'[s] = q
            /\ known'[s] = known[s]
        BY <3>1 DEF Ask, Discipline, NumberInv
      <4>2. q = "pg_attribute" => known[s] # <<>>
        BY <3>1 DEF Ask
      <4> QED
        BY <3>0, <4>1, <4>2
    <3>2. CASE Open(s)
      BY <3>0, <3>2 DEF Open, Discipline, NumberInv, Numbers
    <3>3. CASE OpenFails(s) \/ Finish(s)
      BY <3>0, <3>3 DEF OpenFails, Finish, Return, Discipline, NumberInv
    <3>4. CASE Nest(s) \/ CloseNested(s)
      BY <3>0, <3>4 DEF Nest, CloseNested, Discipline, NumberInv
    <3>5. CASE OpenNested(s)
      <4>1. /\ pc[s] = "nested" /\ pc'[s] = "read" /\ list'[s] = list[s]
            /\ known'[s] = known[s] /\ oid'[s] = oid[s] /\ query'[s] = query[s]
            /\ \/ answer'[s] = answer[s]
               \/ query[s] = "pg_attribute" /\ answer'[s] = TableAt(list[s], oid[s])
        BY <3>5 DEF OpenNested, Discipline, NumberInv
      <4>2. TableAt(Numbers, oid[s]) # NoTable => TableAt(Numbers, oid[s]) = Numbers[oid[s]]
        BY DEF TableAt
      <4> QED
        BY <3>0, <4>1, <4>2
    <3>6. CASE NestedFails(s)
      BY <3>0, <3>6 DEF NestedFails, Return, Discipline, NumberInv
    <3> QED
      BY <1>1, <3>0, <3>1, <3>2, <3>3, <3>4, <3>5, <3>6 DEF SessionStep
  <2> QED
    BY <2>1, <2>2 DEF NumberInv
<1>2. ASSUME NEW t \in Tables, Ddl(t)
      PROVE  NumberInv'
  <2>1. ddl' = ddl + 1 /\ ddl' \in Nat /\ ddl' # 0
    BY <1>2 DEF Ddl, NumberInv
  <2> QED
    BY <1>2, <2>1 DEF Ddl, NumberInv
<1>3. CASE UNCHANGED vars
  BY <1>3 DEF vars, NumberInv
<1> QED
  BY <1>1, <1>2, <1>3 DEF Next, SessionStep

(* Without DDL statements an OID means to pg_attribute the table that it   *)
(* meant in the client's last pg_class answer, whatever numbering the      *)
(* sorting gives (catalog.go:247-262 and 309-336).                         *)
THEOREM SameNumbers == Spec => []AttributesOfThatTable
<1>1. Init => Discipline /\ NumberInv
  BY InitDiscipline DEF Init, NumberInv
<1>2. Discipline /\ NumberInv /\ [Next]_vars => Discipline' /\ NumberInv'
  BY DisciplineStep, NumberStep
<1>3. NumberInv => AttributesOfThatTable
  BY DEF NumberInv, AttributesOfThatTable
<1> QED BY <1>1, <1>2, <1>3, PTL DEF Spec
-----------------------------------------------------------------------------
(* f has the numbers of S in ascending order.                              *)
Ascends(f, S, n) ==
  /\ f \in [1..n -> S]
  /\ \A i, j \in 1..n : i < j => f[i] < f[j]

LEMMA AscendsFirst ==
  ASSUME NEW S, S \subseteq Nat, NEW n \in Nat, NEW k \in S, NEW f,
         \A m \in 0..(k - 1) : m \notin S, Ascends(f, S \ {k}, n)
  PROVE  \E g : Ascends(g, S, n + 1)
<1>1. f \in [1..n -> S \ {k}] /\ \A i, j \in 1..n : i < j => f[i] < f[j]
  BY Zenon DEF Ascends
<1>2. \A m \in S \ {k} : k < m
  BY DEF Ascends
<1>3. PICK g : g = [i \in 1..(n + 1) |-> IF i = 1 THEN k ELSE f[i - 1]]
  OBVIOUS
<1>4. \A i \in 1..(n + 1) : g[i] \in S /\ g[i] = IF i = 1 THEN k ELSE f[i - 1]
  BY <1>1, <1>3
<1>5. ASSUME NEW i \in 1..(n + 1), NEW j \in 1..(n + 1), i < j PROVE g[i] < g[j]
  <2>1. j - 1 \in 1..n /\ g[j] = f[j - 1]
    BY <1>4, <1>5
  <2>2. CASE i = 1
    <3>1. g[i] = k
      BY <1>4, <2>2
    <3>2. f[j - 1] \in S \ {k}
      BY <1>1, <2>1
    <3>3. k < f[j - 1]
      BY <1>2, <3>2, Zenon
    <3> QED
      BY <2>1, <3>1, <3>3, Zenon
  <2>3. CASE i # 1
    <3>1. i - 1 \in 1..n /\ i - 1 < j - 1 /\ g[i] = f[i - 1]
      BY <1>4, <1>5, <2>3
    <3> QED
      BY <1>1, <2>1, <3>1
  <2> QED
    BY <2>2, <2>3
<1>6. g \in [1..(n + 1) -> S]
  BY <1>3, <1>4
<1>7. Ascends(g, S, n + 1)
  BY <1>5, <1>6, Zenon DEF Ascends
<1> QED
  BY <1>7

(* Every finite set of numbers can be put in order.                        *)
LEMMA Ordered ==
  ASSUME NEW S, S \subseteq Nat, IsFiniteSet(S)
  PROVE  \E f : Ascends(f, S, Cardinality(S))
<1> DEFINE All(n) == \A T : T \subseteq Nat /\ IsFiniteSet(T) /\ Cardinality(T) = n
                              => \E f : Ascends(f, T, n)
           Good == {n \in Nat : All(n)}
<1>1. 0 \in Good
  <2> SUFFICES ASSUME NEW T PROVE \E f : Ascends(f, T, 0)
    BY Zenon
  <2>1. [i \in 1..0 |-> i] \in [1..0 -> T]
    OBVIOUS
  <2>2. \A i, j \in 1..0 : FALSE
    OBVIOUS
  <2> QED
    BY <2>1, <2>2, Zenon DEF Ascends
<1>2. ASSUME NEW n \in Nat, n \in Good PROVE n + 1 \in Good
  <2> SUFFICES ASSUME NEW T, T \subseteq Nat, IsFiniteSet(T), Cardinality(T) = n + 1
               PROVE  \E f : Ascends(f, T, n + 1)
    OBVIOUS
  <2>1. T # {}
    BY FS_EmptySet
  <2>2. PICK k \in T : \A m \in 0..(k - 1) : m \notin T
    BY <2>1, Least
  <2>3. IsFiniteSet(T \ {k}) /\ Cardinality(T \ {k}) = n
    <3>1. k \in T
      BY <2>2
    <3>2. IsFiniteSet(T \ {k}) /\ Cardinality(T \ {k}) = Cardinality(T) - 1
      BY <3>1, FS_RemoveElement, Zenon
    <3>3. Cardinality(T \ {k}) = (n + 1) - 1 /\ (n + 1) - 1 = n
      BY <3>2
    <3> QED
      BY <3>2, <3>3
  <2>4. T \ {k} \subseteq Nat
    OBVIOUS
  <2>5. PICK f : Ascends(f, T \ {k}, n)
    BY <1>2, <2>3, <2>4, Zenon
  <2> QED
    BY <2>2, <2>5, AscendsFirst
<1>3. Cardinality(S) \in Nat
  BY FS_CardinalityType
<1>4. Cardinality(S) \in Good
  <2> HIDE DEF Good
  <2>1. \A n \in 0..(Cardinality(S) - 1) : n \in Good => n + 1 \in Good
    BY <1>2
  <2>2. \A n \in 0..Cardinality(S) : n \in Good
    BY <1>1, <1>3, <2>1, UpTo
  <2> QED
    BY <1>3, <2>2
<1> QED
  BY <1>4, Zenon

(* The list of tables has each of them once, in the order of their names.  *)
LEMMA ByNameOrders ==
  ASSUME NEW ts, ts \subseteq Tables
  PROVE  /\ Ascends(ByName(ts), ts, Cardinality(ts)) /\ ByName(ts) \in Seq(Tables)
         /\ Len(ByName(ts)) \in Nat
<1>1. IsFiniteSet(ts) /\ ts \subseteq Nat
  BY TableAssumption, FS_Subset
<1>2. PICK n \in Nat : n = Cardinality(ts)
  BY <1>1, FS_CardinalityType
<1>3. PICK f : Ascends(f, ts, n)
  BY <1>1, <1>2, Ordered
<1>4. Ascends(ByName(ts), ts, n)
  BY <1>2, <1>3, Zenon DEF ByName, Ascends
<1>5. PICK b : b = ByName(ts)
  OBVIOUS
<1>6. b \in [1..n -> ts]
  BY <1>4, <1>5, Zenon DEF Ascends
<1>7. b \in Seq(Tables) /\ Len(b) \in Nat
  BY <1>6
<1> QED
  BY <1>2, <1>4, <1>5, <1>7, Zenon

(* A nested query is one of those that are left.                           *)
Types ==
  /\ TypeOK
  /\ \A s \in Sessions : pc[s] \in {"nested", "read"} => left[s] > 0

LEMMA TableIs ==
  ASSUME NEW ts \in Seq(Tables), NEW i
  PROVE  TableAt(ts, i) \in Tables \cup {NoTable}
  BY DEF TableAt

LEMMA NestedIs ==
  ASSUME NEW q \in Queries, NEW ts \in Seq(Tables), NEW i
  PROVE  NestedQueries(q, ts, i) \in Nat
<1>1. PICK n \in Nat : n = Len(ts)
  BY LenProperties
<1>2. 2 * n \in Nat /\ 0 \in Nat /\ 1 \in Nat
  OBVIOUS
<1> QED
  BY <1>1, <1>2, Zenon DEF NestedQueries, Queries

LEMMA Returned ==
  ASSUME Types, NEW s \in Sessions, Return(s)
  PROVE  /\ pc' \in [Sessions -> States] /\ query' \in [Sessions -> Queries]
         /\ list' \in [Sessions -> Seq(Tables)] /\ left' \in [Sessions -> Nat]
         /\ \A r \in Sessions : pc'[r] \in {"nested", "read"} => left'[r] > 0
<1>1. "plain" \in Queries /\ <<>> \in Seq(Tables) /\ "ready" \in States
  BY EmptySeq DEF Queries, States
<1>2. pc' \in [Sessions -> States] /\ query' \in [Sessions -> Queries]
  BY <1>1 DEF Return, Types, TypeOK, States
<1>3. list' \in [Sessions -> Seq(Tables)] /\ left' \in [Sessions -> Nat]
  BY <1>1 DEF Return, Types, TypeOK
<1>4. \A r \in Sessions : pc'[r] \in {"nested", "read"} => left'[r] > 0
  BY DEF Return, Types, TypeOK
<1> QED
  BY <1>2, <1>3, <1>4

LEMMA TypesStep ==
  ASSUME Types, [Next]_vars
  PROVE  Types'
<1> USE DEF Types, TypeOK, States
<1>1. ASSUME NEW s \in Sessions, SessionStep(s) PROVE Types'
  <2>1. ASSUME NEW q \in Queries, NEW i \in 0..Cardinality(Tables), Ask(s, q, i) PROVE Types'
    <3>1. Cardinality(Tables) \in Nat
      BY TableAssumption, FS_CardinalityType
    <3>2. i \in Nat
      BY <3>1
    <3> QED
      BY <2>1, <3>2 DEF Ask
  <2>2. CASE Open(s)
    <3>1. PICK ts \in Seq(Tables) : ts = ByName(tables)
      BY ByNameOrders
    <3>2. PICK n \in Nat : n = NestedQueries(query[s], ts, oid[s])
      BY NestedIs
    <3>3. /\ pc' = [pc EXCEPT ![s] = "scan"] /\ list' = [list EXCEPT ![s] = ts]
          /\ left' = [left EXCEPT ![s] = n]
          /\ UNCHANGED <<tables, ddl, query, oid, known, answer>>
      BY <2>2, <3>1, <3>2, Zenon DEF Open
    <3> QED
      BY <3>3
  <2>3. CASE OpenFails(s)
    BY <2>3, Returned DEF OpenFails
  <2>8. CASE Finish(s)
    <3>1. known' \in [Sessions -> Seq(Tables)]
      BY <2>8 DEF Finish
    <3>2. Return(s) /\ UNCHANGED <<tables, ddl, oid, answer>>
      BY <2>8, Zenon DEF Finish
    <3> QED
      BY <3>1, <3>2, Returned
  <2>4. CASE Nest(s)
    BY <2>4 DEF Nest
  <2>5. CASE OpenNested(s)
    <3>1. TableAt(list[s], oid[s]) \in Tables \cup {NoTable}
      BY TableIs
    <3> QED
      BY <2>5, <3>1 DEF OpenNested
  <2>6. CASE NestedFails(s)
    <3>1. CASE query[s] = "pg_attribute"
      BY <2>6, <3>1, Returned DEF NestedFails
    <3>2. CASE query[s] # "pg_attribute"
      <4>1. /\ pc[s] = "nested" /\ pc' = [pc EXCEPT ![s] = "scan"]
            /\ left' = [left EXCEPT ![s] = left[s] - 1]
            /\ UNCHANGED <<tables, ddl, query, oid, list, known, answer>>
        BY <2>6, <3>2, Zenon DEF NestedFails
      <4> QED
        BY <4>1
    <3> QED
      BY <3>1, <3>2
  <2>7. CASE CloseNested(s)
    BY <2>7 DEF CloseNested
  <2> QED
    BY <1>1, <2>1, <2>2, <2>3, <2>4, <2>5, <2>6, <2>7, <2>8, Zenon DEF SessionStep
<1>2. ASSUME NEW t \in Tables, Ddl(t) PROVE Types'
  BY <1>2, TableAssumption DEF Ddl
<1>3. CASE UNCHANGED vars
  BY <1>3 DEF vars
<1> QED
  BY <1>1, <1>2, <1>3, Zenon DEF Next, SessionStep

(* Lists and OIDs are of tables that the database can have, and no handler *)
(* runs more nested queries than its list asks for (catalog.go:238-487).   *)
THEOREM TypeCorrect == Spec => []TypeOK
<1>1. Init => Types
  <2> SUFFICES ASSUME Init PROVE Types
    OBVIOUS
  <2>1. "plain" \in Queries /\ <<>> \in Seq(Tables)
    BY EmptySeq DEF Queries
  <2> QED
    BY <2>1, TableAssumption DEF Init, Types, TypeOK
<1>2. Types /\ [Next]_vars => Types'
  BY TypesStep
<1>3. Types => TypeOK
  BY DEF Types
<1> QED
  BY <1>1, <1>2, <1>3, PTL DEF Spec
=============================================================================
