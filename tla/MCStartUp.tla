------------------------------ MODULE MCStartUp ------------------------------
(* Three processes, two of them on one host and the third without          *)
(* PostgreSQL, and a view behind its table.                                *)
EXTENDS StartUp

CONSTANTS p1, p2, p3, h1, h2

MCHostOf == [p \in Procs |-> IF p = p3 THEN h2 ELSE h1]
MCEnabled == [p \in Procs |-> IF p = p3 THEN {"ch"} ELSE {"pg", "ch"}]

Table(n) == [name |-> n, view |-> FALSE, reads |-> {}]
View(n, m) == [name |-> n, view |-> TRUE, reads |-> {m}]
MCStatements == <<Table("traces"), View("analytics_traces", "traces"), Table("pg_type")>>
=============================================================================
