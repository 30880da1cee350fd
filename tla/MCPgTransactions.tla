------------------------- MODULE MCPgTransactions --------------------------
(* Small instances of PgTransactions: sessions and connections are         *)
(* interchangeable.                                                        *)
EXTENDS PgTransactions, TLC

PoolSymmetry == Permutations(Sessions) \cup Permutations(Conns)
ConnSymmetry == Permutations(Conns)
=============================================================================
