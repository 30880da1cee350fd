---------------------------- MODULE MCPgSession ----------------------------
(* Small instances of PgSession: names of statements and names of          *)
(* portals are interchangeable.                                            *)
EXTENDS PgSession, TLC

SessionSymmetry ==
  Permutations(Names) \cup Permutations(Portals)
=============================================================================
