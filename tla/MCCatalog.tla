----------------------------- MODULE MCCatalog -----------------------------
(* Small instances of Catalog: sessions of a kind are interchangeable.     *)
EXTENDS Catalog, TLC

SessionSymmetry == Permutations(Nesting) \cup Permutations(Plain)
=============================================================================
