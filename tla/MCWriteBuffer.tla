--------------------------- MODULE MCWriteBuffer ---------------------------
(* Small instances of WriteBuffer: the handlers are interchangeable.       *)
EXTENDS WriteBuffer, TLC

HandlerSymmetry == Permutations(Handlers)
=============================================================================
