--------------------------- MODULE MCFixedObjectPool ---------------------------
(* FixedObjectPool for TLC.                                                      *)
EXTENDS FixedObjectPool, TLC

Symmetric == Permutations(Handles)
=================================================================================
