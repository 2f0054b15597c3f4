--------------------------- MODULE MCHandleShims ---------------------------
(* Threads and objects are interchangeable: every property checked with     *)
(* this symmetry is a safety property.                                      *)
EXTENDS HandleShims, TLC

Symmetry == Permutations(Threads) \cup Permutations(Objects)
=============================================================================
