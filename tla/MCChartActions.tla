--------------------------- MODULE MCChartActions ---------------------------
(* Callers, contexts and directories are interchangeable in safety runs. *)
EXTENDS ChartActions, TLC

Symmetry == Permutations(Callers) \cup Permutations(Contexts) \cup Permutations(Dirs)
=============================================================================
