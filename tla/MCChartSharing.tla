--------------------------- MODULE MCChartSharing ---------------------------
(* Every thread may render every chart. *)
EXTENDS ChartSharing, TLC

Sym == Permutations(Callers) \cup Permutations(Charts) \cup Permutations(Subcharts)
=============================================================================
