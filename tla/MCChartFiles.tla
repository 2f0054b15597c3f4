---------------------------- MODULE MCChartFiles ----------------------------
(* Two threads package into one directory. One of them also signs, indexes, *)
(* pulls and updates the chart there, and shows and downloads.              *)
EXTENDS ChartFiles, TLC

CONSTANTS t1, t2

Sharing == t1 :> {"package"} @@ t2 :> Ops

Symmetry == Permutations(Contents)
=============================================================================
