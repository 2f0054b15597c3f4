--------------------------- MODULE MCReleaseCalls ---------------------------
(* Two threads on one release: one writes and queries it, the other asks    *)
(* for its history meanwhile. A second is 3 units of a Duration that wraps  *)
(* at 8: a timeout of 2 seconds can be expressed, one of 3 cannot.          *)
EXTENDS ReleaseCalls, TLC

CONSTANTS t1, t2

OneWriter == t1 :> Ops \ {"history"} @@ t2 :> {"history"}
=============================================================================
