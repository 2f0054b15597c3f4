---------------------------- MODULE MCLogBridge ----------------------------
(* The log bridge for TLC. Its runs check liveness, so none uses symmetry. *)
EXTENDS LogBridge
=============================================================================
