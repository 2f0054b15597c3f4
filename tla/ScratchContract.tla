-------------------------- MODULE ScratchContract --------------------------
(***************************************************************************)
(* What every call promises about the scratch directories it makes         *)
(* (docs/DESIGN.md 7: no temporary file outlives its call): it returns     *)
(* without any, whatever failed, and has none while the SDK acts on the    *)
(* cluster for it. Directories removed by a deferred function go also when *)
(* the call panics; those removed by hand may stay behind then.            *)
(***************************************************************************)
CONSTANTS
  Calls,   \* the threads a host calls from, each in one call at a time
  Kinds,   \* what a directory or file is for
  ByHand   \* the kinds no deferred function removes yet when the SDK panics

VARIABLES
  active,    \* threads in a call
  dirs,      \* what is on disk of each thread's present or last call
  handed,    \* those of active that the SDK has taken to the cluster
  panicked   \* threads whose last call ended in a panic

vars == <<active, dirs, handed, panicked>>

Init ==
  /\ active = {} /\ handed = {} /\ panicked = {}
  /\ dirs = [c \in Calls |-> {}]

Leaves(c, ds) == dirs' = [dirs EXCEPT ![c] = ds]

Begin(c) ==
  /\ c \notin active
  /\ active' = active \cup {c}
  /\ panicked' = panicked \ {c}
  /\ Leaves(c, {})
  /\ UNCHANGED handed

Work(c) ==
  /\ c \in active \ handed
  /\ \E ds \in SUBSET Kinds : Leaves(c, ds)
  /\ UNCHANGED <<active, handed, panicked>>

HandOver(c) ==
  /\ c \in active \ handed
  /\ handed' = handed \cup {c}
  /\ Leaves(c, {})
  /\ UNCHANGED <<active, panicked>>

Return(c) ==
  /\ c \in active
  /\ active' = active \ {c}
  /\ handed' = handed \ {c}
  /\ panicked' = panicked \ {c}
  /\ Leaves(c, {})

Panic(c) ==
  /\ c \in active
  /\ active' = active \ {c}
  /\ handed' = handed \ {c}
  /\ panicked' = panicked \cup {c}
  /\ \E ds \in SUBSET (ByHand \cap dirs[c]) : Leaves(c, ds)

Next == \E c \in Calls : Begin(c) \/ Work(c) \/ HandOver(c) \/ Return(c) \/ Panic(c)

Spec == Init /\ [][Next]_vars

(* Nothing is on disk of a call that has returned, nor of one that is on    *)
(* the cluster; of one that panicked at most what is removed by hand.       *)
NothingOutlives ==
  \A c \in Calls :
    /\ c \notin active => dirs[c] \subseteq (IF c \in panicked THEN ByHand ELSE {})
    /\ c \in handed => dirs[c] = {}

Tidy == dirs \in [Calls -> SUBSET Kinds] /\ NothingOutlives
=============================================================================
