--------------------------- MODULE HandleContract ---------------------------
(***************************************************************************)
(* What helm-c promises of its opaque handles, whatever implements them    *)
(* (internal/handles/handles.go, the comments on Registry, Put and Free):  *)
(* an id is issued at most once, id 0 never; from then on it stands for    *)
(* one object until it is released; it is released at most once; and it    *)
(* never comes back to life for another object.                            *)
(***************************************************************************)
EXTENDS Naturals

CONSTANTS
  Ids,      \* the handle values the implementation can issue
  Objects   \* the Go objects a handle can stand for

VARIABLES
  issued,   \* every id ever handed out
  live      \* the object behind each id that has not been released

vars == <<issued, live>>

TypeOK ==
  /\ issued \subseteq Ids \ {0}
  /\ DOMAIN live \subseteq issued
  /\ live \in [DOMAIN live -> Objects]

Init ==
  /\ issued = {}
  /\ live = [h \in {} |-> {}]

Issue(h, o) ==
  /\ h \notin issued \cup {0}
  /\ issued' = issued \cup {h}
  /\ live' = [i \in DOMAIN live \cup {h} |-> IF i = h THEN o ELSE live[i]]

Release(h) ==
  /\ h \in DOMAIN live
  /\ live' = [i \in DOMAIN live \ {h} |-> live[i]]
  /\ UNCHANGED issued

Next ==
  \/ \E h \in Ids, o \in Objects : Issue(h, o)
  \/ \E h \in DOMAIN live : Release(h)

Spec == Init /\ [][Next]_vars

(* Only what was issued is live. *)
Issued == DOMAIN live \subseteq issued

(* What is released stays so, and what is live stands for what it always    *)
(* did, so "a stale handle can only miss - it can never alias a newer       *)
(* object" (handles.go:47-48).                                              *)
NoneReturns ==
  /\ \A h \in issued \ DOMAIN live : h \notin DOMAIN live'
  /\ \A h \in DOMAIN live \cap DOMAIN live' : live'[h] = live[h]

ForGood == [][NoneReturns]_vars
=============================================================================
