---------------------------- MODULE LogContract ----------------------------
(***************************************************************************)
(* What helm_set_log_handler promises a host, whatever locks implement it  *)
(* (API.md:685-709, capi/logging.go:83-89): one callback is registered at  *)
(* a time; goroutines call it concurrently; it is replaced while it does   *)
(* not run; and the user_data of one that was replaced can be given back   *)
(* to the host for good.                                                   *)
(***************************************************************************)
CONSTANTS
  Loggers,  \* who may deliver a record
  Data,     \* callbacks, each with a user_data of its own
  NoData    \* the NULL callback

VARIABLES
  current,   \* the callback that is registered
  running,   \* the callback each logger is in
  released   \* those whose user_data is the host's again

vars == <<current, running, released>>

Init ==
  /\ current = NoData
  /\ running = [g \in Loggers |-> NoData]
  /\ released = {}

Register(d) ==
  /\ d \in (Data \ released) \cup {NoData}
  /\ \A g \in Loggers : running[g] = NoData
  /\ current' = d
  /\ UNCHANGED <<running, released>>

Deliver(g) ==
  /\ current # NoData /\ running[g] = NoData
  /\ running' = [running EXCEPT ![g] = current]
  /\ UNCHANGED <<current, released>>

Return(g) ==
  /\ running[g] # NoData
  /\ running' = [running EXCEPT ![g] = NoData]
  /\ UNCHANGED <<current, released>>

GiveBack(d) ==
  /\ d # current /\ \A g \in Loggers : running[g] # d
  /\ released' = released \cup {d}
  /\ UNCHANGED <<current, running>>

Next ==
  \/ \E d \in Data \cup {NoData} : Register(d)
  \/ \E d \in Data : GiveBack(d)
  \/ \E g \in Loggers : Deliver(g) \/ Return(g)

Spec == Init /\ [][Next]_vars

(* A callback that runs is the registered one, and none of them, running or *)
(* registered, has been given back: the host may free what it got back.     *)
InUseIsKept ==
  /\ current \notin released
  /\ \A g \in Loggers : running[g] # NoData => running[g] = current

Sound ==
  /\ current \in Data \cup {NoData}
  /\ running \in [Loggers -> Data \cup {NoData}]
  /\ released \subseteq Data
  /\ InUseIsKept
=============================================================================
