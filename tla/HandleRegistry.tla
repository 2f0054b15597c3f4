--------------------------- MODULE HandleRegistry ---------------------------
(***************************************************************************)
(* internal/handles/handles.go: the id -> object store behind every        *)
(* helm_handle_t. Each method holds Registry.mu from its first line to its *)
(* return, so each is one atomic step; a method that returns an error      *)
(* writes nothing. Ids come from a uint64 counter: MaxID is the bound on   *)
(* how many are ever issued (the counter does not wrap within it).         *)
(***************************************************************************)
EXTENDS Naturals, FiniteSets

CONSTANTS
  Objects,  \* the Go objects stored behind handles
  MaxID     \* bound: no more than MaxID handles are ever issued

VARIABLES
  nextID,   \* Registry.nextID, the last id issued
  entries   \* Registry.entries, a map id -> [typ, obj]

regVars == <<nextID, entries>>

Type == {"chart", "config", "registry-client", "context"}

Entry == [typ : Type, obj : Objects]

(* Wrong variant of LookupCode: the type tag is not compared. *)
LookupUntyped(id, t) == IF id \in DOMAIN entries THEN "OK" ELSE "InvalidHandle"

(***************************************************************************)
(* The error a lookup of id as a t ends in, shared by Get and FreeTyped;   *)
(* "OK" when there is none.                                                *)
(***************************************************************************)
LookupCode(id, t) ==
  IF id \notin DOMAIN entries THEN "InvalidHandle"
  ELSE IF entries[id].typ # t THEN "WrongHandleType"
  ELSE "OK"

Get(id) == entries[id].obj      \* the object, where LookupCode(id, t) = "OK"

FreeCode(id) == IF id \in DOMAIN entries THEN "OK" ELSE "InvalidHandle"

Count == Cardinality(DOMAIN entries)

Without(id) == [i \in DOMAIN entries \ {id} |-> entries[i]]

RegInit ==
  /\ nextID = 0
  /\ entries = [i \in {} |-> {}]

(* Wrong variants of Put: ids are taken from the number of entries, so they *)
(* come back after a free; the counter is read before it is incremented.    *)
PutRecycling(t, o) ==
  LET id == Count + 1
  IN /\ nextID < MaxID
     /\ nextID' = nextID + 1
     /\ entries' = [i \in DOMAIN entries \cup {id} |->
                      IF i = id THEN [typ |-> t, obj |-> o] ELSE entries[i]]

PutPostIncrement(t, o) ==
  /\ nextID < MaxID
  /\ nextID' = nextID + 1
  /\ entries' = [i \in DOMAIN entries \cup {nextID} |->
                   IF i = nextID THEN [typ |-> t, obj |-> o] ELSE entries[i]]

Put(t, o) ==
  /\ nextID < MaxID
  /\ nextID' = nextID + 1
  /\ entries' = [i \in DOMAIN entries \cup {nextID + 1} |->
                   IF i = nextID + 1 THEN [typ |-> t, obj |-> o] ELSE entries[i]]

Free(id) ==
  /\ entries' = IF FreeCode(id) = "OK" THEN Without(id) ELSE entries
  /\ UNCHANGED nextID

FreeTyped(id, t) ==
  /\ entries' = IF LookupCode(id, t) = "OK" THEN Without(id) ELSE entries
  /\ UNCHANGED nextID

(***************************************************************************)
(* The registry on its own, driven by any client. An id argument is        *)
(* whatever 64-bit value a host passes: never issued, live or stale.       *)
(***************************************************************************)
RegNext ==
  \/ \E t \in Type, o \in Objects : Put(t, o)
  \/ \E id \in 0 .. MaxID : Free(id)
  \/ \E id \in 0 .. MaxID, t \in Type : FreeTyped(id, t)

RegSpec == RegInit /\ [][RegNext]_regVars

-----------------------------------------------------------------------------
(* The registry's state is well formed: every live id was issued, none is  *)
(* 0, each stands for one typed object (handles.go:42-53).                 *)
RegTypeOK ==
  /\ nextID \in 0 .. MaxID
  /\ DOMAIN entries \subseteq 1 .. nextID
  /\ entries \in [DOMAIN entries -> Entry]
=============================================================================
