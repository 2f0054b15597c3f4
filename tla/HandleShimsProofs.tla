-------------------------- MODULE HandleShimsProofs --------------------------
(***************************************************************************)
(* Theorems about the handle shims: for any number of threads, objects and *)
(* handles. The argument is an inductive invariant in three layers: the    *)
(* types, what links calls and the registry to the history of handles, and *)
(* what links them to the private files and the cancelled contexts.        *)
(***************************************************************************)
EXTENDS HandleShims, FiniteSetTheorems, SequenceTheorems, TLAPS

-----------------------------------------------------------------------------
(* Lemmas about operators. *)

LEMMA LookupCodes ==
  ASSUME NEW h, NEW typ
  PROVE  Registry!LookupCode(h, typ) \in Code /\ Registry!FreeCode(h) \in Code
BY DEF Registry!LookupCode, Registry!FreeCode, Code

(* A lookup succeeds exactly on a live handle of the type asked for. *)
LEMMA LookupOK ==
  ASSUME NEW h, NEW typ
  PROVE  Registry!LookupCode(h, typ) = "OK" <=> h \in DOMAIN entries /\ entries[h].typ = typ
BY DEF Registry!LookupCode

(* The requests are sequences of typed handle arguments. *)
LEMMA RequestsType == Requests \subseteq Seq(Wanted)
<1>1. \A typ \in Type : Needs(typ) \subseteq Seq(Wanted)
  <2> SUFFICES ASSUME NEW typ \in Type, NEW h \in Handle
               PROVE  << [h |-> h, typ |-> typ] >> \in Seq(Wanted)
    BY DEF Needs
  <2>1. [h |-> h, typ |-> typ] \in Wanted
    BY DEF Wanted
  <2> QED
    BY <2>1
<1>2. \A typ \in Type : MayNeed(typ) \subseteq Seq(Wanted)
  <2>1. << >> \in Seq(Wanted)
    OBVIOUS
  <2>2. ASSUME NEW typ \in Type, NEW h \in 1 .. MaxID
        PROVE  << [h |-> h, typ |-> typ] >> \in Seq(Wanted)
    <3>1. [h |-> h, typ |-> typ] \in Wanted
      BY ShimsAssumption DEF Wanted, Handle
    <3> QED
      BY <3>1
  <2> QED
    BY <2>1, <2>2 DEF MayNeed
<1>3. "chart" \in Type /\ "config" \in Type /\ "context" \in Type /\ "registry-client" \in Type
  BY DEF Type, Registry!Type
<1>4. ASSUME NEW a \in Seq(Wanted), NEW b \in Seq(Wanted)
      PROVE  a \o b \in Seq(Wanted)
  BY ConcatProperties
<1>5. ASSUME NEW req \in SetClientArgs
      PROVE  req \in Seq(Wanted)
  <2>1. PICK a \in Needs("config"), b \in MayNeed("registry-client") : req = a \o b
    BY DEF SetClientArgs
  <2>2. a \in Seq(Wanted) /\ b \in Seq(Wanted)
    BY <1>1, <1>2, <1>3
  <2> QED
    BY <2>1, <2>2, <1>4
<1>6. ASSUME NEW req \in ActionArgs
      PROVE  req \in Seq(Wanted)
  <2>1. PICK a \in Needs("config"), b \in MayNeed("chart"), c \in MayNeed("context") :
          req = (a \o b) \o c
    BY DEF ActionArgs
  <2>2. a \in Seq(Wanted) /\ b \in Seq(Wanted) /\ c \in Seq(Wanted)
    BY <1>1, <1>2, <1>3
  <2>3. a \o b \in Seq(Wanted)
    BY <2>2, <1>4
  <2>4. (a \o b) \o c \in Seq(Wanted)
    BY <2>2, <2>3, <1>4
  <2> QED
    BY <2>1, <2>4
<1>7. /\ ChartArgs \subseteq Seq(Wanted)
      /\ RegistryArgs \subseteq Seq(Wanted)
      /\ ReleaseArgs \subseteq Seq(Wanted)
  BY <1>1, <1>2, <1>3 DEF ChartArgs, RegistryArgs, ReleaseArgs
<1> QED
  BY <1>5, <1>6, <1>7 DEF Requests

-----------------------------------------------------------------------------
(* Layer 1: types. CallHasObject is what a step that uses the object of its *)
(* call, and Resolve's use of Head, need to be well defined.                *)

CallTypes ==
  /\ pc \in [Threads -> PC]
  /\ call \in [Threads -> Call]
  /\ todo \in [Threads -> Seq(Wanted)]
  /\ held \in [Threads -> SUBSET Held]
  /\ code \in [Threads -> Code]

CallHasObject ==
  \A t \in Threads :
    /\ pc[t] \in {"build", "put", "close", "remove", "clear", "cancel"}
         => call[t].obj \in Objects
    /\ pc[t] = "resolve" => todo[t] # << >>

TypeInv == TypeOK /\ CallHasObject

LEMMA BeginType ==
  ASSUME CallTypes, CallHasObject, NEW t \in Threads,
         NEW l \in {"build", "lookup", "release"}, NEW c \in Call, Begin(t, l, c),
         l = "build" => c.obj \in Objects, UNCHANGED <<todo, held>>
  PROVE  CallTypes' /\ CallHasObject'
BY DEF CallTypes, CallHasObject, Begin, Goto, PC, Code

LEMMA ReturnType ==
  ASSUME CallTypes, CallHasObject, NEW t \in Threads, NEW result \in Code, Return(t, result)
  PROVE  CallTypes' /\ CallHasObject'
<1>1. Returned(call[t]) \in Call
  BY ShimsAssumption DEF CallTypes, Returned, NoCall, Call, Op, FreeOps, Type, Registry!Type, Handle
<1>2. CallTypes'
  BY <1>1 DEF CallTypes, Return, Goto, PC
<1>3. CallHasObject'
  BY DEF CallTypes, CallHasObject, Return, Goto
<1> QED
  BY <1>2, <1>3

LEMMA GotoType ==
  ASSUME CallTypes, CallHasObject, NEW t \in Threads, NEW l \in PC \ {"resolve"}, Goto(t, l),
         UNCHANGED <<call, todo, held, code>>,
         l \in {"build", "put", "close", "remove", "clear", "cancel"} => call[t].obj \in Objects
  PROVE  CallTypes' /\ CallHasObject'
BY DEF CallTypes, CallHasObject, Goto

(* Registry.Free and FreeTyped keep the registry well formed. *)
LEMMA FreeKeepsRegistry ==
  ASSUME Registry!RegTypeOK, NEW h, nextID' = nextID,
         entries' = Registry!Without(h) \/ entries' = entries
  PROVE  Registry!RegTypeOK'
<1>1. CASE entries' = entries
  BY <1>1 DEF Registry!RegTypeOK
<1>2. CASE entries' = Registry!Without(h)
  <2>1. DOMAIN entries' = DOMAIN entries \ {h}
    BY <1>2 DEF Registry!Without
  <2>2. entries' \in [DOMAIN entries' -> Registry!Entry]
    BY <1>2, <2>1 DEF Registry!Without, Registry!RegTypeOK
  <2> QED
    BY <2>1, <2>2 DEF Registry!RegTypeOK
<1> QED
  BY <1>1, <1>2

LEMMA PutKeepsTypes ==
  ASSUME TypeInv, NEW t \in Threads, PutNew(t)
  PROVE  TypeInv'
<1> USE DEF TypeInv, TypeOK
<1>1. call[t].typ \in Type /\ call[t].obj \in Objects
  BY DEF Call, PutNew, At, CallHasObject
<1>2. nextID' = nextID + 1 /\ nextID' \in 0 .. MaxID /\ nextID \in Nat
  BY ShimsAssumption DEF PutNew, Registry!Put, Registry!RegTypeOK
<1>3. DOMAIN entries' = DOMAIN entries \cup {nextID + 1}
  BY DEF PutNew, Registry!Put
<1>4. entries' \in [DOMAIN entries' -> Registry!Entry]
  BY <1>1, <1>3 DEF PutNew, Registry!Put, Registry!RegTypeOK, Registry!Entry, Type
<1>5. Registry!RegTypeOK'
  BY <1>2, <1>3, <1>4 DEF Registry!RegTypeOK
<1>6. DOMAIN past \cup {nextID'} = 1 .. nextID'
  BY <1>2
<1>7. past' \in [1 .. nextID' -> [typ : Type, obj : Objects]]
  BY <1>1, <1>2, <1>6 DEF PutNew
<1>8. typedFreed' \subseteq 1 .. nextID' /\ handleFreed' \subseteq 1 .. nextID'
  BY <1>2 DEF PutNew
<1>9. CallTypes' /\ CallHasObject'
  BY ReturnType DEF PutNew, Code, CallTypes
<1> QED
  BY <1>5, <1>7, <1>8, <1>9 DEF PutNew, heapVars, CallTypes

(* What a step that writes neither the registry nor the history must show. *)
LEMMA TypeFrame ==
  ASSUME TypeInv, UNCHANGED <<regVars, past, typedFreed, handleFreed, okFrees>>,
         lost' = lost \/ lost' \subseteq Objects, CallTypes' /\ CallHasObject',
         kind' \in [Objects -> Type \cup {"none"}],
         content' \subseteq Objects, temp' \subseteq Objects,
         disk' \subseteq Objects, cancelled' \subseteq Objects
  PROVE  TypeInv'
BY DEF TypeInv, TypeOK, CallTypes, regVars, Registry!RegTypeOK

LEMMA NewKeepsTypes ==
  ASSUME TypeInv, NEW t \in Threads, New(t)
  PROVE  TypeInv'
<1> USE DEF TypeInv
<1>0. CallTypes
  BY DEF TypeOK, CallTypes
<1>1. ASSUME NEW o \in Objects, NEW typ \in Type, NEW inline \in BOOLEAN,
             StartNew(t, o, typ, inline)
      PROVE  TypeInv'
  <2>1. [op |-> "new", typ |-> typ, h |-> 0, obj |-> o, stale |-> FALSE] \in Call
    BY ShimsAssumption DEF Call, Op, Handle
  <2>2. CallTypes' /\ CallHasObject'
    BY <1>0, <1>1, <2>1, BeginType DEF StartNew
  <2> QED
    BY <1>1, <2>2, TypeFrame DEF histVars, StartNew, TypeOK
<1>2. ASSUME BuildOK(t)
      PROVE  TypeInv'
  <2>1. call[t].obj \in Objects
    BY <1>2 DEF BuildOK, At, CallHasObject
  <2>2. CallTypes' /\ CallHasObject'
    BY <1>0, <1>2, <2>1, GotoType DEF BuildOK, PC
  <2> QED
    BY <1>2, <2>1, <2>2, TypeFrame DEF histVars, BuildOK, TypeOK
<1>3. ASSUME BuildFails(t)
      PROVE  TypeInv'
  <2>1. CallTypes' /\ CallHasObject'
    BY <1>0, <1>3, ReturnType DEF BuildFails, Code
  <2> QED
    BY <1>3, <2>1, TypeFrame DEF histVars, BuildFails, TypeOK
<1>4. ASSUME BuildPanics(t)
      PROVE  TypeInv'
  <2>1. call[t].obj \in Objects
    BY <1>4 DEF BuildPanics, At, CallHasObject
  <2>2. CallTypes' /\ CallHasObject'
    BY <1>0, <1>4, ReturnType DEF BuildPanics, Code
  <2> QED
    BY <1>4, <2>1, <2>2, TypeFrame DEF BuildPanics, TypeOK, heapVars
<1> QED
  BY <1>1, <1>2, <1>3, <1>4, PutKeepsTypes DEF New

(* What a release must show: it writes the registry and one set of history. *)
LEMMA ReleaseFrame ==
  ASSUME TypeInv, UNCHANGED <<heapVars, past, lost>>, nextID' = nextID,
         CallTypes' /\ CallHasObject', Registry!RegTypeOK',
         typedFreed' \subseteq 1 .. nextID, handleFreed' \subseteq 1 .. nextID,
         okFrees' \in Nat
  PROVE  TypeInv'
BY DEF TypeInv, TypeOK, CallTypes, heapVars

LEMMA ReleaseKeepsTypes ==
  ASSUME TypeInv, NEW t \in Threads, TypedRelease(t) \/ HandleRelease(t)
  PROVE  TypeInv'
<1> USE DEF TypeInv
<1>0. CallTypes /\ call[t].h \in Handle
  BY DEF TypeOK, CallTypes, Call
<1>1. CASE TypedRelease(t)
  <2> DEFINE result == Registry!LookupCode(call[t].h, call[t].typ)
  <2>1. Registry!RegTypeOK' /\ nextID' = nextID
    BY <1>1, FreeKeepsRegistry DEF TypedRelease, Registry!FreeTyped, TypeOK
  <2>2. CallTypes' /\ CallHasObject'
    BY <1>0, <1>1, ReturnType, LookupCodes DEF TypedRelease
  <2>3. result = "OK" => call[t].h \in 1 .. nextID
    BY LookupOK DEF TypeOK, Registry!RegTypeOK
  <2>4. typedFreed' \subseteq 1 .. nextID /\ handleFreed' \subseteq 1 .. nextID
    BY <1>1, <2>3 DEF TypedRelease, TypeOK
  <2>5. okFrees' \in Nat /\ UNCHANGED <<heapVars, past, lost>>
    BY <1>1 DEF TypedRelease, TypeOK
  <2> QED
    BY <2>1, <2>2, <2>4, <2>5, ReleaseFrame
<1>2. CASE HandleRelease(t)
  <2> DEFINE result == Registry!FreeCode(call[t].h)
  <2>1. Registry!RegTypeOK' /\ nextID' = nextID
    BY <1>2, FreeKeepsRegistry DEF HandleRelease, Registry!Free, TypeOK
  <2>2. CallTypes' /\ CallHasObject'
    BY <1>0, <1>2, ReturnType, LookupCodes DEF HandleRelease
  <2>3. result = "OK" => call[t].h \in 1 .. nextID
    BY DEF TypeOK, Registry!RegTypeOK, Registry!FreeCode
  <2>4. typedFreed' \subseteq 1 .. nextID /\ handleFreed' \subseteq 1 .. nextID
    BY <1>2, <2>3 DEF HandleRelease, TypeOK
  <2>5. okFrees' \in Nat /\ UNCHANGED <<heapVars, past, lost>>
    BY <1>2 DEF HandleRelease, TypeOK
  <2> QED
    BY <2>1, <2>2, <2>4, <2>5, ReleaseFrame
<1> QED
  BY <1>1, <1>2

LEMMA FreeKeepsTypes ==
  ASSUME TypeInv, NEW t \in Threads, Free(t)
  PROVE  TypeInv'
<1> USE DEF TypeInv
<1>0. CallTypes /\ call[t] \in Call
  BY DEF TypeOK, CallTypes
<1>1. ASSUME NEW op \in FreeOps \cup {"cancel"}, NEW h \in Handle, NEW typ \in Type,
             Start(t, op, h, typ)
      PROVE  TypeInv'
  <2>1. [op |-> op, typ |-> typ, h |-> h, obj |-> NoObject, stale |-> Freed(h)] \in Call
    BY DEF Call, Op, FreeOps, Freed
  <2>2. FirstStep(op, typ) \in {"lookup", "release"}
    BY DEF FirstStep
  <2>3. CallTypes' /\ CallHasObject'
    BY <1>0, <1>1, <2>1, <2>2, BeginType DEF Start
  <2> QED
    BY <1>1, <2>3, TypeFrame DEF histVars, Start, TypeOK, heapVars
<1>2. CASE LookupMisses(t)
  <2>1. CallTypes' /\ CallHasObject'
    BY <1>0, <1>2, ReturnType, LookupCodes DEF LookupMisses
  <2> QED
    BY <1>2, <2>1, TypeFrame DEF histVars, LookupMisses, TypeOK, heapVars
<1>3. CASE LookupHits(t)
  <2>1. Registry!Get(call[t].h) \in Objects
    BY <1>3, LookupOK DEF LookupHits, Registry!Get, TypeOK, Registry!RegTypeOK, Registry!Entry
  <2>2. [op |-> call[t].op, typ |-> call[t].typ, h |-> call[t].h,
         obj |-> Registry!Get(call[t].h), stale |-> call[t].stale] \in Call
    BY <1>0, <2>1 DEF Call
  <2>3. CallTypes' /\ CallHasObject'
    BY <1>0, <1>3, <2>1, <2>2 DEF LookupHits, CallTypes, CallHasObject, Goto, PC
  <2> QED
    BY <1>3, <2>3, TypeFrame DEF histVars, LookupHits, TypeOK, heapVars
<1>4. CASE CloseCheck(t)
  <2>1. call[t].obj \in Objects
    BY <1>4 DEF CloseCheck, At, CallHasObject
  <2>2. CallTypes' /\ CallHasObject'
    BY <1>0, <1>4, <2>1, GotoType DEF CloseCheck, PC
  <2> QED
    BY <1>4, <2>2, TypeFrame DEF histVars, CloseCheck, TypeOK, heapVars
<1>5. CASE CloseRemove(t)
  <2>1. call[t].obj \in Objects
    BY <1>5 DEF CloseRemove, At, CallHasObject
  <2>2. CallTypes' /\ CallHasObject'
    BY <1>0, <1>5, <2>1, GotoType DEF CloseRemove, PC
  <2> QED
    BY <1>5, <2>2, TypeFrame DEF histVars, CloseRemove, TypeOK
<1>6. CASE CloseTorn(t)
  <2>1. CallTypes' /\ CallHasObject'
    BY <1>0, <1>6, ReturnType DEF CloseTorn, Code
  <2> QED
    BY <1>6, <2>1, TypeFrame DEF histVars, CloseTorn, TypeOK, heapVars
<1>7. CASE CloseClear(t)
  <2>1. CallTypes' /\ CallHasObject'
    BY <1>0, <1>7, GotoType DEF CloseClear, PC
  <2> QED
    BY <1>7, <2>1, TypeFrame DEF histVars, CloseClear, TypeOK
<1>8. CASE CancelHook(t)
  <2>1. call[t].obj \in Objects
    BY <1>8 DEF CancelHook, At, CallHasObject
  <2>2. CallTypes' /\ CallHasObject'
    BY <1>0, <1>8, GotoType DEF CancelHook, PC
  <2> QED
    BY <1>8, <2>1, <2>2, TypeFrame DEF histVars, CancelHook, TypeOK
<1>9. CASE CancelContext(t)
  <2>1. call[t].obj \in Objects
    BY <1>9 DEF CancelContext, At, CallHasObject
  <2>2. CallTypes' /\ CallHasObject'
    BY <1>0, <1>9, ReturnType DEF CancelContext, Code
  <2> QED
    BY <1>9, <2>1, <2>2, TypeFrame DEF histVars, CancelContext, TypeOK
<1> QED
  BY <1>1, <1>2, <1>3, <1>4, <1>5, <1>6, <1>7, <1>8, <1>9, ReleaseKeepsTypes DEF Free

LEMMA UseKeepsTypes ==
  ASSUME TypeInv, NEW t \in Threads, Use(t)
  PROVE  TypeInv'
<1> USE DEF TypeInv
<1>0. CallTypes
  BY DEF TypeOK, CallTypes
<1>1. ASSUME NEW req \in Requests, StartUse(t, req)
      PROVE  TypeInv'
  <2>1. [op |-> "use", typ |-> "chart", h |-> 0, obj |-> NoObject, stale |-> FALSE] \in Call
    BY ShimsAssumption DEF Call, Op, Handle, Type, Registry!Type
  <2>2. req \in Seq(Wanted)
    BY RequestsType
  <2>3. CallTypes' /\ CallHasObject'
    BY <1>0, <1>1, <2>1, <2>2
       DEF StartUse, Begin, Goto, CallTypes, CallHasObject, PC, Code
  <2> QED
    BY <1>1, <2>3, TypeFrame DEF histVars, StartUse, TypeOK, heapVars
<1>2. CASE ResolveMisses(t)
  <2>1. CallTypes' /\ CallHasObject'
    BY <1>0, <1>2, ReturnType, LookupCodes DEF ResolveMisses
  <2> QED
    BY <1>2, <2>1, TypeFrame DEF histVars, ResolveMisses, TypeOK, heapVars
<1>3. CASE ResolveHits(t)
  <2> DEFINE w == Head(todo[t])
  <2>1. todo[t] \in Seq(Wanted) /\ todo[t] # << >>
    BY <1>0, <1>3 DEF ResolveHits, At, CallTypes, CallHasObject
  <2>2. w \in Wanted /\ Tail(todo[t]) \in Seq(Wanted)
    BY <2>1
  <2>3. Registry!Get(w.h) \in Objects
    BY <1>3, LookupOK DEF ResolveHits, Registry!Get, TypeOK, Registry!RegTypeOK, Registry!Entry
  <2>4. [h |-> w.h, typ |-> w.typ, obj |-> Registry!Get(w.h)] \in Held
    BY <2>2, <2>3 DEF Wanted, Held
  <2>5. CallTypes'
    BY <1>0, <1>3, <2>2, <2>4 DEF ResolveHits, CallTypes, Goto, PC
  <2>6. CallHasObject'
    BY <1>0, <1>3 DEF ResolveHits, CallTypes, CallHasObject, Goto
  <2> QED
    BY <1>3, <2>5, <2>6, TypeFrame DEF histVars, ResolveHits, TypeOK, heapVars
<1>4. CASE Finish(t)
  <2>1. CallTypes' /\ CallHasObject'
    BY <1>0, <1>4, ReturnType DEF Finish, Code
  <2> QED
    BY <1>4, <2>1, TypeFrame DEF histVars, Finish, TypeOK, heapVars
<1> QED
  BY <1>1, <1>2, <1>3, <1>4 DEF Use

LEMMA TypeInvInductive ==
  /\ Init => TypeInv
  /\ TypeInv /\ [Next]_vars => TypeInv'
<1>1. Init => TypeInv
  <2> SUFFICES ASSUME Init
               PROVE  TypeInv
    OBVIOUS
  <2>1. NoCall \in Call
    BY ShimsAssumption DEF NoCall, Call, Op, Type, Registry!Type, Handle
  <2>2. CallTypes /\ CallHasObject
    BY <2>1 DEF Init, CallTypes, CallHasObject, PC, Code
  <2>3. past \in [1 .. nextID -> [typ : Type, obj : Objects]]
    BY DEF Init, Registry!RegInit
  <2>4. Registry!RegTypeOK
    BY ShimsAssumption DEF Init, Registry!RegInit, Registry!RegTypeOK
  <2> QED
    BY <2>2, <2>3, <2>4 DEF Init, TypeInv, TypeOK, CallTypes
<1>2. TypeInv /\ [Next]_vars => TypeInv'
  <2>1. CASE UNCHANGED vars
    BY <2>1 DEF vars, regVars, heapVars, callVars, histVars, TypeInv, TypeOK,
                Registry!RegTypeOK, CallHasObject
  <2> QED
    BY <2>1, NewKeepsTypes, FreeKeepsTypes, UseKeepsTypes DEF Next
<1> QED
  BY <1>1, <1>2

(* Every variable of the shims keeps its type, in every interleaving. *)
THEOREM TypeCorrect == Spec => []TypeOK
<1>1. TypeInv => TypeOK
  BY DEF TypeInv
<1> QED
  BY <1>1, TypeInvInductive, PTL DEF Spec
-----------------------------------------------------------------------------
(* Layer 2: links. The registry holds what the history says of every handle *)
(* that has not been freed, and what a call has resolved a handle to is     *)
(* what that handle was issued for. An object being built is nobody else's. *)

IsHook(t) ==
  \/ pc[t] \in {"close", "remove", "clear", "cancel"}
  \/ pc[t] = "release" /\ call[t].op = "free" /\ call[t].typ \in {"config", "context"}

IsBuilder(t) == pc[t] \in {"build", "put"}

RegistryLinked ==
  /\ \A h \in 1 .. nextID : h \in DOMAIN entries <=> ~ Freed(h)
  /\ \A h \in DOMAIN entries : entries[h] = past[h]
  /\ \A h \in 1 .. nextID : kind[past[h].obj] = past[h].typ

BuilderLinked(t) ==
  IsBuilder(t) =>
    /\ kind[call[t].obj] = call[t].typ
    /\ \A h \in 1 .. nextID : past[h].obj # call[t].obj
    /\ \A u \in Threads : IsBuilder(u) /\ call[u].obj = call[t].obj => u = t

HookLinked(t) ==
  /\ IsHook(t) =>
       /\ call[t].h \in 1 .. nextID
       /\ past[call[t].h].typ = call[t].typ
       /\ past[call[t].h].obj = call[t].obj
  /\ pc[t] \in {"close", "remove", "clear"} => call[t].typ = "config"
  /\ pc[t] = "cancel" => call[t].typ = "context"
  /\ pc[t] = "lookup" => call[t].typ \in {"config", "context"}

HeldLinked(t) ==
  \A x \in held[t] :
    /\ x.h \in 1 .. nextID
    /\ past[x.h].typ = x.typ
    /\ past[x.h].obj = x.obj

Linked ==
  /\ RegistryLinked
  /\ \A t \in Threads : BuilderLinked(t) /\ HookLinked(t) /\ HeldLinked(t)

(* A step that only moves thread t, or ends its call. *)
LEMMA MoveLinks ==
  ASSUME TypeInv, TypeInv', Linked, NEW t \in Threads,
         UNCHANGED <<nextID, entries, kind, past, typedFreed, handleFreed>>,
         \A u \in Threads \ {t} : pc'[u] = pc[u] /\ call'[u] = call[u] /\ held'[u] = held[u],
         IsBuilder(t)' => IsBuilder(t) /\ call'[t] = call[t],
         HookLinked(t)', HeldLinked(t)'
  PROVE  Linked'
<1>1. RegistryLinked'
  BY DEF Linked, RegistryLinked, Freed
<1>2. ASSUME NEW u \in Threads
      PROVE  BuilderLinked(u)'
  BY DEF Linked, BuilderLinked, IsBuilder
<1>3. ASSUME NEW u \in Threads, u # t
      PROVE  HookLinked(u)' /\ HeldLinked(u)'
  BY <1>3 DEF Linked, HookLinked, IsHook, HeldLinked
<1> QED
  BY <1>1, <1>2, <1>3 DEF Linked

LEMMA ReturnLinks ==
  ASSUME TypeInv, TypeInv', Linked, NEW t \in Threads, NEW result, Return(t, result),
         UNCHANGED <<nextID, entries, kind, past, typedFreed, handleFreed>>
  PROVE  Linked'
<1>1. pc'[t] = "idle" /\ held'[t] = {}
  BY DEF Return, Goto, TypeInv, TypeOK
<1>2. HookLinked(t)' /\ HeldLinked(t)' /\ ~ IsBuilder(t)'
  BY <1>1 DEF HookLinked, IsHook, HeldLinked, IsBuilder
<1> QED
  BY <1>2, MoveLinks DEF Return, Goto, TypeInv, TypeOK
(* A new object is nobody's yet. *)
LEMMA StartNewLinks ==
  ASSUME TypeInv, TypeInv', Linked, NEW t \in Threads,
         NEW o \in Objects, NEW typ \in Type, NEW inline \in BOOLEAN,
         StartNew(t, o, typ, inline)
  PROVE  Linked'
<1> DEFINE c == [op |-> "new", typ |-> typ, h |-> 0, obj |-> o, stale |-> FALSE]
<1>1. /\ pc[t] = "idle" /\ pc' = [pc EXCEPT ![t] = "build"]
      /\ call' = [call EXCEPT ![t] = c] /\ held' = held
      /\ kind[o] = "none" /\ kind' = [kind EXCEPT ![o] = typ]
      /\ UNCHANGED <<nextID, entries, past, typedFreed, handleFreed>>
  BY DEF StartNew, Begin, Goto, At, regVars, histVars
<1>2. \A ty \in Type : ty # "none"
  BY DEF Type, Registry!Type
<1>3. \A h \in 1 .. nextID : past[h].typ \in Type /\ past[h].obj \in Objects
  BY DEF TypeInv, TypeOK
<1>4. \A h \in 1 .. nextID : past[h].obj # o
  BY <1>1, <1>2, <1>3 DEF Linked, RegistryLinked
<1>5. \A u \in Threads : IsBuilder(u) => call[u].obj # o /\ call[u].obj \in Objects
  BY <1>1, <1>2 DEF Linked, BuilderLinked, TypeInv, TypeOK, Call, CallHasObject, IsBuilder
<1>6. RegistryLinked'
  BY <1>1, <1>3, <1>4 DEF Linked, RegistryLinked, Freed, TypeInv, TypeOK
<1>7. call'[t] = c /\ pc'[t] = "build" /\ kind'[o] = typ
  BY <1>1 DEF TypeInv, TypeOK
<1>8. \A u \in Threads \ {t} : pc'[u] = pc[u] /\ call'[u] = call[u]
  BY <1>1 DEF TypeInv, TypeOK
<1>9. ASSUME NEW u \in Threads
      PROVE  BuilderLinked(u)'
  <2>1. CASE u = t
    BY <1>1, <1>4, <1>5, <1>7, <1>8, <2>1 DEF BuilderLinked, IsBuilder
  <2>2. CASE u # t
    BY <1>1, <1>5, <1>7, <1>8, <2>2 DEF Linked, BuilderLinked, IsBuilder, TypeInv, TypeOK
  <2> QED
    BY <2>1, <2>2
<1>10. ASSUME NEW u \in Threads
       PROVE  HookLinked(u)' /\ HeldLinked(u)'
  <2>1. HeldLinked(u)'
    BY <1>1 DEF Linked, HeldLinked
  <2>2. HookLinked(u)'
    BY <1>1, <1>7, <1>8 DEF Linked, HookLinked, IsHook
  <2> QED
    BY <2>1, <2>2
<1> QED
  BY <1>6, <1>9, <1>10 DEF Linked

(* A failed creation undoes an object no handle stands for. *)
LEMMA BuildFailsLinks ==
  ASSUME TypeInv, TypeInv', Linked, NEW t \in Threads, BuildFails(t)
  PROVE  Linked'
<1> DEFINE o == call[t].obj
<1>1. /\ pc[t] = "build" /\ Return(t, "Failed")
      /\ kind' = [kind EXCEPT ![o] = "none"]
      /\ UNCHANGED <<nextID, entries, past, typedFreed, handleFreed>>
  BY DEF BuildFails, At, regVars, histVars
<1>2. /\ pc'[t] = "idle" /\ held'[t] = {}
      /\ \A u \in Threads \ {t} : pc'[u] = pc[u] /\ call'[u] = call[u] /\ held'[u] = held[u]
  BY <1>1 DEF Return, Goto, TypeInv, TypeOK
<1>3. \A h \in 1 .. nextID : past[h].obj # o /\ past[h].obj \in Objects
  BY <1>1 DEF Linked, BuilderLinked, IsBuilder, TypeInv, TypeOK
<1>4. RegistryLinked'
  BY <1>1, <1>3 DEF Linked, RegistryLinked, Freed, TypeInv, TypeOK
<1>5. ASSUME NEW u \in Threads
      PROVE  BuilderLinked(u)'
  <2>1. CASE u = t
    BY <1>2, <2>1 DEF BuilderLinked, IsBuilder
  <2>2. CASE u # t
    <3>1. IsBuilder(u) => call[u].obj # o /\ call[u].obj \in Objects
      BY <1>1, <2>2 DEF Linked, BuilderLinked, IsBuilder, TypeInv, CallHasObject
    <3>2. IsBuilder(u)' => kind'[call'[u].obj] = call'[u].typ
      BY <1>1, <1>2, <2>2, <3>1 DEF Linked, BuilderLinked, IsBuilder, TypeInv, TypeOK
    <3>3. IsBuilder(u)' => \A h \in 1 .. nextID' : past'[h].obj # call'[u].obj
      BY <1>1, <1>2, <2>2 DEF Linked, BuilderLinked, IsBuilder
    <3>4. \A v \in Threads : IsBuilder(u)' /\ IsBuilder(v)' /\ call'[v].obj = call'[u].obj => v = u
      BY <1>2, <2>2 DEF Linked, BuilderLinked, IsBuilder
    <3> QED
      BY <3>2, <3>3, <3>4 DEF BuilderLinked, IsBuilder
  <2> QED
    BY <2>1, <2>2
<1>6. ASSUME NEW u \in Threads
      PROVE  HookLinked(u)' /\ HeldLinked(u)'
  <2>1. HeldLinked(u)'
    BY <1>1, <1>2 DEF Linked, HeldLinked
  <2>2. HookLinked(u)'
    BY <1>1, <1>2 DEF Linked, HookLinked, IsHook
  <2> QED
    BY <2>1, <2>2
<1> QED
  BY <1>4, <1>5, <1>6 DEF Linked

(* The new handle is linked to the object its maker owned. *)
LEMMA PutNewLinks ==
  ASSUME TypeInv, TypeInv', Linked, NEW t \in Threads, PutNew(t)
  PROVE  Linked'
<1> DEFINE n == nextID + 1
<1>1. /\ nextID \in Nat /\ nextID' = n
      /\ entries' = [i \in DOMAIN entries \cup {n} |->
                       IF i = n THEN [typ |-> call[t].typ, obj |-> call[t].obj] ELSE entries[i]]
      /\ past' = [h \in DOMAIN past \cup {n} |->
                    IF h = n THEN [typ |-> call[t].typ, obj |-> call[t].obj] ELSE past[h]]
      /\ UNCHANGED <<kind, typedFreed, handleFreed>>
  BY DEF PutNew, Registry!Put, TypeInv, TypeOK, Registry!RegTypeOK, heapVars
<1>2. /\ pc[t] = "put" /\ pc'[t] = "idle" /\ held'[t] = {}
      /\ \A u \in Threads \ {t} : pc'[u] = pc[u] /\ call'[u] = call[u] /\ held'[u] = held[u]
  BY DEF PutNew, At, Return, Goto, TypeInv, TypeOK
<1>3. 1 .. nextID' = 1 .. nextID \cup {n} /\ n \notin 1 .. nextID
  BY <1>1
<1>4. DOMAIN past = 1 .. nextID /\ DOMAIN entries \subseteq 1 .. nextID /\ ~ Freed(n)
  BY <1>1, <1>3 DEF TypeInv, TypeOK, Registry!RegTypeOK, Freed
<1>5. /\ past'[n].typ = call[t].typ /\ past'[n].obj = call[t].obj /\ entries'[n] = past'[n]
      /\ \A h \in 1 .. nextID : past'[h] = past[h]
      /\ \A h \in DOMAIN entries : entries'[h] = entries[h]
      /\ DOMAIN entries' = DOMAIN entries \cup {n}
  BY <1>1, <1>3, <1>4
<1>6. kind[call[t].obj] = call[t].typ
  BY <1>2 DEF Linked, BuilderLinked, IsBuilder
<1>7. RegistryLinked'
  <2>1. \A h \in 1 .. nextID' : h \in DOMAIN entries' <=> ~ Freed(h)'
    BY <1>1, <1>3, <1>4, <1>5 DEF Linked, RegistryLinked, Freed
  <2>2. \A h \in DOMAIN entries' : entries'[h] = past'[h]
    BY <1>3, <1>4, <1>5 DEF Linked, RegistryLinked
  <2>3. \A h \in 1 .. nextID' : kind'[past'[h].obj] = past'[h].typ
    BY <1>1, <1>3, <1>5, <1>6 DEF Linked, RegistryLinked
  <2> QED
    BY <2>1, <2>2, <2>3 DEF RegistryLinked
<1>8. ASSUME NEW u \in Threads
      PROVE  BuilderLinked(u)'
  <2>1. CASE u = t
    BY <1>2, <2>1 DEF BuilderLinked, IsBuilder
  <2>2. CASE u # t
    <3>1. IsBuilder(u) => call[u].obj # call[t].obj
      BY <1>2, <2>2 DEF Linked, BuilderLinked, IsBuilder
    <3>2. IsBuilder(u)' => kind'[call'[u].obj] = call'[u].typ
      BY <1>1, <1>2, <2>2 DEF Linked, BuilderLinked, IsBuilder
    <3>3. IsBuilder(u)' => \A h \in 1 .. nextID : past'[h].obj # call'[u].obj
      BY <1>2, <1>5, <2>2 DEF Linked, BuilderLinked, IsBuilder
    <3>4. IsBuilder(u)' => past'[n].obj # call'[u].obj
      BY <1>2, <1>5, <2>2, <3>1 DEF IsBuilder
    <3>5. \A v \in Threads : IsBuilder(u)' /\ IsBuilder(v)' /\ call'[v].obj = call'[u].obj => v = u
      BY <1>2, <2>2 DEF Linked, BuilderLinked, IsBuilder
    <3> HIDE DEF n
    <3> QED
      BY <1>1, <1>3, <3>2, <3>3, <3>4, <3>5 DEF BuilderLinked, IsBuilder
  <2> QED
    BY <2>1, <2>2
<1>9. ASSUME NEW u \in Threads
      PROVE  HookLinked(u)' /\ HeldLinked(u)'
  <2>1. HeldLinked(u)'
    BY <1>2, <1>3, <1>5 DEF Linked, HeldLinked
  <2>2. HookLinked(u)'
    BY <1>2, <1>3, <1>5 DEF Linked, HookLinked, IsHook
  <2> QED
    BY <2>1, <2>2
<1> QED
  BY <1>7, <1>8, <1>9 DEF Linked

(* A release takes out exactly the handle the history then calls freed. *)
LEMMA ReleaseLinks ==
  ASSUME TypeInv, TypeInv', Linked, NEW t \in Threads, NEW h \in Handle, NEW result,
         UNCHANGED <<nextID, kind, past>>, Return(t, result),
         \/ entries' = entries /\ UNCHANGED <<typedFreed, handleFreed>>
         \/ /\ entries' = Registry!Without(h)
            /\ typedFreed' \cup handleFreed' = typedFreed \cup handleFreed \cup {h}
  PROVE  Linked'
<1>1. /\ pc'[t] = "idle" /\ held'[t] = {}
      /\ \A u \in Threads \ {t} : pc'[u] = pc[u] /\ call'[u] = call[u] /\ held'[u] = held[u]
  BY DEF Return, Goto, TypeInv, TypeOK
<1>2. RegistryLinked'
  BY DEF Linked, RegistryLinked, Freed, Registry!Without
<1>3. ASSUME NEW u \in Threads
      PROVE  BuilderLinked(u)'
  BY <1>1 DEF Linked, BuilderLinked, IsBuilder
<1>4. ASSUME NEW u \in Threads
      PROVE  HookLinked(u)' /\ HeldLinked(u)'
  BY <1>1 DEF Linked, HookLinked, IsHook, HeldLinked
<1> QED
  BY <1>2, <1>3, <1>4 DEF Linked
LEMMA NewKeepsLinks ==
  ASSUME TypeInv, TypeInv', Linked, NEW t \in Threads, New(t)
  PROVE  Linked'
<1>1. CASE BuildOK(t)
  <2>1. /\ pc[t] = "build" /\ pc' = [pc EXCEPT ![t] = "put"]
        /\ UNCHANGED <<nextID, entries, kind, past, typedFreed, handleFreed, call, held>>
    BY <1>1 DEF BuildOK, At, Goto, regVars, histVars
  <2>2. pc'[t] = "put" /\ IsBuilder(t)
    BY <2>1 DEF TypeInv, TypeOK, IsBuilder
  <2>3. HookLinked(t)' /\ HeldLinked(t)'
    BY <2>1, <2>2 DEF Linked, HookLinked, HeldLinked, IsHook
  <2> QED
    BY <2>1, <2>2, <2>3, MoveLinks DEF TypeInv, TypeOK
<1>2. CASE BuildPanics(t)
  BY <1>2, ReturnLinks DEF BuildPanics, regVars, heapVars
<1> QED
  BY <1>1, <1>2, StartNewLinks, BuildFailsLinks, PutNewLinks DEF New

LEMMA FreeKeepsLinks ==
  ASSUME TypeInv, TypeInv', Linked, NEW t \in Threads, Free(t)
  PROVE  Linked'
<1>1. ASSUME NEW op \in FreeOps \cup {"cancel"}, NEW h \in Handle, NEW typ \in Type,
             Start(t, op, h, typ)
      PROVE  Linked'
  <2> DEFINE c == [op |-> op, typ |-> typ, h |-> h, obj |-> NoObject, stale |-> Freed(h)]
  <2>1. /\ pc' = [pc EXCEPT ![t] = FirstStep(op, typ)] /\ call' = [call EXCEPT ![t] = c]
        /\ op = "cancel" => typ = "context"
        /\ UNCHANGED <<nextID, entries, kind, past, typedFreed, handleFreed, held>>
    BY <1>1 DEF Start, Begin, Goto, regVars, heapVars, histVars
  <2>2. pc'[t] = FirstStep(op, typ) /\ call'[t] = c
    BY <2>1 DEF TypeInv, TypeOK
  <2>3. HookLinked(t)' /\ HeldLinked(t)' /\ ~ IsBuilder(t)'
    BY <2>1, <2>2 DEF Linked, HookLinked, HeldLinked, IsHook, IsBuilder, FirstStep
  <2> QED
    BY <2>1, <2>3, MoveLinks DEF TypeInv, TypeOK
<1>2. CASE LookupMisses(t) \/ CloseTorn(t) \/ CancelContext(t)
  BY <1>2, ReturnLinks DEF LookupMisses, CloseTorn, CancelContext, regVars, heapVars, histVars
<1>3. CASE LookupHits(t)
  <2> DEFINE h == call[t].h
  <2>1. /\ pc[t] = "lookup" /\ pc' = [pc EXCEPT ![t] = IF call[t].typ = "config" THEN "close" ELSE "cancel"]
        /\ h \in DOMAIN entries /\ entries[h].typ = call[t].typ
        /\ call' = [call EXCEPT ![t] = [op |-> call[t].op, typ |-> call[t].typ, h |-> h,
                                        obj |-> entries[h].obj, stale |-> call[t].stale]]
        /\ UNCHANGED <<nextID, entries, kind, past, typedFreed, handleFreed, held>>
    BY <1>3, LookupOK DEF LookupHits, Registry!Get, At, Goto, regVars, heapVars, histVars
  <2>2. /\ pc'[t] = IF call[t].typ = "config" THEN "close" ELSE "cancel"
        /\ call'[t] = [op |-> call[t].op, typ |-> call[t].typ, h |-> h,
                       obj |-> entries[h].obj, stale |-> call[t].stale]
    BY <2>1 DEF TypeInv, TypeOK
  <2>3. h \in 1 .. nextID /\ entries[h] = past[h]
    BY <2>1 DEF Linked, RegistryLinked, TypeInv, TypeOK, Registry!RegTypeOK
  <2>4. call[t].typ \in {"config", "context"}
    BY <2>1 DEF Linked, HookLinked
  <2>5. HookLinked(t)' /\ HeldLinked(t)' /\ ~ IsBuilder(t)'
    BY <2>1, <2>2, <2>3, <2>4 DEF Linked, HookLinked, HeldLinked, IsHook, IsBuilder
  <2> QED
    BY <2>1, <2>5, MoveLinks DEF TypeInv, TypeOK
<1>4. CASE CloseCheck(t) \/ CloseRemove(t) \/ CloseClear(t) \/ CancelHook(t)
  <2>1. /\ pc[t] \in {"close", "remove", "clear", "cancel"}
        /\ pc' = [pc EXCEPT ![t] = pc'[t]] /\ pc'[t] \in {"remove", "clear", "release"}
        /\ pc[t] = "cancel" => pc'[t] = "release"
        /\ UNCHANGED <<nextID, entries, kind, past, typedFreed, handleFreed, call, held>>
    BY <1>4 DEF CloseCheck, CloseRemove, CloseClear, CancelHook, At, Goto, IsHook,
                regVars, heapVars, histVars, TypeInv, TypeOK
  <2>2. HookLinked(t)' /\ HeldLinked(t)' /\ ~ IsBuilder(t)'
    BY <2>1 DEF Linked, HookLinked, HeldLinked, IsHook, IsBuilder
  <2> QED
    BY <2>1, <2>2, MoveLinks DEF TypeInv, TypeOK
<1>5. CASE TypedRelease(t)
  <2>1. call[t].h \in Handle
    BY DEF TypeInv, TypeOK, Call
  <2> QED
    BY <1>5, <2>1, ReleaseLinks DEF TypedRelease, Registry!FreeTyped, heapVars
<1>6. CASE HandleRelease(t)
  <2>1. call[t].h \in Handle
    BY DEF TypeInv, TypeOK, Call
  <2> QED
    BY <1>6, <2>1, ReleaseLinks DEF HandleRelease, Registry!Free, heapVars
<1> QED
  BY <1>1, <1>2, <1>3, <1>4, <1>5, <1>6 DEF Free

LEMMA UseKeepsLinks ==
  ASSUME TypeInv, TypeInv', Linked, NEW t \in Threads, Use(t)
  PROVE  Linked'
<1>1. ASSUME NEW req \in Requests, StartUse(t, req)
      PROVE  Linked'
  <2>1. /\ pc' = [pc EXCEPT ![t] = pc'[t]] /\ pc'[t] \in {"run", "resolve"}
        /\ call' = [call EXCEPT ![t] = call'[t]]
        /\ UNCHANGED <<nextID, entries, kind, past, typedFreed, handleFreed, held>>
    BY <1>1 DEF StartUse, Begin, Goto, regVars, heapVars, histVars, TypeInv, TypeOK
  <2>2. HookLinked(t)' /\ HeldLinked(t)' /\ ~ IsBuilder(t)'
    BY <2>1 DEF Linked, HookLinked, HeldLinked, IsHook, IsBuilder
  <2> QED
    BY <2>1, <2>2, MoveLinks DEF TypeInv, TypeOK
<1>2. CASE ResolveMisses(t) \/ Finish(t)
  BY <1>2, ReturnLinks DEF ResolveMisses, Finish, regVars, heapVars, histVars
<1>3. CASE ResolveHits(t)
  <2> DEFINE w == Head(todo[t])
             x == [h |-> w.h, typ |-> w.typ, obj |-> entries[w.h].obj]
  <2>1. /\ pc' = [pc EXCEPT ![t] = pc'[t]] /\ pc'[t] \in {"run", "resolve"}
        /\ w.h \in DOMAIN entries /\ entries[w.h].typ = w.typ
        /\ held' = [held EXCEPT ![t] = held[t] \cup {x}]
        /\ UNCHANGED <<nextID, entries, kind, past, typedFreed, handleFreed, call>>
    BY <1>3, LookupOK DEF ResolveHits, Registry!Get, Goto, regVars, heapVars, histVars,
                          TypeInv, TypeOK
  <2>2. w.h \in 1 .. nextID /\ entries[w.h] = past[w.h]
    BY <2>1 DEF Linked, RegistryLinked, TypeInv, TypeOK, Registry!RegTypeOK
  <2>3. held'[t] = held[t] \cup {x} /\ x.h = w.h /\ x.typ = w.typ /\ x.obj = entries[w.h].obj
    BY <2>1 DEF TypeInv, TypeOK
  <2>4. HeldLinked(t)'
    <3> HIDE DEF x
    <3> QED
      BY <2>1, <2>2, <2>3 DEF Linked, HeldLinked
  <2>5. HookLinked(t)' /\ ~ IsBuilder(t)'
    BY <2>1 DEF Linked, HookLinked, IsHook, IsBuilder
  <2> QED
    BY <2>1, <2>4, <2>5, MoveLinks DEF TypeInv, TypeOK
<1> QED
  BY <1>1, <1>2, <1>3 DEF Use

LEMMA LinkedInductive ==
  /\ Init => Linked
  /\ TypeInv /\ TypeInv' /\ Linked /\ [Next]_vars => Linked'
<1>1. Init => Linked
  BY DEF Init, Registry!RegInit, Linked, RegistryLinked, BuilderLinked, HookLinked,
         HeldLinked, IsBuilder, IsHook
<1>2. TypeInv /\ TypeInv' /\ Linked /\ [Next]_vars => Linked'
  <2>1. ASSUME Linked, UNCHANGED vars
        PROVE  Linked'
    BY <2>1 DEF vars, regVars, heapVars, callVars, histVars, Linked, RegistryLinked, Freed,
                BuilderLinked, HookLinked, HeldLinked, IsBuilder, IsHook
  <2> QED
    BY <2>1, NewKeepsLinks, FreeKeepsLinks, UseKeepsLinks DEF Next
<1> QED
  BY <1>1, <1>2

(* A handle, stale or live, never comes to stand for another object, and a  *)
(* call in flight keeps the object its handle was issued for.               *)
THEOREM HandlesNeverAlias == Spec => []NeverAliases
<1>1. TypeInv /\ Linked => NeverAliases
  <2> SUFFICES ASSUME TypeInv, Linked
               PROVE  NeverAliases
    OBVIOUS
  <2>1. DOMAIN past = 1 .. nextID /\ DOMAIN entries \subseteq 1 .. nextID
    BY DEF TypeInv, TypeOK, Registry!RegTypeOK
  <2> QED
    BY <2>1 DEF Linked, RegistryLinked, HeldLinked, NeverAliases
<1> QED
  BY <1>1, TypeInvInductive, LinkedInductive, PTL DEF Spec

(* Hooks, cancels and actions only ever reach objects of the type they cast *)
(* the stored pointer to.                                                   *)
THEOREM TypeTagsHold == Spec => []TypeTagHolds
<1>1. TypeInv /\ Linked => TypeTagHolds
  <2> SUFFICES ASSUME TypeInv, Linked, NEW t \in Threads
               PROVE  /\ pc[t] \in {"close", "remove", "clear"} => kind[call[t].obj] = "config"
                      /\ At(t, "cancel") => kind[call[t].obj] = "context"
                      /\ \A x \in held[t] : kind[x.obj] = x.typ
    BY DEF TypeTagHolds
  <2>1. \A h \in 1 .. nextID : kind[past[h].obj] = past[h].typ
    BY DEF Linked, RegistryLinked
  <2>2. HookLinked(t) /\ HeldLinked(t)
    BY DEF Linked
  <2>3. ASSUME pc[t] \in {"close", "remove", "clear", "cancel"}
        PROVE  kind[call[t].obj] = call[t].typ
    <3>1. /\ call[t].h \in 1 .. nextID
          /\ past[call[t].h].typ = call[t].typ /\ past[call[t].h].obj = call[t].obj
      BY <2>2, <2>3 DEF HookLinked, IsHook
    <3> QED
      BY <2>1, <3>1
  <2>4. pc[t] \in {"close", "remove", "clear"} => kind[call[t].obj] = "config"
    BY <2>2, <2>3 DEF HookLinked
  <2>5. At(t, "cancel") => kind[call[t].obj] = "context"
    BY <2>2, <2>3 DEF HookLinked, At
  <2>6. ASSUME NEW x \in held[t] PROVE kind[x.obj] = x.typ
    <3>1. x.h \in 1 .. nextID /\ past[x.h].typ = x.typ /\ past[x.h].obj = x.obj
      BY <2>2 DEF HeldLinked
    <3> QED
      BY <2>1, <3>1
  <2> QED
    BY <2>4, <2>5, <2>6
<1> QED
  BY <1>1, TypeInvInductive, LinkedInductive, PTL DEF Spec
-----------------------------------------------------------------------------
(* An object whose construction panicked is out of reach for good: no       *)
(* handle was issued for it, and nobody makes it again.                     *)
LostApart ==
  /\ \A o \in lost : kind[o] # "none"
  /\ \A h \in 1 .. nextID : past[h].obj \notin lost
  /\ \A t \in Threads : IsBuilder(t) => call[t].obj \notin lost

LEMMA NewKeepsApart ==
  ASSUME TypeInv, Linked, LostApart, NEW t \in Threads, New(t)
  PROVE  LostApart'
<1>1. ASSUME NEW o \in Objects, NEW typ \in Type, NEW inline \in BOOLEAN,
             StartNew(t, o, typ, inline)
      PROVE  LostApart'
  <2>1. /\ kind[o] = "none" /\ kind' = [kind EXCEPT ![o] = typ] /\ typ # "none"
        /\ call'[t].obj = o
        /\ \A u \in Threads \ {t} : pc'[u] = pc[u] /\ call'[u] = call[u]
        /\ UNCHANGED <<nextID, past, lost>>
    BY <1>1 DEF StartNew, Begin, Goto, regVars, histVars, TypeInv, TypeOK, Type, Registry!Type
  <2> QED
    BY <2>1 DEF LostApart, IsBuilder, TypeInv, TypeOK
<1>2. CASE BuildOK(t)
  <2>1. /\ IsBuilder(t) /\ \A u \in Threads \ {t} : pc'[u] = pc[u]
        /\ UNCHANGED <<nextID, past, lost, kind, call>>
    BY <1>2 DEF BuildOK, At, Goto, IsBuilder, regVars, histVars, TypeInv, TypeOK
  <2> QED
    BY <2>1 DEF LostApart, IsBuilder
<1>3. CASE BuildFails(t)
  <2>1. /\ IsBuilder(t) /\ pc'[t] = "idle" /\ kind' = [kind EXCEPT ![call[t].obj] = "none"]
        /\ \A u \in Threads \ {t} : pc'[u] = pc[u] /\ call'[u] = call[u]
        /\ UNCHANGED <<nextID, past, lost>>
    BY <1>3 DEF BuildFails, At, Return, Goto, IsBuilder, regVars, histVars, TypeInv, TypeOK
  <2> QED
    BY <2>1 DEF LostApart, IsBuilder, TypeInv, TypeOK
<1>4. CASE BuildPanics(t)
  <2>1. /\ IsBuilder(t) /\ pc'[t] = "idle" /\ lost' = lost \cup {call[t].obj}
        /\ \A u \in Threads \ {t} : pc'[u] = pc[u] /\ call'[u] = call[u]
        /\ UNCHANGED <<nextID, past, kind>>
    BY <1>4 DEF BuildPanics, At, Return, Goto, IsBuilder, regVars, heapVars, TypeInv, TypeOK
  <2>2. /\ kind[call[t].obj] # "none"
        /\ \A h \in 1 .. nextID : past[h].obj # call[t].obj
        /\ \A u \in Threads \ {t} : IsBuilder(u) => call[u].obj # call[t].obj
    BY <2>1 DEF Linked, BuilderLinked, TypeInv, TypeOK, Call, Type, Registry!Type
  <2> QED
    BY <2>1, <2>2 DEF LostApart, IsBuilder
<1>5. CASE PutNew(t)
  <2> DEFINE n == nextID + 1
  <2>1. /\ IsBuilder(t) /\ pc'[t] = "idle" /\ nextID \in Nat /\ nextID' = n
        /\ \A u \in Threads \ {t} : pc'[u] = pc[u] /\ call'[u] = call[u]
        /\ past' = [h \in DOMAIN past \cup {n} |->
                      IF h = n THEN [typ |-> call[t].typ, obj |-> call[t].obj] ELSE past[h]]
        /\ UNCHANGED <<kind, lost>>
    BY <1>5 DEF PutNew, Registry!Put, At, Return, Goto, IsBuilder, heapVars,
                TypeInv, TypeOK, Registry!RegTypeOK
  <2>2. /\ DOMAIN past = 1 .. nextID /\ n \notin 1 .. nextID
        /\ 1 .. nextID' = 1 .. nextID \cup {n}
    BY <2>1 DEF TypeInv, TypeOK
  <2>3. past'[n].obj = call[t].obj /\ \A h \in 1 .. nextID : past'[h] = past[h]
    BY <2>1, <2>2
  <2> HIDE DEF n
  <2>4. \A h \in 1 .. nextID' : past'[h].obj \notin lost
    BY <2>1, <2>2, <2>3 DEF LostApart
  <2>5. \A u \in Threads : IsBuilder(u)' => call'[u].obj \notin lost
    BY <2>1 DEF LostApart, IsBuilder
  <2> QED
    BY <2>1, <2>4, <2>5 DEF LostApart
<1> QED
  BY <1>1, <1>2, <1>3, <1>4, <1>5 DEF New

LEMMA ApartInductive ==
  /\ Init => LostApart
  /\ TypeInv /\ Linked /\ LostApart /\ [Next]_vars => LostApart'
<1>1. Init => LostApart
  BY DEF Init, LostApart, Registry!RegInit, IsBuilder
<1>2. ASSUME TypeInv, Linked, LostApart, NEW t \in Threads, Free(t) \/ Use(t)
      PROVE  LostApart'
  <2>1. /\ UNCHANGED <<nextID, kind, past, lost>>
        /\ ~ IsBuilder(t)'
        /\ \A u \in Threads \ {t} : pc'[u] = pc[u] /\ call'[u] = call[u]
    <3> USE DEF Goto, IsBuilder, regVars, heapVars, histVars, TypeInv, TypeOK
    <3>1. CASE \/ LookupMisses(t) \/ CloseTorn(t) \/ CancelContext(t)
               \/ ResolveMisses(t) \/ Finish(t)
      <4>1. UNCHANGED <<nextID, kind, past, lost>> /\ \E result : Return(t, result)
        BY <1>2, <3>1 DEF LookupMisses, CloseTorn, CancelContext, ResolveMisses, Finish
      <4> QED
        BY <1>2, <4>1 DEF Return
    <3>2. CASE LookupHits(t) \/ ResolveHits(t)
      BY <1>2, <3>2 DEF LookupHits, ResolveHits
    <3>3. CASE CloseCheck(t) \/ CloseRemove(t) \/ CloseClear(t) \/ CancelHook(t)
      BY <1>2, <3>3 DEF CloseCheck, CloseRemove, CloseClear, CancelHook
    <3>4. CASE TypedRelease(t) \/ HandleRelease(t)
      <4>1. UNCHANGED <<nextID, kind, past, lost>> /\ \E result : Return(t, result)
        BY <1>2, <3>4 DEF TypedRelease, HandleRelease, Registry!FreeTyped, Registry!Free
      <4> QED
        BY <1>2, <4>1 DEF Return
    <3>5. ASSUME NEW op \in FreeOps \cup {"cancel"}, NEW h \in Handle, NEW typ \in Type,
                 Start(t, op, h, typ)
          PROVE  /\ UNCHANGED <<nextID, kind, past, lost>>
                 /\ ~ IsBuilder(t)'
                 /\ \A u \in Threads \ {t} : pc'[u] = pc[u] /\ call'[u] = call[u]
      BY <1>2, <3>5 DEF Start, FirstStep, Begin
    <3>6. ASSUME NEW req \in Requests, StartUse(t, req)
          PROVE  /\ UNCHANGED <<nextID, kind, past, lost>>
                 /\ ~ IsBuilder(t)'
                 /\ \A u \in Threads \ {t} : pc'[u] = pc[u] /\ call'[u] = call[u]
      BY <1>2, <3>6 DEF StartUse, Begin
    <3> QED
      BY <1>2, <3>1, <3>2, <3>3, <3>4, <3>5, <3>6 DEF Free, Use
  <2> QED
    BY <1>2, <2>1 DEF LostApart, IsBuilder
<1>3. ASSUME LostApart, UNCHANGED vars
      PROVE  LostApart'
  BY <1>3 DEF LostApart, IsBuilder, vars, regVars, heapVars, callVars, histVars
<1> QED
  BY <1>1, <1>2, <1>3, NewKeepsApart DEF Next

-----------------------------------------------------------------------------
(* Layer 3: clean-up. A free that is about to release a handle has already  *)
(* removed the file, or cancelled the context, behind it; and nobody puts   *)
(* the file back, since only the creation of an object writes it.           *)

ReleaseClean(t) ==
  /\ pc[t] = "clear" => call[t].obj \notin disk
  /\ pc[t] = "release" /\ call[t].op = "free" =>
       /\ call[t].typ = "config"  => call[t].obj \notin disk
       /\ call[t].typ = "context" => call[t].obj \in cancelled

FilesOwned ==
  /\ disk \subseteq content
  /\ \A o \in content : kind[o] = "config"
  /\ \A o \in disk :
       \/ o \in temp
       \/ \E t \in Threads : pc[t] = "build" /\ call[t].obj = o
       \/ o \in lost

Clean ==
  /\ FilesOwned
  /\ \A t \in Threads : ReleaseClean(t)
  /\ NoOrphanKubeconfig
  /\ FreedContextIsCancelled

(* A step that only moves thread t, which is not building, or ends its call.*)
LEMMA MoveClean ==
  ASSUME TypeInv, Clean, NEW t \in Threads, ~ IsBuilder(t),
         UNCHANGED <<heapVars, past, typedFreed, lost>>,
         \A u \in Threads \ {t} : pc'[u] = pc[u] /\ call'[u] = call[u],
         ReleaseClean(t)'
  PROVE  Clean'
<1>1. FilesOwned'
  BY DEF Clean, FilesOwned, heapVars, IsBuilder
<1>2. \A u \in Threads : ReleaseClean(u)'
  BY DEF Clean, ReleaseClean, heapVars
<1>3. NoOrphanKubeconfig'
  BY DEF Clean, NoOrphanKubeconfig, heapVars, IsBuilder
<1>4. FreedContextIsCancelled'
  BY DEF Clean, FreedContextIsCancelled, heapVars
<1> QED
  BY <1>1, <1>2, <1>3, <1>4 DEF Clean

LEMMA ReturnClean ==
  ASSUME TypeInv, Clean, NEW t \in Threads, ~ IsBuilder(t), NEW result, Return(t, result),
         UNCHANGED <<heapVars, past, typedFreed, lost>>
  PROVE  Clean'
<1>1. pc'[t] = "idle"
  BY DEF Return, Goto, TypeInv, TypeOK
<1>2. ReleaseClean(t)'
  BY <1>1 DEF ReleaseClean
<1> QED
  BY <1>2, MoveClean DEF Return, Goto, TypeInv, TypeOK

(* What a hook works on exists: it is not the object being made, and its    *)
(* kind is the type the free asked for.                                     *)
LEMMA HookObject ==
  ASSUME TypeInv, Linked, NEW t \in Threads, IsHook(t)
  PROVE  /\ call[t].obj \in Objects
         /\ kind[call[t].obj] = call[t].typ /\ call[t].typ \in Type
         /\ \A u \in Threads : IsBuilder(u) => call[u].obj # call[t].obj
BY DEF TypeInv, TypeOK, Call, Linked, HookLinked, BuilderLinked, RegistryLinked

LEMMA StartNewClean ==
  ASSUME TypeInv, Linked, Clean, NEW t \in Threads,
         NEW o \in Objects, NEW typ \in Type, NEW inline \in BOOLEAN,
         StartNew(t, o, typ, inline)
  PROVE  Clean'
<1>1. /\ pc[t] = "idle" /\ pc'[t] = "build" /\ call'[t].obj = o
      /\ \A u \in Threads \ {t} : pc'[u] = pc[u] /\ call'[u] = call[u]
      /\ kind[o] = "none" /\ kind' = [kind EXCEPT ![o] = typ]
      /\ inline => typ = "config"
      /\ content' = IF inline THEN content \cup {o} ELSE content
      /\ disk' = IF inline THEN disk \cup {o} ELSE disk
      /\ UNCHANGED <<temp, cancelled, past, typedFreed, lost>>
  BY DEF StartNew, Begin, Goto, At, histVars, TypeInv, TypeOK
<1>2. o \notin content
  BY <1>1 DEF Clean, FilesOwned
<1>3. FilesOwned'
  <2>1. disk' \subseteq content'
    BY <1>1 DEF Clean, FilesOwned
  <2>2. \A x \in content' : kind'[x] = "config"
    BY <1>1, <1>2 DEF Clean, FilesOwned, TypeInv, TypeOK
  <2>3. \A x \in disk' : \/ x \in temp' \cup lost'
                         \/ \E u \in Threads : pc'[u] = "build" /\ call'[u].obj = x
    BY <1>1 DEF Clean, FilesOwned
  <2> QED
    BY <2>1, <2>2, <2>3 DEF FilesOwned
<1>4. ASSUME NEW u \in Threads
      PROVE  ReleaseClean(u)'
  <2>1. CASE u = t
    BY <1>1, <2>1 DEF ReleaseClean
  <2>2. CASE u # t
    <3>1. IsHook(u) => call[u].obj # o
      BY <1>1, HookObject DEF Type, Registry!Type
    <3> QED
      BY <1>1, <2>2, <3>1 DEF Clean, ReleaseClean, IsHook
  <2> QED
    BY <2>1, <2>2
<1>5. NoOrphanKubeconfig'
  BY <1>1 DEF Clean, NoOrphanKubeconfig
<1>6. FreedContextIsCancelled'
  BY <1>1 DEF Clean, FreedContextIsCancelled
<1> QED
  BY <1>3, <1>4, <1>5, <1>6 DEF Clean

LEMMA BuildOKClean ==
  ASSUME TypeInv, Linked, Clean, NEW t \in Threads, BuildOK(t)
  PROVE  Clean'
<1>1. /\ pc[t] = "build" /\ pc'[t] = "put"
      /\ \A u \in Threads \ {t} : pc'[u] = pc[u]
      /\ temp' = IF call[t].obj \in content THEN temp \cup {call[t].obj} ELSE temp
      /\ UNCHANGED <<call, kind, content, disk, cancelled, past, typedFreed, lost>>
  BY DEF BuildOK, At, Goto, histVars, TypeInv, TypeOK
<1>2. FilesOwned'
  BY <1>1 DEF Clean, FilesOwned
<1>3. \A u \in Threads : ReleaseClean(u)'
  BY <1>1 DEF Clean, ReleaseClean
<1>4. NoOrphanKubeconfig'
  BY <1>1 DEF Clean, NoOrphanKubeconfig
<1>5. FreedContextIsCancelled'
  BY <1>1 DEF Clean, FreedContextIsCancelled
<1> QED
  BY <1>2, <1>3, <1>4, <1>5 DEF Clean

LEMMA BuildFailsClean ==
  ASSUME TypeInv, Linked, Clean, NEW t \in Threads, BuildFails(t)
  PROVE  Clean'
<1> DEFINE o == call[t].obj
<1>1. /\ pc[t] = "build" /\ pc'[t] = "idle"
      /\ \A u \in Threads \ {t} : pc'[u] = pc[u] /\ call'[u] = call[u]
      /\ kind' = [kind EXCEPT ![o] = "none"]
      /\ content' = content \ {o} /\ disk' = disk \ {o}
      /\ UNCHANGED <<temp, cancelled, past, typedFreed, lost>>
  BY DEF BuildFails, At, Return, Goto, histVars, TypeInv, TypeOK
<1>2. FilesOwned'
  <2>1. disk' \subseteq content'
    BY <1>1 DEF Clean, FilesOwned
  <2>2. \A x \in content' : x \in Objects /\ x # o /\ kind'[x] = "config"
    BY <1>1 DEF Clean, FilesOwned, TypeInv, TypeOK
  <2>3. \A x \in disk' : x # o /\ x \in disk
    BY <1>1
  <2>4. \A x \in disk' : \/ x \in temp' \cup lost'
                         \/ \E u \in Threads : pc'[u] = "build" /\ call'[u].obj = x
    BY <1>1, <2>3 DEF Clean, FilesOwned
  <2> QED
    BY <2>1, <2>2, <2>4 DEF FilesOwned
<1>3. \A u \in Threads : ReleaseClean(u)'
  BY <1>1 DEF Clean, ReleaseClean
<1>4. NoOrphanKubeconfig'
  BY <1>1 DEF Clean, NoOrphanKubeconfig
<1>5. FreedContextIsCancelled'
  BY <1>1 DEF Clean, FreedContextIsCancelled
<1> QED
  BY <1>2, <1>3, <1>4, <1>5 DEF Clean

LEMMA BuildPanicsClean ==
  ASSUME TypeInv, Clean, NEW t \in Threads, BuildPanics(t)
  PROVE  Clean'
<1>1. /\ pc[t] = "build" /\ pc'[t] = "idle" /\ lost' = lost \cup {call[t].obj}
      /\ \A u \in Threads \ {t} : pc'[u] = pc[u] /\ call'[u] = call[u]
      /\ UNCHANGED <<kind, content, temp, disk, cancelled, past, typedFreed>>
  BY DEF BuildPanics, At, Return, Goto, heapVars, TypeInv, TypeOK
<1>2. FilesOwned'
  BY <1>1 DEF Clean, FilesOwned
<1>3. \A u \in Threads : ReleaseClean(u)'
  BY <1>1 DEF Clean, ReleaseClean
<1>4. NoOrphanKubeconfig'
  BY <1>1 DEF Clean, NoOrphanKubeconfig
<1>5. FreedContextIsCancelled'
  BY <1>1 DEF Clean, FreedContextIsCancelled
<1> QED
  BY <1>2, <1>3, <1>4, <1>5 DEF Clean

LEMMA PutNewClean ==
  ASSUME TypeInv, Linked, Clean, NEW t \in Threads, PutNew(t)
  PROVE  Clean'
<1> DEFINE n == nextID + 1
<1>1. /\ nextID \in Nat /\ nextID' = n
      /\ past' = [h \in DOMAIN past \cup {n} |->
                    IF h = n THEN [typ |-> call[t].typ, obj |-> call[t].obj] ELSE past[h]]
      /\ UNCHANGED <<kind, content, temp, disk, cancelled, typedFreed, lost>>
  BY DEF PutNew, Registry!Put, TypeInv, TypeOK, Registry!RegTypeOK, heapVars
<1>2. /\ pc[t] = "put" /\ pc'[t] = "idle"
      /\ \A u \in Threads \ {t} : pc'[u] = pc[u] /\ call'[u] = call[u]
  BY DEF PutNew, At, Return, Goto, TypeInv, TypeOK
<1>3. DOMAIN past = 1 .. nextID /\ typedFreed \subseteq 1 .. nextID /\ n \notin 1 .. nextID
  BY <1>1 DEF TypeInv, TypeOK
<1>4. /\ n \in DOMAIN past' /\ past'[n].obj = call[t].obj /\ n \notin typedFreed'
      /\ \A h \in DOMAIN past : h \in DOMAIN past' /\ past'[h] = past[h]
  BY <1>1, <1>3
<1> HIDE DEF n
<1>5. FilesOwned'
  BY <1>1, <1>2 DEF Clean, FilesOwned
<1>6. \A u \in Threads : ReleaseClean(u)'
  BY <1>1, <1>2 DEF Clean, ReleaseClean
<1>7. NoOrphanKubeconfig'
  <2> SUFFICES ASSUME NEW o \in disk
               PROVE  \/ \E u \in Threads : call'[u].obj = o /\ pc'[u] \in {"build", "put"}
                      \/ \E h \in DOMAIN past' : past'[h].obj = o /\ h \notin typedFreed'
                      \/ o \in lost'
    BY <1>1 DEF NoOrphanKubeconfig
  <2>1. CASE \E u \in Threads : call[u].obj = o /\ pc[u] \in {"build", "put"}
    BY <1>2, <1>4, <2>1
  <2>2. CASE \E h \in DOMAIN past : past[h].obj = o /\ h \notin typedFreed
    BY <1>1, <1>4, <2>2
  <2>3. CASE o \in lost
    BY <1>1, <2>3
  <2> QED
    BY <2>1, <2>2, <2>3 DEF Clean, NoOrphanKubeconfig
<1>8. FreedContextIsCancelled'
  BY <1>1, <1>3, <1>4 DEF Clean, FreedContextIsCancelled
<1> QED
  BY <1>5, <1>6, <1>7, <1>8 DEF Clean

LEMMA FreeKeepsClean ==
  ASSUME TypeInv, Linked, LostApart, Clean, NEW t \in Threads, Free(t)
  PROVE  Clean'
<1>1. ASSUME NEW op \in FreeOps \cup {"cancel"}, NEW h \in Handle, NEW typ \in Type,
             Start(t, op, h, typ)
      PROVE  Clean'
  <2>1. /\ pc[t] = "idle" /\ pc'[t] = FirstStep(op, typ)
        /\ call'[t].op = op /\ call'[t].typ = typ
        /\ \A u \in Threads \ {t} : pc'[u] = pc[u] /\ call'[u] = call[u]
        /\ UNCHANGED <<heapVars, past, typedFreed, lost>>
    BY <1>1 DEF Start, Begin, Goto, At, histVars, TypeInv, TypeOK
  <2>2. ReleaseClean(t)' /\ ~ IsBuilder(t)
    BY <2>1 DEF ReleaseClean, FirstStep, IsBuilder
  <2> QED
    BY <2>1, <2>2, MoveClean
<1>2. CASE LookupMisses(t)
  BY <1>2, ReturnClean DEF LookupMisses, At, IsBuilder, histVars
<1>3. CASE CloseTorn(t)
  BY <1>3, ReturnClean DEF CloseTorn, At, IsBuilder, histVars
<1>4. CASE LookupHits(t)
  <2>1. /\ pc[t] = "lookup" /\ pc'[t] \in {"close", "cancel"}
        /\ \A u \in Threads \ {t} : pc'[u] = pc[u] /\ call'[u] = call[u]
        /\ UNCHANGED <<heapVars, past, typedFreed, lost>>
    BY <1>4 DEF LookupHits, Goto, At, histVars, TypeInv, TypeOK
  <2>2. ReleaseClean(t)' /\ ~ IsBuilder(t)
    BY <2>1 DEF ReleaseClean, IsBuilder
  <2> QED
    BY <2>1, <2>2, MoveClean
<1>5. CASE CloseCheck(t)
  <2>1. /\ pc[t] = "close" /\ pc'[t] = IF call[t].obj \in temp THEN "remove" ELSE "release"
        /\ call' = call /\ \A u \in Threads \ {t} : pc'[u] = pc[u]
        /\ UNCHANGED <<heapVars, past, typedFreed, lost>>
    BY <1>5 DEF CloseCheck, Goto, At, histVars, TypeInv, TypeOK
  <2>2. IsHook(t) /\ call[t].typ = "config"
    BY <2>1 DEF IsHook, Linked, HookLinked
  <2>3. call[t].obj \notin temp => call[t].obj \notin disk
    <3>1. call[t].obj \notin lost
      BY <2>2 DEF Linked, HookLinked, LostApart
    <3> QED
      BY <2>2, <3>1, HookObject DEF Clean, FilesOwned, IsBuilder
  <2>4. ReleaseClean(t)' /\ ~ IsBuilder(t)
    BY <2>1, <2>2, <2>3 DEF ReleaseClean, IsBuilder, heapVars
  <2> QED
    BY <2>1, <2>4, MoveClean
<1>6. CASE CloseRemove(t)
  <2>1. /\ pc[t] = "remove" /\ pc'[t] = "clear" /\ disk' = disk \ {call[t].obj}
        /\ call' = call /\ \A u \in Threads \ {t} : pc'[u] = pc[u]
        /\ UNCHANGED <<kind, content, temp, cancelled, past, typedFreed, lost>>
    BY <1>6 DEF CloseRemove, Goto, At, histVars, TypeInv, TypeOK
  <2>2. FilesOwned' /\ NoOrphanKubeconfig'
    BY <2>1 DEF Clean, FilesOwned, NoOrphanKubeconfig
  <2>3. FreedContextIsCancelled' /\ \A u \in Threads : ReleaseClean(u)'
    BY <2>1 DEF Clean, FreedContextIsCancelled, ReleaseClean
  <2> QED
    BY <2>2, <2>3 DEF Clean
<1>7. CASE CloseClear(t)
  <2>1. /\ pc[t] = "clear" /\ pc'[t] = "release" /\ temp' = temp \ {call[t].obj}
        /\ call' = call /\ \A u \in Threads \ {t} : pc'[u] = pc[u]
        /\ UNCHANGED <<kind, content, disk, cancelled, past, typedFreed, lost>>
    BY <1>7 DEF CloseClear, Goto, At, histVars, TypeInv, TypeOK
  <2>2. call[t].obj \notin disk /\ call[t].typ = "config"
    BY <2>1 DEF Clean, ReleaseClean, Linked, HookLinked
  <2>3. FilesOwned' /\ NoOrphanKubeconfig'
    BY <2>1, <2>2 DEF Clean, FilesOwned, NoOrphanKubeconfig
  <2>4. FreedContextIsCancelled' /\ \A u \in Threads : ReleaseClean(u)'
    BY <2>1, <2>2 DEF Clean, FreedContextIsCancelled, ReleaseClean
  <2> QED
    BY <2>3, <2>4 DEF Clean
<1>8. CASE CancelHook(t) \/ CancelContext(t)
  <2>1. /\ pc[t] = "cancel" /\ pc'[t] \in {"idle", "release"}
        /\ cancelled' = cancelled \cup {call[t].obj}
        /\ pc'[t] = "release" => call'[t] = call[t]
        /\ \A u \in Threads \ {t} : pc'[u] = pc[u] /\ call'[u] = call[u]
        /\ UNCHANGED <<kind, content, temp, disk, past, typedFreed, lost>>
    BY <1>8 DEF CancelHook, CancelContext, Return, Goto, At, histVars, TypeInv, TypeOK
  <2>2. call[t].typ = "context"
    BY <2>1 DEF Linked, HookLinked
  <2>3. FilesOwned' /\ NoOrphanKubeconfig'
    BY <2>1 DEF Clean, FilesOwned, NoOrphanKubeconfig
  <2>4. FreedContextIsCancelled' /\ \A u \in Threads : ReleaseClean(u)'
    BY <2>1, <2>2 DEF Clean, FreedContextIsCancelled, ReleaseClean
  <2> QED
    BY <2>3, <2>4 DEF Clean
<1>9. CASE HandleRelease(t)
  BY <1>9, ReturnClean DEF HandleRelease, At, IsBuilder
<1>10. CASE TypedRelease(t)
  <2> DEFINE h == call[t].h
  <2>1. /\ pc[t] = "release" /\ call[t].op = "free" /\ pc'[t] = "idle"
        /\ \A u \in Threads \ {t} : pc'[u] = pc[u] /\ call'[u] = call[u]
        /\ \/ typedFreed' = typedFreed
           \/ /\ h \in DOMAIN entries /\ entries[h].typ = call[t].typ
              /\ typedFreed' = typedFreed \cup {h}
        /\ UNCHANGED <<kind, content, temp, disk, cancelled, past, lost>>
    BY <1>10, LookupOK DEF TypedRelease, Return, Goto, At, heapVars, TypeInv, TypeOK
  <2>2. ASSUME h \in DOMAIN entries, entries[h].typ = call[t].typ
        PROVE  /\ kind[past[h].obj] = call[t].typ /\ past[h].typ = call[t].typ
               /\ call[t].typ \in {"config", "context"} => past[h].obj = call[t].obj
    BY <2>1, <2>2 DEF Linked, RegistryLinked, HookLinked, IsHook,
                      TypeInv, TypeOK, Registry!RegTypeOK
  <2>3. FilesOwned' /\ \A u \in Threads : ReleaseClean(u)'
    BY <2>1 DEF Clean, FilesOwned, ReleaseClean
  <2>4. ASSUME h \in DOMAIN entries, entries[h].typ = call[t].typ
        PROVE  past[h].obj \notin disk
    BY <2>1, <2>2, <2>4 DEF Clean, FilesOwned, ReleaseClean
  <2>5. ASSUME h \in DOMAIN entries, entries[h].typ = call[t].typ, call[t].typ = "context"
        PROVE  past[h].obj \in cancelled
    BY <2>1, <2>2, <2>5 DEF Clean, ReleaseClean
  <2>6. NoOrphanKubeconfig'
    BY <2>1, <2>4 DEF Clean, NoOrphanKubeconfig
  <2>7. FreedContextIsCancelled'
    BY <2>1, <2>2, <2>5 DEF Clean, FreedContextIsCancelled
  <2> QED
    BY <2>3, <2>6, <2>7 DEF Clean
<1> QED
  BY <1>1, <1>2, <1>3, <1>4, <1>5, <1>6, <1>7, <1>8, <1>9, <1>10 DEF Free

LEMMA UseKeepsClean ==
  ASSUME TypeInv, Linked, Clean, NEW t \in Threads, Use(t)
  PROVE  Clean'
<1>1. ASSUME NEW req \in Requests, StartUse(t, req)
      PROVE  Clean'
  <2>1. /\ pc[t] = "idle" /\ pc'[t] \in {"run", "resolve"}
        /\ \A u \in Threads \ {t} : pc'[u] = pc[u] /\ call'[u] = call[u]
        /\ UNCHANGED <<heapVars, past, typedFreed, lost>>
    BY <1>1 DEF StartUse, Begin, Goto, At, histVars, TypeInv, TypeOK
  <2>2. ReleaseClean(t)' /\ ~ IsBuilder(t)
    BY <2>1 DEF ReleaseClean, IsBuilder
  <2> QED
    BY <2>1, <2>2, MoveClean
<1>2. CASE ResolveMisses(t) \/ Finish(t)
  BY <1>2, ReturnClean DEF ResolveMisses, Finish, At, IsBuilder, histVars
<1>3. CASE ResolveHits(t)
  <2>1. /\ pc[t] = "resolve" /\ pc'[t] \in {"run", "resolve"} /\ call' = call
        /\ \A u \in Threads \ {t} : pc'[u] = pc[u]
        /\ UNCHANGED <<heapVars, past, typedFreed, lost>>
    BY <1>3 DEF ResolveHits, Goto, At, histVars, TypeInv, TypeOK
  <2>2. ReleaseClean(t)' /\ ~ IsBuilder(t)
    BY <2>1 DEF ReleaseClean, IsBuilder
  <2> QED
    BY <2>1, <2>2, MoveClean
<1> QED
  BY <1>1, <1>2, <1>3 DEF Use

LEMMA CleanInductive ==
  /\ Init => Clean
  /\ TypeInv /\ Linked /\ LostApart /\ Clean /\ [Next]_vars => Clean'
<1>1. Init => Clean
  BY DEF Init, Clean, FilesOwned, ReleaseClean, NoOrphanKubeconfig, FreedContextIsCancelled
<1>2. TypeInv /\ Linked /\ LostApart /\ Clean /\ [Next]_vars => Clean'
  <2>1. ASSUME Clean, UNCHANGED vars
        PROVE  Clean'
    BY <2>1 DEF vars, heapVars, callVars, histVars, Clean, FilesOwned, ReleaseClean,
                NoOrphanKubeconfig, FreedContextIsCancelled
  <2> QED
    BY <2>1, StartNewClean, BuildOKClean, BuildFailsClean, BuildPanicsClean, PutNewClean,
       FreeKeepsClean, UseKeepsClean DEF Next, New
<1> QED
  BY <1>1, <1>2

(* No creation that returns an error and no race of helm_config_free calls  *)
(* leaves a private kubeconfig behind: the file goes before its handle does.*)
(* What is left, for good, is the file of a creation that panicked.         *)
THEOREM NoKubeconfigIsOrphaned == Spec => []NoOrphanKubeconfig
<1>1. Clean => NoOrphanKubeconfig
  BY DEF Clean
<1> QED
  BY <1>1, TypeInvInductive, LinkedInductive, ApartInductive, CleanInductive, PTL DEF Spec

(* However frees and cancels of one context race, the free that releases it *)
(* does so after the cancel func has run.                                   *)
THEOREM FreedContextsAreCancelled == Spec => []FreedContextIsCancelled
<1>1. Clean => FreedContextIsCancelled
  BY DEF Clean
<1> QED
  BY <1>1, TypeInvInductive, LinkedInductive, ApartInductive, CleanInductive, PTL DEF Spec
-----------------------------------------------------------------------------
(* A free of a handle that was already gone: it can neither be looked up    *)
(* nor released, so the call ends in InvalidHandle.                         *)

StaleMisses ==
  \A t \in Threads : call[t].stale =>
    \/ pc[t] \in {"lookup", "release"} /\ Freed(call[t].h)
    \/ pc[t] = "idle" /\ (call[t].op = "free" => code[t] = "InvalidHandle")

(* A freed handle misses whatever is asked of it. *)
LEMMA FreedMisses ==
  ASSUME TypeInv, Linked, NEW h, NEW typ, Freed(h)
  PROVE  Registry!LookupCode(h, typ) = "InvalidHandle" /\ Registry!FreeCode(h) = "InvalidHandle"
<1>1. h \notin DOMAIN entries
  BY DEF TypeInv, TypeOK, Registry!RegTypeOK, Linked, RegistryLinked
<1> QED
  BY <1>1 DEF Registry!LookupCode, Registry!FreeCode

(* What a step of thread t must show; a freed handle stays freed. *)
LEMMA StaleFrame ==
  ASSUME StaleMisses, NEW t \in Threads,
         \A u \in Threads \ {t} : pc'[u] = pc[u] /\ call'[u] = call[u] /\ code'[u] = code[u],
         \A h : Freed(h) => Freed(h)',
         call'[t].stale =>
           \/ pc'[t] \in {"lookup", "release"} /\ Freed(call[t].h)'
           \/ pc'[t] = "idle" /\ (call'[t].op = "free" => code'[t] = "InvalidHandle")
  PROVE  StaleMisses'
BY DEF StaleMisses

(* A call that returns was not stale, or returns InvalidHandle. *)
LEMMA StaleReturn ==
  ASSUME TypeInv, StaleMisses, NEW t \in Threads, NEW result, Return(t, result),
         \A h : Freed(h) => Freed(h)',
         call[t].stale /\ call[t].op \in FreeOps => result = "InvalidHandle"
  PROVE  StaleMisses'
<1>1. /\ \A u \in Threads \ {t} : pc'[u] = pc[u] /\ call'[u] = call[u] /\ code'[u] = code[u]
      /\ pc'[t] = "idle" /\ code'[t] = result
      /\ call'[t].stale => call[t].stale /\ call[t].op \in FreeOps
  BY DEF Return, Returned, NoCall, Goto, TypeInv, TypeOK
<1> QED
  BY <1>1, StaleFrame

LEMMA StepKeepsStale ==
  ASSUME TypeInv, Linked, StaleMisses, NEW t \in Threads, New(t) \/ Free(t) \/ Use(t)
  PROVE  StaleMisses'
<1>0. ~ (pc[t] \in PC \ {"idle", "lookup", "release"} /\ call[t].stale)
  BY DEF StaleMisses
<1>1. CASE \E op \in FreeOps \cup {"cancel"}, h \in Handle, typ \in Type : Start(t, op, h, typ)
  <2>1. PICK op \in FreeOps \cup {"cancel"}, h \in Handle, typ \in Type : Start(t, op, h, typ)
    BY <1>1
  <2>2. /\ pc'[t] = FirstStep(op, typ) /\ call'[t].h = h /\ call'[t].stale = Freed(h)
        /\ \A u \in Threads \ {t} : pc'[u] = pc[u] /\ call'[u] = call[u] /\ code'[u] = code[u]
        /\ \A x : Freed(x)' <=> Freed(x)
    BY <2>1 DEF Start, Begin, Goto, Freed, histVars, TypeInv, TypeOK
  <2> QED
    BY <2>2, StaleFrame DEF FirstStep
<1>2. CASE \/ \E o \in Objects, typ \in Type, inline \in BOOLEAN : StartNew(t, o, typ, inline)
           \/ \E req \in Requests : StartUse(t, req)
  <2>1. /\ call'[t].stale = FALSE
        /\ \A u \in Threads \ {t} : pc'[u] = pc[u] /\ call'[u] = call[u] /\ code'[u] = code[u]
        /\ \A x : Freed(x)' <=> Freed(x)
    BY <1>2 DEF StartNew, StartUse, Begin, Goto, Freed, histVars, TypeInv, TypeOK
  <2> QED
    BY <2>1, StaleFrame
<1>3. CASE BuildOK(t) \/ CloseCheck(t) \/ CloseRemove(t) \/ CloseClear(t) \/ CancelHook(t)
           \/ ResolveHits(t)
  <2>1. /\ pc[t] \in PC \ {"idle", "lookup", "release"} /\ call' = call /\ code' = code
        /\ \A u \in Threads \ {t} : pc'[u] = pc[u]
        /\ \A x : Freed(x)' <=> Freed(x)
    BY <1>3 DEF BuildOK, CloseCheck, CloseRemove, CloseClear, CancelHook, ResolveHits,
                At, Goto, PC, Freed, histVars, TypeInv, TypeOK
  <2> QED
    BY <1>0, <2>1, StaleFrame
<1>4. CASE \/ BuildFails(t) \/ BuildPanics(t) \/ CloseTorn(t) \/ CancelContext(t)
           \/ ResolveMisses(t) \/ Finish(t)
  <2>1. /\ pc[t] \in PC \ {"idle", "lookup", "release"} /\ \E result : Return(t, result)
        /\ \A x : Freed(x)' <=> Freed(x)
    BY <1>4 DEF BuildFails, BuildPanics, CloseTorn, CancelContext, ResolveMisses, Finish,
                At, PC, Freed, histVars
  <2> QED
    BY <1>0, <2>1, StaleReturn
<1>5. CASE PutNew(t)
  <2>1. /\ pc[t] \in PC \ {"idle", "lookup", "release"} /\ Return(t, "OK")
        /\ \A x : Freed(x)' <=> Freed(x)
    BY <1>5 DEF PutNew, At, PC, Freed
  <2> QED
    BY <1>0, <2>1, StaleReturn
<1>6. CASE LookupHits(t)
  <2>1. /\ pc[t] = "lookup" /\ ~ Freed(call[t].h) /\ call'[t].stale = call[t].stale
        /\ \A u \in Threads \ {t} : pc'[u] = pc[u] /\ call'[u] = call[u] /\ code'[u] = code[u]
        /\ \A x : Freed(x)' <=> Freed(x)
    BY <1>6, FreedMisses DEF LookupHits, At, Goto, Freed, histVars, TypeInv, TypeOK
  <2> QED
    BY <2>1, StaleFrame DEF StaleMisses
<1>7. CASE LookupMisses(t)
  <2>1. /\ pc[t] = "lookup" /\ \A x : Freed(x)' <=> Freed(x)
        /\ Return(t, Registry!LookupCode(call[t].h, call[t].typ))
    BY <1>7 DEF LookupMisses, At, Freed, histVars
  <2> QED
    BY <2>1, FreedMisses, StaleReturn DEF StaleMisses
<1>8. CASE TypedRelease(t)
  <2>1. /\ pc[t] = "release" /\ \A x : Freed(x) => Freed(x)'
        /\ Return(t, Registry!LookupCode(call[t].h, call[t].typ))
    BY <1>8 DEF TypedRelease, At, Freed
  <2> QED
    BY <2>1, FreedMisses, StaleReturn DEF StaleMisses
<1>9. CASE HandleRelease(t)
  <2>1. /\ pc[t] = "release" /\ \A x : Freed(x) => Freed(x)'
        /\ Return(t, Registry!FreeCode(call[t].h))
    BY <1>9 DEF HandleRelease, At, Freed
  <2> QED
    BY <2>1, FreedMisses, StaleReturn DEF StaleMisses
<1> QED
  BY <1>1, <1>2, <1>3, <1>4, <1>5, <1>6, <1>7, <1>8, <1>9 DEF New, Free, Use

(* Freeing twice is a miss: a free that began after another free had taken  *)
(* its handle returns InvalidHandle, whatever ran in between.               *)
THEOREM DoubleFreesMiss == Spec => []DoubleFreeMisses
<1>1. Init => StaleMisses
  BY DEF Init, NoCall, StaleMisses
<1>2. TypeInv /\ Linked /\ StaleMisses /\ [Next]_vars => StaleMisses'
  <2>1. ASSUME StaleMisses, UNCHANGED vars
        PROVE  StaleMisses'
    BY <2>1 DEF vars, callVars, histVars, StaleMisses, Freed
  <2> QED
    BY <2>1, StepKeepsStale DEF Next
<1>3. StaleMisses => DoubleFreeMisses
  BY DEF StaleMisses, DoubleFreeMisses, At
<1> QED
  BY <1>1, <1>2, <1>3, TypeInvInductive, LinkedInductive, PTL DEF Spec

-----------------------------------------------------------------------------
(* The shims drive the registry through its methods only. *)
LEMMA StepsAreRegistrySteps ==
  ASSUME TypeInv, NEW t \in Threads, New(t) \/ Free(t) \/ Use(t)
  PROVE  [Registry!RegNext]_(Registry!regVars)
<1>0. call[t].h \in 0 .. MaxID /\ call[t].typ \in Registry!Type
  BY DEF TypeInv, TypeOK, Call, Handle, Type
<1>1. CASE PutNew(t)
  <2>1. call[t].obj \in Objects /\ Registry!Put(call[t].typ, call[t].obj)
    BY <1>1 DEF PutNew, At, TypeInv, CallHasObject
  <2> QED
    BY <1>0, <2>1 DEF Registry!RegNext
<1>2. CASE TypedRelease(t)
  BY <1>0, <1>2 DEF TypedRelease, Registry!RegNext
<1>3. CASE HandleRelease(t)
  BY <1>0, <1>3 DEF HandleRelease, Registry!RegNext
<1>4. CASE UNCHANGED regVars
  BY <1>4 DEF regVars, Registry!regVars
<1>5. UNCHANGED regVars \/ PutNew(t) \/ TypedRelease(t) \/ HandleRelease(t)
  BY DEF New, Free, Use, StartNew, BuildOK, BuildFails, BuildPanics, Start, LookupMisses, LookupHits,
         CloseCheck, CloseRemove, CloseTorn, CloseClear, CancelHook, CancelContext,
         StartUse, ResolveMisses, ResolveHits, Finish
<1> QED
  BY <1>1, <1>2, <1>3, <1>4, <1>5

(* All shims together behave as one registry: whatever is proved of the     *)
(* registry on its own holds of it in their company.                        *)
THEOREM ShimsImplementRegistry == Spec => Registry!RegSpec
<1>1. Init => Registry!RegInit
  BY DEF Init
<1>2. TypeInv /\ [Next]_vars => [Registry!RegNext]_(Registry!regVars)
  BY StepsAreRegistrySteps DEF Next, vars, regVars, Registry!regVars
<1> QED
  BY <1>1, <1>2, TypeInvInductive, PTL DEF Spec, Registry!RegSpec

-----------------------------------------------------------------------------
(* The registry on its own, under any client. *)

(* The registry is well formed in every reachable state: every live id was  *)
(* issued, id 0 never is, each id holds one typed object (handles.go:42-68).*)
THEOREM RegistryTypeCorrect == Registry!RegSpec => []Registry!RegTypeOK
<1>1. Registry!RegInit => Registry!RegTypeOK
  BY ShimsAssumption DEF Registry!RegInit, Registry!RegTypeOK
<1>2. Registry!RegTypeOK /\ [Registry!RegNext]_(Registry!regVars) => Registry!RegTypeOK'
  <2> SUFFICES ASSUME Registry!RegTypeOK, [Registry!RegNext]_(Registry!regVars)
               PROVE  Registry!RegTypeOK'
    OBVIOUS
  <2>1. ASSUME NEW typ \in Registry!Type, NEW o \in Objects, Registry!Put(typ, o)
        PROVE  Registry!RegTypeOK'
    <3>1. nextID' = nextID + 1 /\ nextID' \in 0 .. MaxID
      BY <2>1, ShimsAssumption DEF Registry!Put, Registry!RegTypeOK
    <3>2. DOMAIN entries' = DOMAIN entries \cup {nextID + 1}
      BY <2>1 DEF Registry!Put
    <3>3. DOMAIN entries' \subseteq 1 .. nextID'
      BY <3>1, <3>2, ShimsAssumption DEF Registry!RegTypeOK
    <3>4. entries' \in [DOMAIN entries' -> Registry!Entry]
      BY <2>1, <3>2 DEF Registry!Put, Registry!RegTypeOK, Registry!Entry
    <3> QED
      BY <3>1, <3>3, <3>4 DEF Registry!RegTypeOK
  <2>2. ASSUME NEW h \in 0 .. MaxID, Registry!Free(h)
        PROVE  Registry!RegTypeOK'
    BY <2>2, FreeKeepsRegistry DEF Registry!Free
  <2>3. ASSUME NEW h \in 0 .. MaxID, NEW typ \in Registry!Type, Registry!FreeTyped(h, typ)
        PROVE  Registry!RegTypeOK'
    BY <2>3, FreeKeepsRegistry DEF Registry!FreeTyped
  <2>4. CASE UNCHANGED Registry!regVars
    BY <2>4 DEF Registry!regVars, Registry!RegTypeOK
  <2> QED
    BY <2>1, <2>2, <2>3, <2>4 DEF Registry!RegNext
<1> QED
  BY <1>1, <1>2, PTL DEF Registry!RegSpec

(* On the state of the registry alone, each of its steps is one the        *)
(* contract allows.                                                        *)
LEMMA RegistryStepsKeepContract ==
  ASSUME Registry!RegTypeOK, [Registry!RegNext]_(Registry!regVars)
  PROVE  [Contract!Next]_(Contract!vars)
<1>1. ASSUME NEW typ \in Registry!Type, NEW o \in Objects, Registry!Put(typ, o)
      PROVE  Contract!Next
  <2>1. /\ nextID + 1 \in Handle /\ nextID + 1 \notin 1 .. nextID \cup {0}
        /\ 1 .. nextID' = 1 .. nextID \cup {nextID + 1}
    BY <1>1, ShimsAssumption DEF Registry!Put, Registry!RegTypeOK, Handle
  <2>2. DOMAIN entries' = DOMAIN entries \cup {nextID + 1}
    BY <1>1 DEF Registry!Put
  <2>3. Contract!Issue(nextID + 1, o)
    BY <1>1, <2>1, <2>2 DEF Registry!Put, Contract!Issue
  <2> QED
    BY <2>1, <2>3 DEF Contract!Next
<1>2. ASSUME NEW h, nextID' = nextID, h \in DOMAIN entries, entries' = Registry!Without(h)
      PROVE  Contract!Next
  <2>1. DOMAIN entries' = DOMAIN entries \ {h}
    BY <1>2 DEF Registry!Without
  <2>2. Contract!Release(h)
    BY <1>2, <2>1 DEF Contract!Release, Registry!Without
  <2> QED
    BY <1>2, <2>2 DEF Contract!Next
<1>3. ASSUME UNCHANGED <<nextID, entries>> PROVE UNCHANGED Contract!vars
  BY <1>3 DEF Contract!vars
<1>4. ASSUME NEW h \in 0 .. MaxID, Registry!Free(h)
      PROVE  [Contract!Next]_(Contract!vars)
  BY <1>2, <1>3, <1>4 DEF Registry!Free, Registry!FreeCode
<1>5. ASSUME NEW h \in 0 .. MaxID, NEW typ \in Registry!Type, Registry!FreeTyped(h, typ)
      PROVE  [Contract!Next]_(Contract!vars)
  BY <1>2, <1>3, <1>5 DEF Registry!FreeTyped, Registry!LookupCode
<1> QED
  BY <1>1, <1>3, <1>4, <1>5 DEF Registry!RegNext, Registry!regVars

(* The registry implements the handle contract: ids are issued once, never  *)
(* 0, bound to one object and released once. A stale handle can therefore   *)
(* only miss (handles.go:47-48, DESIGN.md 1).                               *)
THEOREM RegistryImplementsContract == Registry!RegSpec => ImplementsContract
<1>1. Registry!RegInit => Contract!Init
  BY ShimsAssumption DEF Registry!RegInit, Contract!Init
<1>2. Registry!RegTypeOK /\ [Registry!RegNext]_(Registry!regVars)
        => [Contract!Next]_(Contract!vars)
  BY RegistryStepsKeepContract
<1> QED
  BY <1>1, <1>2, RegistryTypeCorrect, PTL
     DEF Registry!RegSpec, ImplementsContract, Contract!Spec

-----------------------------------------------------------------------------
(* From the C functions down to the contract: whatever calls race, an id    *)
(* is issued once, never 0, stands for one object, and is released at most  *)
(* once (handles.go:47-48, DESIGN.md 1).                                    *)
THEOREM ShimsKeepContract == Spec => ImplementsContract
BY ShimsImplementRegistry, RegistryImplementsContract

(* What that contract means to a host: a handle that was released stays     *)
(* dead, and one that is live stands for what it always did, under any      *)
(* races of creating and freeing others.                                    *)
THEOREM HandlesAreForGood == Spec => Contract!ForGood
<1>1. Contract!Init => Contract!Issued
  BY DEF Contract!Init, Contract!Issued
<1>2. Contract!Issued /\ [Contract!Next]_(Contract!vars) => Contract!Issued'
  BY DEF Contract!Issued, Contract!Next, Contract!Issue, Contract!Release, Contract!vars
<1>3. ASSUME Contract!Issued, [Contract!Next]_(Contract!vars)
      PROVE  Contract!NoneReturns \/ UNCHANGED Contract!vars
  BY <1>3 DEF Contract!Issued, Contract!Next, Contract!Issue, Contract!Release, Contract!NoneReturns
<1>4. Contract!Issued /\ [Contract!Next]_(Contract!vars)
        => [Contract!NoneReturns]_(Contract!vars)
  BY <1>3
<1> QED
  BY <1>1, <1>2, <1>4, ShimsKeepContract, PTL
     DEF ImplementsContract, Contract!Spec, Contract!ForGood

-----------------------------------------------------------------------------
(* The leak probe. *)

(* The registry instance has its own copy of Cardinality. *)
LEMMA SameCardinality == \A S : Registry!Cardinality(S) = Cardinality(S)
BY DEF Cardinality, Registry!Cardinality

LEMMA EntriesFinite ==
  ASSUME TypeInv
  PROVE  IsFiniteSet(DOMAIN entries) /\ Registry!Count \in Nat
<1>1. nextID \in Nat /\ DOMAIN entries \subseteq 1 .. nextID
  BY ShimsAssumption DEF TypeInv, TypeOK, Registry!RegTypeOK
<1>2. IsFiniteSet(1 .. nextID)
  BY <1>1, FS_Interval
<1>3. IsFiniteSet(DOMAIN entries)
  BY <1>1, <1>2, FS_Subset
<1> QED
  BY <1>3, FS_CardinalityType, SameCardinality DEF Registry!Count

(* A successful release takes one handle out; a failed one takes none. *)
LEMMA ReleaseBalances ==
  ASSUME TypeInv, LeakProbeBalances, nextID' = nextID, NEW h,
         \/ /\ h \in DOMAIN entries /\ entries' = Registry!Without(h)
            /\ okFrees' = okFrees + 1
         \/ entries' = entries /\ okFrees' = okFrees
  PROVE  LeakProbeBalances'
<1>1. CASE entries' = entries /\ okFrees' = okFrees
  BY <1>1 DEF LeakProbeBalances, Registry!Count
<1>2. CASE /\ h \in DOMAIN entries /\ entries' = Registry!Without(h)
           /\ okFrees' = okFrees + 1
  <2>1. DOMAIN entries' = DOMAIN entries \ {h}
    BY <1>2 DEF Registry!Without
  <2>2. Cardinality(DOMAIN entries') = Cardinality(DOMAIN entries) - 1
    BY <1>2, <2>1, EntriesFinite, FS_RemoveElement
  <2>3. okFrees \in Nat /\ Cardinality(DOMAIN entries) \in Nat /\ nextID \in Nat
    BY EntriesFinite, SameCardinality, ShimsAssumption DEF Registry!Count, TypeInv, TypeOK, Registry!RegTypeOK
  <2> QED
    BY <1>2, <2>2, <2>3, SameCardinality DEF LeakProbeBalances, Registry!Count
<1> QED
  BY <1>1, <1>2

LEMMA PutBalances ==
  ASSUME TypeInv, LeakProbeBalances, NEW t, PutNew(t)
  PROVE  LeakProbeBalances'
<1>1. /\ nextID \in Nat /\ nextID' = nextID + 1 /\ okFrees' = okFrees
      /\ DOMAIN entries' = DOMAIN entries \cup {nextID + 1}
  BY ShimsAssumption DEF PutNew, Registry!Put, TypeInv, TypeOK, Registry!RegTypeOK
<1>2. nextID + 1 \notin DOMAIN entries
  BY <1>1 DEF TypeInv, TypeOK, Registry!RegTypeOK
<1>3. Cardinality(DOMAIN entries') = Cardinality(DOMAIN entries) + 1
  BY <1>1, <1>2, EntriesFinite, FS_AddElement
<1>4. okFrees \in Nat /\ Cardinality(DOMAIN entries) \in Nat
  BY EntriesFinite, SameCardinality DEF Registry!Count, TypeInv, TypeOK
<1> QED
  BY <1>1, <1>3, <1>4, SameCardinality DEF LeakProbeBalances, Registry!Count

(* The leak probe is exact: of all the frees that race for a handle, typed  *)
(* or not, exactly one reports success.                                     *)
THEOREM LeakProbeIsExact == Spec => []LeakProbeBalances
<1>1. Init => LeakProbeBalances
  BY FS_EmptySet, SameCardinality DEF Init, Registry!RegInit, LeakProbeBalances, Registry!Count
<1>2. TypeInv /\ LeakProbeBalances /\ [Next]_vars => LeakProbeBalances'
  <2> SUFFICES ASSUME TypeInv, LeakProbeBalances, [Next]_vars
               PROVE  LeakProbeBalances'
    OBVIOUS
  <2>1. CASE UNCHANGED <<nextID, entries, okFrees>>
    BY <2>1 DEF LeakProbeBalances, Registry!Count
  <2>2. ASSUME NEW t \in Threads, TypedRelease(t)
        PROVE  LeakProbeBalances'
    BY <2>2, ReleaseBalances, LookupOK DEF TypedRelease, Registry!FreeTyped
  <2>3. ASSUME NEW t \in Threads, HandleRelease(t)
        PROVE  LeakProbeBalances'
    BY <2>3, ReleaseBalances DEF HandleRelease, Registry!Free, Registry!FreeCode
  <2>4. ASSUME NEW t \in Threads, New(t) \/ Free(t) \/ Use(t)
        PROVE  UNCHANGED <<nextID, entries, okFrees>>
               \/ PutNew(t) \/ TypedRelease(t) \/ HandleRelease(t)
    BY <2>4 DEF New, Free, Use, StartNew, BuildOK, BuildFails, BuildPanics, Start, LookupMisses, LookupHits,
         CloseCheck, CloseRemove, CloseTorn, CloseClear, CancelHook, CancelContext,
         StartUse, ResolveMisses, ResolveHits, Finish, regVars, histVars
  <2>5. CASE UNCHANGED vars
    BY <2>1, <2>5 DEF vars, regVars, histVars
  <2> QED
    BY <2>1, <2>2, <2>3, <2>4, <2>5, PutBalances DEF Next
<1> QED
  BY <1>1, <1>2, TypeInvInductive, PTL DEF Spec
=============================================================================
