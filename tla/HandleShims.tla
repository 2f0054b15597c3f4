---------------------------- MODULE HandleShims ----------------------------
(***************************************************************************)
(* The C shims of capi/ that create, resolve, use and free handles, called *)
(* concurrently from any host thread or GC finalizer.                      *)
(*                                                                         *)
(* Only the registry's methods are atomic. A shim is a sequence of them    *)
(* with Go code in between, so the steps of two shims interleave: a typed  *)
(* free looks its object up, runs a hook on it (Config.Close, or a         *)
(* context's cancel func) and only then takes the handle out (extra.go,    *)
(* freeTyped); an action resolves its handles one by one and keeps using   *)
(* the objects after other threads have freed them.                        *)
(***************************************************************************)
EXTENDS Naturals, Sequences, FiniteSets

CONSTANTS
  Threads,   \* host threads that call into the library
  Objects,   \* bound: the Go objects the calls may create
  NoObject,  \* "no object" in a call record
  MaxID      \* bound: handles issued, and the largest id a host passes

ASSUME ShimsAssumption ==
  /\ NoObject \notin Objects
  /\ MaxID \in Nat

VARIABLES
  nextID, entries,   \* the handle registry
  kind,              \* the type of each Go object, "none" before it exists
  content,           \* Configs built from kubeconfig_content: their options
                     \* name a private temp file for good (config.go:136-144)
  temp,              \* Configs whose tempKubeconfig field is not ""
  disk,              \* Configs whose private temp file is on disk
  cancelled,         \* ctxEntries whose cancel func has run
  pc,                \* where in its call each thread is
  call,              \* the call: its operation, handle argument and object
  todo, held,        \* handle arguments still to resolve; those resolved
  code,              \* what each thread's last call returned
  past,              \* history: what each issued handle was issued for
  typedFreed,        \* history: handles a typed free released
  handleFreed,       \* history: handles helm_handle_free released
  okFrees,           \* history: frees that have returned HELM_OK
  lost               \* history: objects whose construction panicked

regVars  == <<nextID, entries>>
heapVars == <<kind, content, temp, disk, cancelled>>
callVars == <<pc, call, todo, held, code>>
histVars == <<past, typedFreed, handleFreed, okFrees, lost>>
vars     == <<regVars, heapVars, callVars, histVars>>

Registry == INSTANCE HandleRegistry

Type == Registry!Type

Handle == 0 .. MaxID                     \* what a host may pass: 0, live, stale, made up

Wanted == [h : Handle, typ : Type]       \* a handle argument and the type it must have

Held == [h : Handle, typ : Type, obj : Objects]

PC == {"idle", "build", "put", "lookup", "close", "remove", "clear", "cancel",
       "release", "resolve", "run"}

Op == {"none", "new", "free", "handle_free", "cancel", "use"}

FreeOps == {"free", "handle_free"}

Code == {"OK", "InvalidHandle", "WrongHandleType", "Panic", "Failed"}

(* stale: the handle had already been released when the call began. *)
Call == [op : Op, typ : Type, h : Handle, obj : Objects \cup {NoObject}, stale : BOOLEAN]

NoCall == [op |-> "none", typ |-> "chart", h |-> 0, obj |-> NoObject, stale |-> FALSE]

Freed(h) == h \in typedFreed \cup handleFreed

At(t, l) == pc[t] = l

Goto(t, l) == pc' = [pc EXCEPT ![t] = l]

(* Thread t, idle, begins call c at step l. *)
Begin(t, l, c) ==
  /\ At(t, "idle")
  /\ Goto(t, l)
  /\ call' = [call EXCEPT ![t] = c]
  /\ code' = [code EXCEPT ![t] = "OK"]

(* What stays known of a call that has returned: of a free, of which sort  *)
(* does not matter, whether it was stale; of others nothing but their code.*)
Returned(c) ==
  IF c.op \in FreeOps
  THEN [op |-> "free", typ |-> "chart", h |-> 0, obj |-> NoObject, stale |-> c.stale]
  ELSE NoCall

Return(t, result) ==
  /\ Goto(t, "idle")
  /\ call' = [call EXCEPT ![t] = Returned(call[t])]
  /\ todo' = [todo EXCEPT ![t] = << >>]
  /\ held' = [held EXCEPT ![t] = {}]
  /\ code' = [code EXCEPT ![t] = result]

-----------------------------------------------------------------------------
(* helm_config_new, helm_chart_load*, helm_registry_client_new,            *)
(* helm_context_new: build the object, then store it.                      *)

(* Inline kubeconfig content reaches the disk before anything can fail. *)
StartNew(t, o, typ, inline) ==
  /\ kind[o] = "none"
  /\ inline => typ = "config"
  /\ Begin(t, "build", [op |-> "new", typ |-> typ, h |-> 0, obj |-> o, stale |-> FALSE])
  /\ kind' = [kind EXCEPT ![o] = typ]
  /\ content' = IF inline THEN content \cup {o} ELSE content
  /\ disk' = IF inline THEN disk \cup {o} ELSE disk
  /\ UNCHANGED <<regVars, temp, cancelled, todo, held, histVars>>

(* The object is complete; a Config now records the file it owns. *)
BuildOK(t) ==
  /\ At(t, "build")
  /\ temp' = IF call[t].obj \in content THEN temp \cup {call[t].obj} ELSE temp
  /\ Goto(t, "put")
  /\ UNCHANGED <<regVars, kind, content, disk, cancelled, call, todo, held, code, histVars>>

(* Wrong variant of BuildFails: the error path forgets the temp file. *)
BuildFailsLeaking(t) ==
  /\ At(t, "build")
  /\ call[t].typ # "context"
  /\ kind' = [kind EXCEPT ![call[t].obj] = "none"]
  /\ content' = content \ {call[t].obj}
  /\ Return(t, "Failed")
  /\ UNCHANGED <<regVars, temp, disk, cancelled, histVars>>

(* newActionConfiguration (or the loader) fails: NewConfig takes its temp  *)
(* file back. A context cannot fail to be made.                            *)
BuildFails(t) ==
  /\ At(t, "build")
  /\ call[t].typ # "context"
  /\ kind' = [kind EXCEPT ![call[t].obj] = "none"]
  /\ content' = content \ {call[t].obj}
  /\ disk' = disk \ {call[t].obj}
  /\ Return(t, "Failed")
  /\ UNCHANGED <<regVars, temp, cancelled, histVars>>

(* The SDK panics instead, and recoverToCode makes that a code. NewConfig   *)
(* takes the file back by hand and defers nothing (config.go:151-157): the  *)
(* file stays, and no handle will ever name its config.                     *)
BuildPanics(t) ==
  /\ At(t, "build")
  /\ call[t].typ # "context"
  /\ lost' = lost \cup {call[t].obj}
  /\ Return(t, "Panic")
  /\ UNCHANGED <<regVars, heapVars, past, typedFreed, handleFreed, okFrees>>

PutNew(t) ==
  /\ At(t, "put")
  /\ Registry!Put(call[t].typ, call[t].obj)
  /\ past' = [h \in DOMAIN past \cup {nextID'} |->
                IF h = nextID' THEN [typ |-> call[t].typ, obj |-> call[t].obj] ELSE past[h]]
  /\ Return(t, "OK")
  /\ UNCHANGED <<heapVars, typedFreed, handleFreed, okFrees, lost>>

-----------------------------------------------------------------------------
(* The shims on one handle that change it: helm_*_free, helm_handle_free   *)
(* and helm_context_cancel.                                                *)

(* Wrong variant of FirstStep: helm_context_free passes no hook. *)
FirstStepNoHook(op, typ) ==
  IF op = "cancel" \/ (op = "free" /\ typ = "config") THEN "lookup" ELSE "release"

(* A typed free with a hook, and a cancel, look their object up first. *)
FirstStep(op, typ) ==
  IF op = "cancel" \/ (op = "free" /\ typ \in {"config", "context"})
  THEN "lookup" ELSE "release"

Start(t, op, h, typ) ==
  /\ op = "cancel" => typ = "context"
  /\ op = "handle_free" => typ = "chart"      \* no type is asked for
  /\ Begin(t, FirstStep(op, typ),
           [op |-> op, typ |-> typ, h |-> h, obj |-> NoObject, stale |-> Freed(h)])
  /\ UNCHANGED <<regVars, heapVars, todo, held, histVars>>

(* Wrong variant of LookupMisses: nothing to free is taken for success. *)
LookupMissesQuietly(t) ==
  /\ At(t, "lookup")
  /\ Registry!LookupCode(call[t].h, call[t].typ) # "OK"
  /\ Return(t, "OK")
  /\ UNCHANGED <<regVars, heapVars, histVars>>

LookupMisses(t) ==
  /\ At(t, "lookup")
  /\ Registry!LookupCode(call[t].h, call[t].typ) # "OK"
  /\ Return(t, Registry!LookupCode(call[t].h, call[t].typ))
  /\ UNCHANGED <<regVars, heapVars, histVars>>

LookupHits(t) ==
  /\ At(t, "lookup")
  /\ Registry!LookupCode(call[t].h, call[t].typ) = "OK"
  /\ call' = [call EXCEPT ![t] =
       [op |-> call[t].op, typ |-> call[t].typ, h |-> call[t].h,
        obj |-> Registry!Get(call[t].h), stale |-> call[t].stale]]
  /\ Goto(t, IF call[t].typ = "config" THEN "close" ELSE "cancel")
  /\ UNCHANGED <<regVars, heapVars, todo, held, code, histVars>>

(* Config.Close tests tempKubeconfig, removes the file, clears the field:  *)
(* three steps, no lock.                                                   *)
CloseCheck(t) ==
  /\ At(t, "close")
  /\ Goto(t, IF call[t].obj \in temp THEN "remove" ELSE "release")
  /\ UNCHANGED <<regVars, heapVars, call, todo, held, code, histVars>>

CloseRemove(t) ==
  /\ At(t, "remove")
  /\ disk' = disk \ {call[t].obj}
  /\ Goto(t, "clear")
  /\ UNCHANGED <<regVars, kind, content, temp, cancelled, call, todo, held, code, histVars>>

(* Another Close cleared the field after this one tested it. The string is *)
(* read while it is written, and a torn read (length of the old value,     *)
(* pointer of the new one) faults; recoverToCode makes that a code.        *)
CloseTorn(t) ==
  /\ At(t, "remove")
  /\ call[t].obj \notin temp
  /\ Return(t, "Panic")
  /\ UNCHANGED <<regVars, heapVars, histVars>>

CloseClear(t) ==
  /\ At(t, "clear")
  /\ temp' = temp \ {call[t].obj}
  /\ Goto(t, "release")
  /\ UNCHANGED <<regVars, kind, content, disk, cancelled, call, todo, held, code, histVars>>

(* The cancel func: the hook of helm_context_free, and all that            *)
(* helm_context_cancel does.                                               *)
CancelHook(t) ==
  /\ At(t, "cancel")
  /\ call[t].op = "free"
  /\ cancelled' = cancelled \cup {call[t].obj}
  /\ Goto(t, "release")
  /\ UNCHANGED <<regVars, kind, content, temp, disk, call, todo, held, code, histVars>>

CancelContext(t) ==
  /\ At(t, "cancel")
  /\ call[t].op = "cancel"
  /\ cancelled' = cancelled \cup {call[t].obj}
  /\ Return(t, "OK")
  /\ UNCHANGED <<regVars, kind, content, temp, disk, histVars>>

(* Wrong variant of TypedRelease: after the hook it trusts the lookup that  *)
(* came before it.                                                          *)
TypedReleaseTrusting(t) ==
  LET result == IF call[t].obj # NoObject THEN "OK"
                ELSE Registry!LookupCode(call[t].h, call[t].typ)
  IN /\ At(t, "release")
     /\ call[t].op = "free"
     /\ Registry!FreeTyped(call[t].h, call[t].typ)
     /\ typedFreed' = IF result = "OK" THEN typedFreed \cup {call[t].h} ELSE typedFreed
     /\ okFrees' = IF result = "OK" THEN okFrees + 1 ELSE okFrees
     /\ Return(t, result)
     /\ UNCHANGED <<heapVars, past, handleFreed, lost>>

(* registry.FreeTyped, the last line of freeTyped. *)
TypedRelease(t) ==
  LET result == Registry!LookupCode(call[t].h, call[t].typ)
  IN /\ At(t, "release")
     /\ call[t].op = "free"
     /\ Registry!FreeTyped(call[t].h, call[t].typ)
     /\ typedFreed' = IF result = "OK" THEN typedFreed \cup {call[t].h} ELSE typedFreed
     /\ okFrees' = IF result = "OK" THEN okFrees + 1 ELSE okFrees
     /\ Return(t, result)
     /\ UNCHANGED <<heapVars, past, handleFreed, lost>>

(* Wrong variant of HandleRelease: the last id is given back with it. *)
HandleReleaseRecycling(t) ==
  LET result == Registry!FreeCode(call[t].h)
  IN /\ At(t, "release")
     /\ call[t].op = "handle_free"
     /\ entries' = IF result = "OK" THEN Registry!Without(call[t].h) ELSE entries
     /\ nextID' = IF result = "OK" /\ call[t].h = nextID THEN nextID - 1 ELSE nextID
     /\ handleFreed' = IF result = "OK" THEN handleFreed \cup {call[t].h} ELSE handleFreed
     /\ okFrees' = IF result = "OK" THEN okFrees + 1 ELSE okFrees
     /\ Return(t, result)
     /\ UNCHANGED <<heapVars, past, typedFreed, lost>>

(* helm_handle_free: one registry call, no hook. *)
HandleRelease(t) ==
  LET result == Registry!FreeCode(call[t].h)
  IN /\ At(t, "release")
     /\ call[t].op = "handle_free"
     /\ Registry!Free(call[t].h)
     /\ handleFreed' = IF result = "OK" THEN handleFreed \cup {call[t].h} ELSE handleFreed
     /\ okFrees' = IF result = "OK" THEN okFrees + 1 ELSE okFrees
     /\ Return(t, result)
     /\ UNCHANGED <<heapVars, past, typedFreed, lost>>

-----------------------------------------------------------------------------
(* Every other shim resolves its handle arguments in order and runs. *)

Needs(typ) == {<< [h |-> h, typ |-> typ] >> : h \in Handle}

MayNeed(typ) == {<< >>} \cup {<< [h |-> h, typ |-> typ] >> : h \in 1 .. MaxID}

(* The content, saving and rendering of a chart. *)
ChartArgs == Needs("chart")

(* Login and logout, then pull, push and show, whose client is optional.   *)
RegistryArgs == Needs("registry-client") \cup MayNeed("registry-client")

(* helm_config_set_registry_client: 0 stands for no client. *)
SetClientArgs == {a \o b : a \in Needs("config"), b \in MayNeed("registry-client")}

(* Uninstall, rollback, list, status, history, get and test. *)
ReleaseArgs == Needs("config")

(* Install and upgrade: the chart and the context are optional, a 0 is     *)
(* skipped. helm_render_with_config resolves the first two.                *)
ActionArgs ==
  {a \o b \o c : a \in Needs("config"), b \in MayNeed("chart"), c \in MayNeed("context")}

Requests == ChartArgs \cup RegistryArgs \cup SetClientArgs \cup ReleaseArgs \cup ActionArgs

StartUse(t, req) ==
  /\ Begin(t, IF req = << >> THEN "run" ELSE "resolve",
           [op |-> "use", typ |-> "chart", h |-> 0, obj |-> NoObject, stale |-> FALSE])
  /\ todo' = [todo EXCEPT ![t] = req]
  /\ UNCHANGED <<regVars, heapVars, held, histVars>>

(* One registry.Get; the first that fails ends the call. *)
ResolveMisses(t) ==
  LET w == Head(todo[t])
  IN /\ At(t, "resolve")
     /\ Registry!LookupCode(w.h, w.typ) # "OK"
     /\ Return(t, Registry!LookupCode(w.h, w.typ))
     /\ UNCHANGED <<regVars, heapVars, histVars>>

ResolveHits(t) ==
  LET w == Head(todo[t])
  IN /\ At(t, "resolve")
     /\ Registry!LookupCode(w.h, w.typ) = "OK"
     /\ held' = [held EXCEPT ![t] =
          held[t] \cup {[h |-> w.h, typ |-> w.typ, obj |-> Registry!Get(w.h)]}]
     /\ todo' = [todo EXCEPT ![t] = Tail(todo[t])]
     /\ Goto(t, IF Tail(todo[t]) = << >> THEN "run" ELSE "resolve")
     /\ UNCHANGED <<regVars, heapVars, call, code, histVars>>

(* The wrapper call itself, on objects nothing pins in the registry. *)
Finish(t) ==
  /\ At(t, "run")
  /\ \E result \in {"OK", "Failed"} : Return(t, result)
  /\ UNCHANGED <<regVars, heapVars, histVars>>

-----------------------------------------------------------------------------
Init ==
  /\ Registry!RegInit
  /\ kind = [o \in Objects |-> "none"]
  /\ content = {} /\ temp = {} /\ disk = {} /\ cancelled = {}
  /\ pc = [t \in Threads |-> "idle"]
  /\ call = [t \in Threads |-> NoCall]
  /\ todo = [t \in Threads |-> << >>]
  /\ held = [t \in Threads |-> {}]
  /\ code = [t \in Threads |-> "OK"]
  /\ past = [h \in {} |-> {}]
  /\ typedFreed = {} /\ handleFreed = {} /\ okFrees = 0 /\ lost = {}

New(t) ==
  \/ \E o \in Objects, typ \in Type, inline \in BOOLEAN : StartNew(t, o, typ, inline)
  \/ BuildOK(t) \/ BuildFails(t) \/ BuildPanics(t) \/ PutNew(t)

Free(t) ==
  \/ \E op \in FreeOps \cup {"cancel"}, h \in Handle, typ \in Type : Start(t, op, h, typ)
  \/ LookupMisses(t) \/ LookupHits(t)
  \/ CloseCheck(t) \/ CloseRemove(t) \/ CloseTorn(t) \/ CloseClear(t)
  \/ CancelHook(t) \/ CancelContext(t)
  \/ TypedRelease(t) \/ HandleRelease(t)

Use(t) ==
  \/ \E req \in Requests : StartUse(t, req)
  \/ ResolveMisses(t) \/ ResolveHits(t) \/ Finish(t)

Next == \E t \in Threads : New(t) \/ Free(t) \/ Use(t)

Spec == Init /\ [][Next]_vars

-----------------------------------------------------------------------------
(* Every variable stays in the set of states the shims can write. *)
TypeOK ==
  /\ Registry!RegTypeOK
  /\ kind \in [Objects -> Type \cup {"none"}]
  /\ content \subseteq Objects /\ temp \subseteq Objects
  /\ disk \subseteq Objects /\ cancelled \subseteq Objects
  /\ pc \in [Threads -> PC]
  /\ call \in [Threads -> Call]
  /\ todo \in [Threads -> Seq(Wanted)]
  /\ held \in [Threads -> SUBSET Held]
  /\ code \in [Threads -> Code]
  /\ past \in [1 .. nextID -> [typ : Type, obj : Objects]]
  /\ typedFreed \subseteq 1 .. nextID /\ handleFreed \subseteq 1 .. nextID
  /\ okFrees \in Nat /\ lost \subseteq Objects

(* The leak probe is exact: helm_open_handles_count is the number of        *)
(* handles created minus the frees that reported success. So of all the     *)
(* racing frees of one handle, typed or not, exactly one returns HELM_OK    *)
(* (API.md, helm_open_handles_count; handles.go Count, Free, FreeTyped).    *)
LeakProbeBalances == Registry!Count + okFrees = nextID

(* A handle never comes to stand for another object: what the registry      *)
(* holds under an id, and what any call resolved it to, however long ago,   *)
(* is the object the id was issued for (handles.go:47-48, DESIGN.md 1).     *)
NeverAliases ==
  /\ \A h \in DOMAIN entries : entries[h] = past[h] /\ ~ Freed(h)
  /\ \A t \in Threads : \A x \in held[t] : x.h \in DOMAIN past /\ x.obj = past[x.h].obj

(* The type tag can be trusted: a hook, a cancel and an action only ever    *)
(* reach objects of the type they cast to (capi/config.go:51-52), although  *)
(* handles of every type are passed to every shim.                          *)
TypeTagHolds ==
  \A t \in Threads :
    /\ pc[t] \in {"close", "remove", "clear"} => kind[call[t].obj] = "config"
    /\ At(t, "cancel") => kind[call[t].obj] = "context"
    /\ \A x \in held[t] : kind[x.obj] = x.typ

(* Freeing twice is a miss: a free of a handle that some free had already   *)
(* taken when it began returns HELM_ERR_INVALID_HANDLE (MEMORY.md rule 3).  *)
DoubleFreeMisses ==
  \A t \in Threads :
    At(t, "idle") /\ call[t].op = "free" /\ call[t].stale => code[t] = "InvalidHandle"

(* No private kubeconfig is orphaned by an error, a helm_config_free or any *)
(* race of frees, where the loser of one Close may be the winner of the     *)
(* release: a file on disk belongs to a config being made, to a live one,   *)
(* to one that helm_handle_free released, or to one whose making panicked.  *)
(* The last two do leave theirs for good (API.md:444 promises the removal   *)
(* by helm_config_free only).                                               *)
NoOrphanKubeconfig ==
  \A o \in disk :
    \/ \E t \in Threads : call[t].obj = o /\ pc[t] \in {"build", "put"}
    \/ \E h \in DOMAIN past : past[h].obj = o /\ h \notin typedFreed
    \/ o \in lost

(* helm_context_free also cancels: once it has released a context, every    *)
(* call waiting on it has been told (API.md, helm_context_free), also when  *)
(* several frees and cancels of it race.                                    *)
FreedContextIsCancelled ==
  \A h \in typedFreed : past[h].typ = "context" => past[h].obj \in cancelled

(* All shims together keep the contract of opaque handles, whatever races:  *)
(* each step on the store issues a fresh id, releases a live one once, or   *)
(* leaves it alone, so a stale handle can only miss (handles.go:47-48,      *)
(* DESIGN.md 1).                                                            *)
Contract == INSTANCE HandleContract WITH
  Ids    <- Handle,
  issued <- 1 .. nextID,
  live   <- [i \in DOMAIN entries |-> entries[i].obj]

ImplementsContract == Contract!Spec
=============================================================================
