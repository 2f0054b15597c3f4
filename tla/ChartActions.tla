---------------------------- MODULE ChartActions ----------------------------
(***************************************************************************)
(* helm_install and helm_upgrade from the check of their context to their  *)
(* return code (pkg/wrapper/install.go, upgrade.go, actions.go), called    *)
(* from several host threads on releases of their own while others cancel  *)
(* the contexts.                                                           *)
(*                                                                         *)
(* The context is looked at twice, with everything slow in between: once   *)
(* on entry, and by the SDK while it waits for the goroutine that applies  *)
(* the release. That goroutine belongs to the SDK, nobody joins it, and it *)
(* outlives a cancelled call. In between, a chart reference is pulled and  *)
(* loaded through scratch directories, and missing dependencies are        *)
(* updated into the chart's own directory, which other calls may share.    *)
(***************************************************************************)
EXTENDS ActionErrors

CONSTANTS
  Callers,     \* host threads; each call of one is about a fresh release
  Contexts,    \* contexts resolved from handles
  Background,  \* the context of ctx = 0, which nobody can cancel
  Dirs,        \* local chart directories, whose charts lack a dependency at first
  NoDir        \* a chart that is not in a directory

ASSUME ActionsAssumption == Background \notin Contexts /\ NoDir \notin Dirs

VARIABLES
  done,      \* contexts that have been cancelled
  vendored,  \* directories whose charts/ has every declared dependency
  pc,        \* where in its call each caller is
  call,      \* the arguments of its call
  chart,     \* the chart resolved: "none", "whole", or "lacking" a dependency
  scratch,   \* the scratch directories of the call that exist
  sdk,       \* the SDK goroutine of the call: its state or how it failed
  recorded,  \* callers whose release has a record in the cluster
  undo,      \* callers whose install has rollback_on_failure
  error,     \* the Go error of the last call
  code,      \* the C code of the last call
  early,     \* history: callers whose context was cancelled before the call
  entered,   \* history: the state of the context when the SDK was entered
  crowded    \* history: callers whose update met another's of the directory

worldVars == <<done, vendored>>
stepVars  == <<pc, call, scratch, error, code>>
vars      == <<worldVars, stepVars, chart, sdk, recorded, undo, early, entered, crowded>>

(* How the chart is given; "invalid" is both a handle and a reference, or   *)
(* neither.                                                                 *)
Source ==
  [how : {"handle", "archive", "remote", "invalid"}, dir : {NoDir}]
    \cup [how : {"directory"}, dir : Dirs]

(* The options dependency_update and rollback_on_failure are chosen where   *)
(* they are first read.                                                     *)
Args == [ctx : Contexts \cup {Background}, from : Source]

NoSource == [how |-> "handle", dir |-> NoDir]

PC == {"idle", "prologue", "configure", "resolve", "pull", "download", "load",
       "dependencies", "manage", "update", "fill", "reload", "run", "select", "fail"}

Scratch == {"chart", "pull", "deps"}

-----------------------------------------------------------------------------
At(t, l) == pc[t] = l

(* On to step l, with these scratch directories. *)
Go(t, l, dirs) ==
  /\ pc' = [pc EXCEPT ![t] = l]
  /\ scratch' = [scratch EXCEPT ![t] = dirs]
  /\ UNCHANGED <<call, error, code>>

(* The call returns with error e; failure() maps it. Of its arguments the   *)
(* context stays known.                                                     *)
Leave(t, e, dirs) ==
  /\ pc' = [pc EXCEPT ![t] = "idle"]
  /\ call' = [call EXCEPT ![t] = [ctx |-> call[t].ctx, from |-> NoSource]]
  /\ scratch' = [scratch EXCEPT ![t] = dirs]
  /\ error' = [error EXCEPT ![t] = e]
  /\ code' = [code EXCEPT ![t] = FromError(e)]

(* Wrong variant of Return: PullChart alone defers the removal of its own. *)
ReturnKeeping(t, e) == Leave(t, e, scratch[t] \ {"pull"})

(* Every function on the stack has removed its scratch directory. *)
Return(t, e) == Leave(t, e, {})

Gets(t, c) == chart' = [chart EXCEPT ![t] = c]

(* helm_context_cancel and helm_context_free. *)
Cancel(c) ==
  /\ done' = done \cup {c}
  /\ UNCHANGED <<vendored, stepVars, chart, sdk, recorded, undo, early, entered, crowded>>

(* The shim has resolved its handles and parsed its options. *)
Start(t, a) ==
  /\ At(t, "idle")
  /\ sdk[t] # "running"
  /\ call' = [call EXCEPT ![t] = a]
  /\ early' = IF a.ctx \in done THEN early \cup {t} ELSE early \ {t}
  /\ entered' = [entered EXCEPT ![t] = "no"]
  /\ recorded' = recorded \ {t}
  /\ undo' = undo \ {t}
  /\ crowded' = crowded \ {t}
  /\ sdk' = [sdk EXCEPT ![t] = "none"]
  /\ Gets(t, "none")
  /\ error' = [error EXCEPT ![t] = NoError]
  /\ code' = [code EXCEPT ![t] = "OK"]
  /\ pc' = [pc EXCEPT ![t] = "prologue"]
  /\ scratch' = [scratch EXCEPT ![t] = {}]
  /\ UNCHANGED worldVars

(* checkNotCancelled: the only look at the context before the SDK. *)
CheckNotCancelled(t) ==
  /\ At(t, "prologue")
  /\ call[t].ctx \in done
  /\ Return(t, WithCode("Cancelled", Plain("canceled")))
  /\ UNCHANGED <<worldVars, chart, sdk, recorded, undo, early, entered, crowded>>

(* The rest of actionPrologue: the values may be malformed. *)
ActionPrologue(t) ==
  /\ At(t, "prologue")
  /\ call[t].ctx \notin done
  /\ Go(t, "configure", {}) \/ Return(t, Coded("Values"))
  /\ UNCHANGED <<worldVars, chart, sdk, recorded, undo, early, entered, crowded>>

(* newInstall and newUpgrade: an option may be invalid, and the sibling     *)
(* configuration for another namespace may fail to initialize.              *)
Configure(t) ==
  /\ At(t, "configure")
  /\ Go(t, "resolve", {}) \/ Return(t, Coded("InvalidArg")) \/ Return(t, Coded("Kube"))
  /\ UNCHANGED <<worldVars, chart, sdk, recorded, undo, early, entered, crowded>>

-----------------------------------------------------------------------------
(* chartForAction. *)

ResolveInvalid(t) ==
  /\ At(t, "resolve")
  /\ call[t].from.how = "invalid"
  /\ Return(t, Coded("InvalidArg"))
  /\ UNCHANGED <<worldVars, chart, sdk, recorded, undo, early, entered, crowded>>

(* A chart handle holds whatever was loaded; a path is loaded now. *)
ResolveLocal(t) ==
  /\ At(t, "resolve")
  /\ call[t].from.how \in {"handle", "archive", "directory"}
  /\ \/ \E c \in {"whole", "lacking"} :
          /\ call[t].from.how = "directory"
               => c = (IF call[t].from.dir \in vendored THEN "whole" ELSE "lacking")
          /\ Gets(t, c)
          /\ Go(t, "dependencies", {})
     \/ /\ call[t].from.how # "handle"
        /\ Return(t, Coded("ChartLoad"))
        /\ UNCHANGED chart
  /\ UNCHANGED <<worldVars, sdk, recorded, undo, early, entered, crowded>>

(* pullChartRef: the reference must be a remote one, then the directory to  *)
(* pull into is made.                                                       *)
ResolveRemote(t) ==
  /\ At(t, "resolve")
  /\ call[t].from.how = "remote"
  /\ Go(t, "pull", {"chart"}) \/ Return(t, Coded("ChartLoad")) \/ Return(t, Coded("IO"))
  /\ UNCHANGED <<worldVars, chart, sdk, recorded, undo, early, entered, crowded>>

(* PullChart: a default client and a second scratch directory. What it      *)
(* fails with is wrapped by pullChartRef.                                   *)
Pull(t) ==
  /\ At(t, "pull")
  /\ \/ Go(t, "download", {"chart", "pull"})
     \/ \E c \in {"Registry", "IO"} : Return(t, WithCode("ChartLoad", Coded(c)))
  /\ UNCHANGED <<worldVars, chart, sdk, recorded, undo, early, entered, crowded>>

(* Wrong variant of Download: a failed pull is tried again. *)
DownloadRetrying(t) ==
  /\ At(t, "download")
  /\ Go(t, "load", {"chart"}) \/ Go(t, "pull", {"chart"})
  /\ UNCHANGED <<worldVars, chart, sdk, recorded, undo, early, entered, crowded>>

(* The SDK's pull, which is given no context. *)
Download(t) ==
  /\ At(t, "download")
  /\ \/ Go(t, "load", {"chart"})
     \/ Return(t, WithCode("ChartLoad", Coded("Repo")))
  /\ UNCHANGED <<worldVars, chart, sdk, recorded, undo, early, entered, crowded>>

(* The archive is loaded from the directory, which is removed. *)
LoadPulled(t) ==
  /\ At(t, "load")
  /\ \/ \E c \in {"whole", "lacking"} : Gets(t, c) /\ Go(t, "dependencies", {})
     \/ Return(t, Coded("ChartLoad")) /\ UNCHANGED chart
  /\ UNCHANGED <<worldVars, sdk, recorded, undo, early, entered, crowded>>

-----------------------------------------------------------------------------
(* ensureDependencies. *)

EnsureDependencies(t) ==
  /\ At(t, "dependencies")
  /\ IF chart[t] = "whole" THEN Go(t, "run", {})
     ELSE \E update \in BOOLEAN :
            IF update /\ call[t].from.dir # NoDir
            THEN Go(t, "manage", {"deps"}) \/ Return(t, Coded("IO"))
            ELSE Return(t, Coded("ChartInvalid"))
  /\ UNCHANGED <<worldVars, chart, sdk, recorded, undo, early, entered, crowded>>

(* The rest of dependencyManager. It defers nothing: on a failure it        *)
(* removes its directory itself.                                            *)
DependencyManager(t) ==
  /\ At(t, "manage")
  /\ \/ Go(t, "update", {"deps"})
     \/ \E c \in {"IO", "ChartLoad", "Registry"} : Return(t, Coded(c))
  /\ UNCHANGED <<worldVars, chart, sdk, recorded, undo, early, entered, crowded>>

(* Callers whose update of t's directory has begun and is not yet read back.*)
Meets(t) ==
  {u \in Callers \ {t} : pc[u] \in {"fill", "reload"} /\ call[u].from.dir = call[t].from.dir}

(* The SDK's Update, whose files two calls on one directory share: it       *)
(* begins by clearing outdated ones away and may leave charts/ without.     *)
UpdateBegins(t) ==
  /\ At(t, "update")
  /\ vendored' \in {vendored, vendored \ {call[t].from.dir}}
  /\ crowded' = crowded \cup Meets(t) \cup {v \in {t} : \E u \in Meets(t) : At(u, "fill")}
  /\ Go(t, "fill", {"deps"})
  /\ UNCHANGED <<done, chart, sdk, recorded, undo, early, entered>>

(* It ends with charts/ complete, unless another's update was about, or     *)
(* fails with what is there by then.                                        *)
UpdateEnds(t) ==
  LET dir == call[t].from.dir
  IN /\ At(t, "fill")
     /\ \/ vendored' = vendored \cup {dir} /\ Go(t, "reload", {})
        \/ t \in crowded /\ vendored' = vendored \ {dir} /\ Go(t, "reload", {})
        \/ vendored' \in {vendored, vendored \ {dir}} /\ Return(t, Coded("Repo"))
     /\ UNCHANGED <<done, chart, sdk, recorded, undo, early, entered, crowded>>

(* Wrong variant of Reload: the chart loaded before the update goes on. *)
ReloadSkipped(t) ==
  /\ At(t, "reload")
  /\ Go(t, "run", {})
  /\ UNCHANGED <<worldVars, chart, sdk, recorded, undo, early, entered, crowded>>

(* The chart handed on is the one now in the directory, which nobody checks *)
(* again (actions.go:315).                                                  *)
Reload(t) ==
  /\ At(t, "reload")
  /\ \/ Gets(t, IF call[t].from.dir \in vendored THEN "whole" ELSE "lacking") /\ Go(t, "run", {})
     \/ Return(t, Coded("ChartLoad")) /\ UNCHANGED chart
  /\ UNCHANGED <<worldVars, sdk, recorded, undo, early, entered, crowded>>

-----------------------------------------------------------------------------
(* RunWithContext of the SDK, and finishRelease. *)

Enters(t) ==
  entered' = [entered EXCEPT ![t] = IF call[t].ctx \in done THEN "cancelled" ELSE "live"]

(* Wrong variant of FinishRelease: any failure is put down to the chart. *)
FinishReleaseMiscoded(t, cause) ==
  IF cause = "none"
  THEN Return(t, NoError) \/ Return(t, Coded("Release"))
  ELSE Return(t, WrapActionError(Plain(cause), "ChartInvalid"))

(* finishRelease; summarizing a release may fail, too. *)
FinishRelease(t, cause) ==
  IF cause = "none"
  THEN Return(t, NoError) \/ Return(t, Coded("Release"))
  ELSE Return(t, WrapActionError(Plain(cause), "Release"))

(* Wrong variant of RunEnds: the context is asked once more afterwards. *)
RunEndsRechecking(t) ==
  /\ At(t, "run")
  /\ Enters(t)
  /\ IF call[t].ctx \in done
     THEN FinishRelease(t, "canceled")
     ELSE \E cause \in SDKCause \cup {"none"} : FinishRelease(t, cause)
  /\ UNCHANGED <<worldVars, chart, sdk, recorded, undo, early, crowded>>

(* The SDK ends the call itself: it fails before there is a record, or this *)
(* was a dry run.                                                           *)
RunEnds(t) ==
  /\ At(t, "run")
  /\ Enters(t)
  /\ \E cause \in SDKCause \cup {"none"} : FinishRelease(t, cause)
  /\ UNCHANGED <<worldVars, chart, sdk, recorded, undo, early, crowded>>

(* The SDK records the release and starts the goroutine that applies it. An *)
(* install may have rollback_on_failure. An upgrade with it is rolled back  *)
(* if it fails, which leaves a record all the same.                         *)
RunLaunches(t) ==
  /\ At(t, "run")
  /\ Enters(t)
  /\ recorded' = recorded \cup {t}
  /\ undo' \in {undo, undo \cup {t}}
  /\ sdk' = [sdk EXCEPT ![t] = "running"]
  /\ Go(t, "select", {})
  /\ UNCHANGED <<worldVars, chart, early, crowded>>

(* The goroutine applies the release, whether or not its call still waits. *)
Applies(t) ==
  /\ sdk[t] = "running"
  /\ \E r \in SDKCause \cup {"applied"} : sdk' = [sdk EXCEPT ![t] = r]
  /\ UNCHANGED <<worldVars, stepVars, chart, recorded, undo, early, entered, crowded>>

(* The select of the SDK ends in a failure, which it deals with before      *)
(* RunWithContext returns.                                                  *)
Fails(t, cause) ==
  /\ pc' = [pc EXCEPT ![t] = "fail"]
  /\ error' = [error EXCEPT ![t] = Plain(cause)]
  /\ UNCHANGED <<call, scratch, code>>

(* Wrong variant of SelectCancelled: the SDK is run on context.Background. *)
SelectCancelledBackground(t) ==
  /\ At(t, "select")
  /\ Background \in done
  /\ Fails(t, "canceled")
  /\ UNCHANGED <<worldVars, chart, sdk, recorded, undo, early, entered, crowded>>

(* The two branches of its select. With both ready Go picks either. *)
SelectCancelled(t) ==
  /\ At(t, "select")
  /\ call[t].ctx \in done
  /\ Fails(t, "canceled")
  /\ UNCHANGED <<worldVars, chart, sdk, recorded, undo, early, entered, crowded>>

SelectResult(t) ==
  /\ At(t, "select")
  /\ sdk[t] # "running"
  /\ IF sdk[t] = "applied" THEN FinishRelease(t, "none") ELSE Fails(t, sdk[t])
  /\ UNCHANGED <<worldVars, chart, sdk, recorded, undo, early, entered, crowded>>

(* failRelease of the SDK, on the cluster and with no context: the record   *)
(* is marked failed, or the release uninstalled if the options said so. The *)
(* uninstall may fail.                                                      *)
FailRelease(t) ==
  /\ At(t, "fail")
  /\ recorded' \in {recorded} \cup {recorded \ {u} : u \in undo \cap {t}}
  /\ FinishRelease(t, error[t].cause)
  /\ UNCHANGED <<worldVars, chart, sdk, undo, early, entered, crowded>>

(* Wherever the SDK has the call, it may panic. The deferred functions run, *)
(* which leaves the directory of dependencyManager, and recoverToCode makes *)
(* it a code.                                                               *)
Panics(t) ==
  /\ \/ pc[t] \in {"download", "load", "manage", "update", "fill", "reload", "run", "fail"}
     \/ At(t, "resolve") /\ call[t].from.how \in {"archive", "directory"}
  /\ IF At(t, "run") THEN Enters(t) ELSE UNCHANGED entered
  /\ Leave(t, Coded("Panic"), IF At(t, "manage") THEN scratch[t] ELSE {})
  /\ UNCHANGED <<worldVars, chart, sdk, recorded, undo, early, crowded>>

-----------------------------------------------------------------------------
Init ==
  /\ done = {} /\ vendored = {}
  /\ pc = [t \in Callers |-> "idle"]
  /\ call = [t \in Callers |-> [ctx |-> Background, from |-> NoSource]]
  /\ chart = [t \in Callers |-> "none"]
  /\ scratch = [t \in Callers |-> {}]
  /\ sdk = [t \in Callers |-> "none"]
  /\ error = [t \in Callers |-> NoError]
  /\ code = [t \in Callers |-> "OK"]
  /\ recorded = {} /\ undo = {} /\ early = {} /\ crowded = {}
  /\ entered = [t \in Callers |-> "no"]

(* The library's own steps, and those that wait on a network or a cluster. *)
Computes(t) ==
  \/ CheckNotCancelled(t) \/ ActionPrologue(t) \/ Configure(t)
  \/ ResolveInvalid(t) \/ ResolveLocal(t) \/ ResolveRemote(t)
  \/ Pull(t) \/ LoadPulled(t)
  \/ EnsureDependencies(t) \/ DependencyManager(t) \/ Reload(t)

Waits(t) ==
  \/ Download(t) \/ UpdateBegins(t) \/ UpdateEnds(t)
  \/ RunEnds(t) \/ RunLaunches(t) \/ FailRelease(t) \/ Panics(t)

Selects(t) == SelectCancelled(t) \/ SelectResult(t)

Next ==
  \/ \E c \in Contexts : Cancel(c)
  \/ \E t \in Callers :
       \/ \E a \in Args : Start(t, a)
       \/ Computes(t) \/ Waits(t) \/ Selects(t) \/ Applies(t)

Spec == Init /\ [][Next]_vars

(* A goroutine that can compute, or has a ready case in its select, is      *)
(* scheduled. A download, the cluster, failRelease and the SDK's goroutine  *)
(* owe nothing.                                                             *)
Fairness == \A t \in Callers : WF_vars(Computes(t)) /\ WF_vars(Selects(t))

FairSpec == Spec /\ Fairness

-----------------------------------------------------------------------------
(* Every variable keeps its type. *)
TypeOK ==
  /\ done \subseteq Contexts /\ vendored \subseteq Dirs
  /\ pc \in [Callers -> PC]
  /\ call \in [Callers -> Args]
  /\ chart \in [Callers -> {"none", "whole", "lacking"}]
  /\ scratch \in [Callers -> SUBSET Scratch]
  /\ sdk \in [Callers -> SDKCause \cup {"none", "running", "applied"}]
  /\ recorded \subseteq Callers /\ undo \subseteq Callers
  /\ early \subseteq Callers /\ crowded \subseteq Callers
  /\ error \in [Callers -> Error]
  /\ code \in [Callers -> Code]
  /\ entered \in [Callers -> {"no", "live", "cancelled"}]

(* A context cancelled before the call never enters the SDK, whose          *)
(* RunWithContext races with itself on one (API.md:488-490).                *)
PreCancelledNeverEnters == \A t \in early : entered[t] = "no"

(* HELM_ERR_CANCELLED is "stopped waiting", not "undone" (API.md:492-496):  *)
(* a call that came back because its context was cancelled either never     *)
(* entered the SDK or leaves a release record, and the name, behind. There  *)
(* is one third case, however the cancellation met the resolution of the    *)
(* chart: an install with rollback_on_failure may be gone (install.go:123). *)
CancelledLeavesRecord ==
  \A t \in Callers :
    At(t, "idle") /\ code[t] = "Cancelled" /\ error[t].cause = "canceled"
      => /\ call[t].ctx \in done
         /\ entered[t] = "no" \/ t \in recorded \cup undo

(* The host may simply repeat a call that failed on its arguments, its      *)
(* values, its chart or its dependencies: nothing reached the cluster, and  *)
(* no goroutine is left behind (API.md:522-525, "before touching the        *)
(* cluster").                                                               *)
RefusalTouchesNothing ==
  \A t \in Callers :
    At(t, "idle")
      /\ code[t] \in {"InvalidArg", "Values", "ChartLoad", "ChartInvalid", "Registry", "Repo", "IO"}
      => t \notin recorded /\ entered[t] = "no" /\ sdk[t] = "none"

(* The scratch directories of a call, as ScratchContract sees them.         *)
Scratches == INSTANCE ScratchContract WITH
  Calls <- Callers, Kinds <- Scratch, ByHand <- {"deps"},
  active <- {t \in Callers : ~ At(t, "idle")},
  dirs <- scratch,
  handed <- {t \in Callers : pc[t] \in {"run", "select", "fail"}},
  panicked <- {t \in Callers : code[t] = "Panic"}

(* No scratch directory outlives its call, on any way out (DESIGN.md 7,     *)
(* actions.go pullChartRef, distribution.go PullChart), or is there while   *)
(* the SDK runs. The one exception is a panic inside dependencyManager,     *)
(* which has no deferred removal yet (dependency.go:93-106).                *)
ImplementsScratch == Scratches!Spec

(* A chart that lacks a declared dependency never reaches the SDK, also     *)
(* when other calls read, or by turns update, the directory it came from    *)
(* (actions.go:289-294). Two updates of a directory must not run at once    *)
(* (API.md:666): of what met another's the code makes sure of nothing.      *)
OnlyWholeChartsRun ==
  \A t \in Callers : entered[t] # "no" /\ t \notin crowded => chart[t] = "whole"

(* A call that waits on the cluster stops waiting once its context is       *)
(* cancelled, even if the SDK's goroutine never finishes (API.md:487-488,   *)
(* 492): all it still needs is for the SDK's failRelease to end.            *)
CancelReturns ==
  (\A t \in Callers : WF_vars(FailRelease(t))) =>
    \A t \in Callers : At(t, "select") /\ call[t].ctx \in done ~> At(t, "idle")

(* A cancelled call comes back wherever it is (API.md:527-528), provided    *)
(* each download and each call of the SDK ends in its own time: the code    *)
(* gives them no context, so it cannot promise that by itself.              *)
CancelledComesBack ==
  (\A t \in Callers : WF_vars(Waits(t))) =>
    \A t \in Callers : ~ At(t, "idle") /\ call[t].ctx \in done ~> At(t, "idle")

-----------------------------------------------------------------------------
(* What the repository says and the code does not do; TLC refutes it.       *)

(* pkg/wrapper/actions.go:67-68 of the SDK's RunWithContext: "a cancelled   *)
(* context never reaches it".                                               *)
CancelledNeverReachesSDK == \A t \in Callers : entered[t] # "cancelled"
=============================================================================
