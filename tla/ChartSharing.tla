---------------------------- MODULE ChartSharing ----------------------------
(***************************************************************************)
(* One loaded chart, several calls: helm_render and                        *)
(* helm_render_with_config process the dependencies of the chart behind    *)
(* the handle in place (pkg/wrapper/render.go, prepareRender) and then     *)
(* render what is left, without a lock on the chart. The processing is the *)
(* SDK's: it reads the chart's subcharts, keeps those the values of the    *)
(* call enable, and writes the list back.                                  *)
(***************************************************************************)
CONSTANTS
  Callers,    \* host threads
  Charts,     \* bound: the charts ever loaded
  Subcharts,  \* the subcharts of each chart, as loaded
  NoChart

ASSUME SharingAssumption == NoChart \notin Charts

VARIABLES
  loaded,    \* charts that have a handle
  deps,      \* the subcharts each chart has now
  pc,        \* where in its call each caller is
  on,        \* the chart of its call
  enabled,   \* the subcharts the values of its call enable
  kept,      \* the subcharts the processing has decided to keep
  out,       \* the subcharts whose templates the call has rendered
  code,      \* what the last call returned
  from,      \* history: the subcharts the processing decided on
  processed, \* history: charts some call has processed
  first,     \* history: callers whose processing read a chart nobody had processed
  disturbed  \* history: callers whose chart another has written since they read
             \* it, or since they wrote it themselves

callVars == <<pc, on, enabled, kept, out, code>>
histVars == <<from, processed, first, disturbed>>
vars     == <<loaded, deps, callVars, histVars>>

PC == {"idle", "prepare", "process", "write", "values", "render"}

Code == {"OK", "InvalidArg", "Values", "Kube", "Render"}

At(t, l) == pc[t] = l

Goto(t, l) == pc' = [pc EXCEPT ![t] = l]

Return(t, c) ==
  /\ Goto(t, "idle")
  /\ code' = [code EXCEPT ![t] = c]

(* helm_chart_load and helm_chart_load_archive: every load is a new chart. *)
LoadChart(c) ==
  /\ c \notin loaded
  /\ loaded' = loaded \cup {c}
  /\ deps' = [deps EXCEPT ![c] = Subcharts]
  /\ UNCHANGED <<callVars, histVars>>

RenderChart(t, c, e) ==
  /\ At(t, "idle")
  /\ c \in loaded
  /\ Goto(t, "prepare")
  /\ on' = [on EXCEPT ![t] = c]
  /\ enabled' = [enabled EXCEPT ![t] = e]
  /\ out' = [out EXCEPT ![t] = {}]
  /\ code' = [code EXCEPT ![t] = "OK"]
  /\ first' = first \ {t}
  /\ disturbed' = disturbed \ {t}
  /\ UNCHANGED <<loaded, deps, kept, from, processed>>

(* Wrong variant of PrepareRender: the dependencies are processed before    *)
(* the kube_version is parsed.                                              *)
PrepareRenderEager(t) ==
  /\ At(t, "prepare")
  /\ \/ Goto(t, "process") /\ UNCHANGED <<deps, code>>
     \/ /\ Return(t, "InvalidArg")
        /\ deps' = [deps EXCEPT ![on[t]] = deps[on[t]] \cap enabled[t]]
  /\ UNCHANGED <<loaded, on, enabled, kept, out, histVars>>

(* No cluster, malformed values, or a kube_version that does not parse. *)
PrepareRender(t) ==
  /\ At(t, "prepare")
  /\ \/ Goto(t, "process") /\ UNCHANGED code
     \/ \E c \in {"Kube", "Values", "InvalidArg"} : Return(t, c)
  /\ UNCHANGED <<loaded, deps, on, enabled, kept, out, histVars>>

(* ProcessDependencies, up to its decision. *)
ProcessReads(t) ==
  /\ At(t, "process")
  /\ kept' = [kept EXCEPT ![t] = deps[on[t]] \cap enabled[t]]
  /\ from' = [from EXCEPT ![t] = deps[on[t]]]
  /\ first' = IF on[t] \in processed THEN first ELSE first \cup {t}
  /\ Goto(t, "write")
  /\ UNCHANGED <<loaded, deps, on, enabled, out, code, processed, disturbed>>

(* The others in the middle of the same chart now see what t has written. *)
Disturbs(t) ==
  /\ disturbed' = (disturbed \ {t}) \cup
       {u \in Callers \ {t} : on[u] = on[t] /\ pc[u] \in {"write", "values", "render"}}
  /\ processed' = processed \cup {on[t]}
  /\ UNCHANGED <<from, first>>

(* Wrong variant of ProcessWrites: a copy is processed, the chart rendered. *)
ProcessWritesCopy(t) ==
  /\ At(t, "write")
  /\ kept' = [kept EXCEPT ![t] = {}]
  /\ (Goto(t, "values") /\ UNCHANGED code) \/ Return(t, "Values")
  /\ Disturbs(t)
  /\ UNCHANGED <<loaded, deps, on, enabled, out>>

(* Wrong variant of ProcessWrites: a failure puts the loaded list back. *)
ProcessWritesUndoing(t) ==
  /\ At(t, "write")
  /\ \/ /\ deps' = [deps EXCEPT ![on[t]] = kept[t]]
        /\ Goto(t, "values") /\ UNCHANGED code
     \/ /\ deps' = [deps EXCEPT ![on[t]] = Subcharts]
        /\ Return(t, "Values")
  /\ kept' = [kept EXCEPT ![t] = {}]
  /\ Disturbs(t)
  /\ UNCHANGED <<loaded, on, enabled, out>>

(* It writes the list back, and may still fail on import-values. *)
ProcessWrites(t) ==
  /\ At(t, "write")
  /\ deps' = [deps EXCEPT ![on[t]] = kept[t]]
  /\ kept' = [kept EXCEPT ![t] = {}]
  /\ (Goto(t, "values") /\ UNCHANGED code) \/ Return(t, "Values")
  /\ Disturbs(t)
  /\ UNCHANGED <<loaded, on, enabled, out>>

(* ToRenderValues: the values may not match the chart's schema. *)
ToRenderValues(t) ==
  /\ At(t, "values")
  /\ (Goto(t, "render") /\ UNCHANGED code) \/ Return(t, "Values")
  /\ UNCHANGED <<loaded, deps, on, enabled, kept, out, histVars>>

(* The engine walks the subcharts the chart has by now. It may fail, and so *)
(* may the REST configuration that helm_render_with_config asks for first.  *)
Renders(t) ==
  /\ At(t, "render")
  /\ \/ /\ out' = [out EXCEPT ![t] = deps[on[t]]]
        /\ Return(t, "OK")
     \/ /\ UNCHANGED out
        /\ \E c \in {"Kube", "Render"} : Return(t, c)
  /\ UNCHANGED <<loaded, deps, on, enabled, kept, histVars>>

-----------------------------------------------------------------------------
Init ==
  /\ loaded = {}
  /\ deps = [c \in Charts |-> {}]
  /\ pc = [t \in Callers |-> "idle"]
  /\ on = [t \in Callers |-> NoChart]
  /\ enabled = [t \in Callers |-> {}]
  /\ kept = [t \in Callers |-> {}]
  /\ out = [t \in Callers |-> {}]
  /\ code = [t \in Callers |-> "OK"]
  /\ from = [t \in Callers |-> {}]
  /\ processed = {} /\ first = {} /\ disturbed = {}

Next ==
  \/ \E c \in Charts : LoadChart(c)
  \/ \E t \in Callers :
       \/ \E c \in Charts, e \in SUBSET Subcharts : RenderChart(t, c, e)
       \/ PrepareRender(t) \/ ProcessReads(t) \/ ProcessWrites(t)
       \/ ToRenderValues(t) \/ Renders(t)

Spec == Init /\ [][Next]_vars

-----------------------------------------------------------------------------
(* Every variable keeps its type. *)
TypeOK ==
  /\ loaded \subseteq Charts
  /\ deps \in [Charts -> SUBSET Subcharts]
  /\ pc \in [Callers -> PC]
  /\ on \in [Callers -> Charts \cup {NoChart}]
  /\ \A t \in Callers : pc[t] # "idle" => on[t] \in loaded
  /\ enabled \in [Callers -> SUBSET Subcharts]
  /\ kept \in [Callers -> SUBSET Subcharts]
  /\ out \in [Callers -> SUBSET Subcharts]
  /\ code \in [Callers -> Code]
  /\ from \in [Callers -> SUBSET Subcharts]
  /\ processed \subseteq loaded /\ first \subseteq Callers /\ disturbed \subseteq Callers

(* API.md:303-304: a subchart the values disable is not rendered. Charts    *)
(* may be shared freely and renders are thread-safe, say API.md:157 and     *)
(* 325; then it is not so.                                                  *)
DisabledNeverRenders ==
  \A t \in Callers : At(t, "idle") /\ code[t] = "OK" => out[t] \subseteq enabled[t]

(* What threads that share a chart can rely on (API.md:300-306): a render   *)
(* is of the subcharts the chart had in the instant its processing read     *)
(* them, less those its values disable, whatever the others did before that *)
(* instant or began since, as long as none of them wrote the chart between  *)
(* the call's own write and its rendering (render.go:90, 43).               *)
RendersInOneInstant ==
  \A t \in Callers \ disturbed :
    At(t, "idle") /\ code[t] = "OK" => out[t] = from[t] \cap enabled[t]

(* A render whose processing found the chart as it was loaded has every     *)
(* enabled subchart and no other, whichever renders of the chart were       *)
(* refused before they processed it or raced with this one, under the same  *)
(* condition (API.md:303-306; audit_test.go:143 reloads for this reason).   *)
FirstRenderIsExact ==
  \A t \in first \ disturbed : At(t, "idle") /\ code[t] = "OK" => out[t] = enabled[t]

(* What a render has dropped from a chart is gone for good (API.md:305-306) *)
(* but for one case: a call that read the chart before another wrote it     *)
(* writes back what it had read.                                            *)
PrunedStaysPruned ==
  [][\A c \in loaded :
       \/ deps'[c] \subseteq deps[c]
       \/ \E t \in disturbed : on[t] = c /\ At(t, "write") /\ pc'[t] # "write"]_vars
=============================================================================
