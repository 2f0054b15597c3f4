------------------------- MODULE ChartSharingProofs -------------------------
(***************************************************************************)
(* Proofs about ChartSharing, for any number of threads on any charts:     *)
(* type correctness, and what a render is worth while no other call writes *)
(* its chart at the wrong moment. The whole argument is in the history     *)
(* variable `disturbed`: a step of one caller that changes a chart marks   *)
(* every other call in the middle of it.                                   *)
(***************************************************************************)
EXTENDS ChartSharing, TLAPS

(* What the call of t knows of its chart while nobody has disturbed it.    *)
Progress(t) ==
  /\ At(t, "write") => kept[t] = from[t] \cap enabled[t]
  /\ t \notin disturbed =>
       /\ At(t, "write") => deps[on[t]] = from[t]
       /\ pc[t] \in {"values", "render"} => deps[on[t]] = from[t] \cap enabled[t]
       /\ At(t, "idle") /\ code[t] = "OK" => out[t] = from[t] \cap enabled[t]

(* It is the first of its chart if it read what was loaded. A call that    *)
(* has yet to read is no first one.                                        *)
First(t) ==
  t \in first => from[t] = Subcharts /\ ~At(t, "prepare") /\ ~At(t, "process")

(* A chart nobody has processed is as it was loaded. *)
Untouched == \A c \in loaded \ processed : deps[c] = Subcharts

Inv == TypeOK /\ Untouched /\ \A t \in Callers : Progress(t) /\ First(t)

RenderStep(t) ==
  \/ \E c \in Charts, e \in SUBSET Subcharts : RenderChart(t, c, e)
  \/ PrepareRender(t) \/ ProcessReads(t) \/ ProcessWrites(t)
  \/ ToRenderValues(t) \/ Renders(t)

(* A step of t leaves the calls of the others, and either their charts or  *)
(* a mark on them.                                                         *)
Own(t) ==
  /\ loaded' = loaded
  /\ \A u \in Callers \ {t} :
       /\ pc'[u] = pc[u] /\ on'[u] = on[u] /\ enabled'[u] = enabled[u] /\ kept'[u] = kept[u]
       /\ out'[u] = out[u] /\ code'[u] = code[u] /\ from'[u] = from[u]
       /\ u \in first' <=> u \in first
       /\ u \in disturbed => u \in disturbed'
       /\ pc[u] \in {"write", "values", "render"} /\ u \notin disturbed' =>
            deps'[on[u]] = deps[on[u]]

-----------------------------------------------------------------------------
LEMMA InitInv == Init => Inv
<1>1. SUFFICES ASSUME Init PROVE Inv
  OBVIOUS
<1>2. TypeOK
  BY <1>1 DEF Init, TypeOK, PC, Code
<1>3. Untouched
  BY <1>1 DEF Init, Untouched
<1>4. ASSUME NEW t \in Callers PROVE Progress(t) /\ First(t)
  BY <1>1 DEF Init, Progress, First, At
<1>. QED BY <1>2, <1>3, <1>4 DEF Inv

(* A new chart is no chart a call is on. *)
LEMMA LoadStep ==
  ASSUME TypeOK, NEW c \in Charts, LoadChart(c)
  PROVE  TypeOK' /\ (Inv => Inv')
<1>1. TypeOK'
  BY DEF TypeOK, LoadChart, callVars, histVars
<1>2. ASSUME Inv, NEW t \in Callers PROVE Progress(t)' /\ First(t)'
  <2>1. pc[t] # "idle" => on[t] \in loaded /\ deps'[on[t]] = deps[on[t]]
    BY DEF TypeOK, LoadChart
  <2>. QED BY <1>2, <2>1 DEF Inv, Progress, First, At, LoadChart, callVars, histVars
<1>3. ASSUME Inv PROVE Untouched'
  BY <1>3 DEF Inv, Untouched, TypeOK, LoadChart, histVars
<1>. QED BY <1>1, <1>2, <1>3 DEF Inv

LEMMA RenderTypes ==
  ASSUME TypeOK, NEW t \in Callers, RenderStep(t)
  PROVE  TypeOK' /\ Own(t)
<1>1. ASSUME NEW c \in Charts, NEW e \in SUBSET Subcharts, RenderChart(t, c, e)
      PROVE  TypeOK' /\ Own(t)
  BY <1>1 DEF TypeOK, Own, RenderChart, At, Goto, PC, Code
<1>2. CASE PrepareRender(t)
  <2>1. TypeOK'
    BY <1>2 DEF TypeOK, PrepareRender, Return, At, Goto, PC, Code, histVars
  <2>2. Own(t)
    BY <1>2 DEF TypeOK, Own, PrepareRender, Return, At, Goto, histVars
  <2>. QED BY <2>1, <2>2
<1>3. CASE ProcessReads(t)
  BY <1>3 DEF TypeOK, Own, ProcessReads, At, Goto, PC, Code
<1>4. CASE ProcessWrites(t)
  <2>1. TypeOK'
    BY <1>4 DEF TypeOK, ProcessWrites, Disturbs, Return, At, Goto, PC, Code
  <2>2. Own(t)
    <3>1. /\ disturbed' = (disturbed \ {t}) \cup
               {u \in Callers \ {t} : on[u] = on[t] /\ pc[u] \in {"write", "values", "render"}}
          /\ deps' = [deps EXCEPT ![on[t]] = kept[t]]
          /\ UNCHANGED <<loaded, on, enabled, out, from, first>>
      BY <1>4 DEF ProcessWrites, Disturbs
    <3>2. ASSUME NEW u \in Callers \ {t}
          PROVE  pc'[u] = pc[u] /\ code'[u] = code[u] /\ kept'[u] = kept[u]
      BY <1>4 DEF TypeOK, ProcessWrites, Return, Goto
    <3>3. ASSUME NEW u \in Callers \ {t}, pc[u] \in {"write", "values", "render"}, u \notin disturbed'
          PROVE  deps'[on[u]] = deps[on[u]]
      BY <3>1, <3>3 DEF TypeOK
    <3>. QED BY <3>1, <3>2, <3>3 DEF Own
  <2>. QED BY <2>1, <2>2
<1>5. CASE ToRenderValues(t)
  BY <1>5 DEF TypeOK, Own, ToRenderValues, Return, At, Goto, PC, Code, histVars
<1>6. CASE Renders(t)
  BY <1>6 DEF TypeOK, Own, Renders, Return, At, Goto, PC, Code, histVars
<1>. QED BY <1>1, <1>2, <1>3, <1>4, <1>5, <1>6 DEF RenderStep

(* What a caller's own step does to its own call.                          *)
LEMMA OwnProgress ==
  ASSUME Inv, NEW t \in Callers, RenderStep(t)
  PROVE  Progress(t)' /\ First(t)' /\ Untouched'
<1>. TypeOK
  BY DEF Inv
<1>1. ASSUME NEW c \in Charts, NEW e \in SUBSET Subcharts, RenderChart(t, c, e)
      PROVE  Progress(t)' /\ First(t)' /\ Untouched'
  BY <1>1 DEF Inv, TypeOK, Progress, First, Untouched, RenderChart, At, Goto
<1>2. CASE PrepareRender(t)
  BY <1>2 DEF Inv, TypeOK, Progress, First, Untouched, PrepareRender, Return, At, Goto, histVars
<1>3. CASE ProcessReads(t)
  <2>1. on[t] \in loaded /\ (on[t] \notin processed => deps[on[t]] = Subcharts)
    BY <1>3 DEF Inv, TypeOK, Untouched, ProcessReads, At
  <2>. QED
    BY <1>3, <2>1 DEF Inv, TypeOK, Progress, First, Untouched, ProcessReads, At, Goto
<1>4. CASE ProcessWrites(t)
  <2>1. /\ on[t] \in Charts /\ deps'[on[t]] = kept[t]
        /\ kept[t] = from[t] \cap enabled[t]
        /\ from' = from /\ enabled' = enabled /\ on' = on /\ first' = first
    BY <1>4 DEF Inv, TypeOK, Progress, ProcessWrites, Disturbs, At
  <2>2. pc'[t] = "values" \/ (pc'[t] = "idle" /\ code'[t] = "Values")
    BY <1>4 DEF TypeOK, ProcessWrites, Return, Goto
  <2>3. Progress(t)'
    BY <2>1, <2>2 DEF Progress, At
  <2>4. First(t)'
    BY <2>1, <2>2 DEF Inv, First, At
  <2>5. Untouched'
    BY <1>4, <2>1 DEF Inv, TypeOK, Untouched, ProcessWrites, Disturbs
  <2>. QED BY <2>3, <2>4, <2>5
<1>5. CASE ToRenderValues(t)
  BY <1>5 DEF Inv, TypeOK, Progress, First, Untouched, ToRenderValues, Return, At, Goto, histVars
<1>6. CASE Renders(t)
  BY <1>6 DEF Inv, TypeOK, Progress, First, Untouched, Renders, Return, At, Goto, histVars
<1>. QED BY <1>1, <1>2, <1>3, <1>4, <1>5, <1>6 DEF RenderStep

(* And to the calls of the others: what they know still holds, or they are *)
(* marked.                                                                 *)
LEMMA OtherProgress ==
  ASSUME Inv, NEW t \in Callers, RenderStep(t), NEW u \in Callers \ {t}
  PROVE  Progress(u)' /\ First(u)'
<1>1. Own(t)
  BY RenderTypes DEF Inv
<1>. QED BY <1>1 DEF Own, Inv, Progress, First, At

LEMMA StepKeeps ==
  ASSUME Inv, Next
  PROVE  Inv'
<1>1. ASSUME NEW c \in Charts, LoadChart(c) PROVE Inv'
  BY <1>1, LoadStep DEF Inv
<1>2. ASSUME NEW t \in Callers, RenderStep(t) PROVE Inv'
  BY <1>2, RenderTypes, OwnProgress, OtherProgress DEF Inv
<1>. QED BY <1>1, <1>2 DEF Next, RenderStep

LEMMA StutterKeeps ==
  ASSUME Inv, UNCHANGED vars
  PROVE  Inv'
<1>1. TypeOK'
  BY DEF Inv, TypeOK, vars, callVars, histVars
<1>2. Untouched'
  BY DEF Inv, Untouched, vars, histVars
<1>3. \A t \in Callers : Progress(t)' /\ First(t)'
  BY DEF Inv, Progress, First, At, vars, callVars, histVars
<1>. QED BY <1>1, <1>2, <1>3 DEF Inv

LEMMA InvHolds == Spec => []Inv
<1>1. Inv /\ [Next]_vars => Inv'
  BY StepKeeps, StutterKeeps
<1>. QED BY InitInv, <1>1, PTL DEF Spec

-----------------------------------------------------------------------------
(* Every variable keeps its type, however the host shares its charts.      *)
THEOREM SharingTypeCorrect == Spec => []TypeOK
<1>1. Inv => TypeOK
  BY DEF Inv
<1>. QED BY <1>1, InvHolds, PTL

(* Threads that share charts get, from a render nobody disturbed between   *)
(* its write and its rendering, the chart of one instant under the call's  *)
(* own values (API.md:300-306).                                            *)
THEOREM UndisturbedRendersAreAtomic == Spec => []RendersInOneInstant
<1>1. Inv => RendersInOneInstant
  BY DEF Inv, Progress, RendersInOneInstant
<1>. QED BY <1>1, InvHolds, PTL

(* Such a render of a chart as it was loaded is exact (API.md:303-306).    *)
THEOREM FreshRendersAreExact == Spec => []FirstRenderIsExact
<1>1. ASSUME Inv, NEW t \in first \ disturbed, At(t, "idle"), code[t] = "OK"
      PROVE  out[t] = enabled[t]
  <2>1. t \in Callers /\ enabled[t] \subseteq Subcharts
    BY <1>1 DEF Inv, TypeOK
  <2>2. out[t] = from[t] \cap enabled[t] /\ from[t] = Subcharts
    BY <1>1, <2>1 DEF Inv, Progress, First
  <2>. QED BY <2>1, <2>2
<1>2. Inv => FirstRenderIsExact
  BY <1>1 DEF FirstRenderIsExact
<1>. QED BY <1>2, InvHolds, PTL

Shrinks ==
  \A c \in loaded :
    \/ deps'[c] \subseteq deps[c]
    \/ \E t \in disturbed : on[t] = c /\ At(t, "write") /\ pc'[t] # "write"

(* What a render drops is gone for good, unless a call that read the chart *)
(* before another wrote it writes it back (API.md:305-306).                *)
THEOREM OnlyLateWritersRestore == Spec => PrunedStaysPruned
<1>1. ASSUME Inv, NEW c \in Charts, LoadChart(c) PROVE Shrinks
  BY <1>1 DEF Inv, TypeOK, LoadChart, Shrinks
<1>2. ASSUME Inv, NEW t \in Callers, ProcessWrites(t) PROVE Shrinks
  <2>1. /\ on[t] \in Charts /\ deps' = [deps EXCEPT ![on[t]] = kept[t]]
        /\ At(t, "write") /\ pc'[t] # "write"
    BY <1>2 DEF Inv, TypeOK, ProcessWrites, Return, Goto, At
  <2>2. deps \in [Charts -> SUBSET Subcharts] /\ loaded \subseteq Charts
    BY <1>2 DEF Inv, TypeOK
  <2>3. CASE t \in disturbed
    BY <2>1, <2>2, <2>3 DEF Shrinks
  <2>4. CASE t \notin disturbed
    <3>1. kept[t] \subseteq deps[on[t]]
      BY <1>2, <2>1, <2>4 DEF Inv, Progress
    <3>. QED BY <2>1, <2>2, <3>1 DEF Shrinks
  <2>. QED BY <2>3, <2>4
<1>3. ASSUME NEW t \in Callers, RenderStep(t), ~ProcessWrites(t) PROVE Shrinks
  BY <1>3 DEF RenderStep, RenderChart, PrepareRender, ProcessReads, ToRenderValues, Renders, Shrinks
<1>4. Inv /\ [Next]_vars => [Shrinks]_vars
  BY <1>1, <1>2, <1>3 DEF Next, RenderStep
<1>. QED BY <1>4, InvHolds, PTL DEF Spec, PrunedStaysPruned, Shrinks
=============================================================================
