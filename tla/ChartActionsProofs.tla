------------------------- MODULE ChartActionsProofs -------------------------
(***************************************************************************)
(* Theorems about helm_install and helm_upgrade: for any number of callers *)
(* and contexts. A call shares little with the others, so the invariant is *)
(* one about each caller: Path says what is settled at each step of its    *)
(* call, Outcome what its last return means; and Meeting is about two, that *)
(* update one directory.                                                   *)
(***************************************************************************)
EXTENDS ChartActions, TLAPS

-----------------------------------------------------------------------------
(* Errors. *)

LEMMA WithCodeIs ==
  ASSUME NEW c \in Code, NEW e \in Error
  PROVE  /\ WithCode(c, e) \in Error
         /\ WithCode(c, e).cause = e.cause
         /\ FromError(WithCode(c, e)) = c
<1>1. e.codes \in Seq(Code) /\ e.cause \in Cause
  BY DEF Error
<1> DEFINE codes == << c >> \o e.codes
<1>2. codes \in Seq(Code) /\ codes # << >> /\ Head(codes) = c
  BY <1>1
<1> HIDE DEF codes
<1>3. WithCode(c, e) = [codes |-> codes, cause |-> e.cause]
  BY DEF WithCode, codes
<1>4. WithCode(c, e) # NoError
  <2>1. WithCode(c, e).codes = codes /\ NoError.codes = << >>
    BY <1>3 DEF NoError
  <2> QED
    BY <2>1, <1>2
<1> QED
  BY <1>1, <1>2, <1>3, <1>4 DEF Error, FromError

LEMMA PlainIs == ASSUME NEW x \in Cause PROVE Plain(x) \in Error /\ Plain(x).cause = x
BY DEF Plain, Error

LEMMA CodedIs ==
  ASSUME NEW c \in Code
  PROVE  Coded(c) \in Error /\ Coded(c).cause = "other" /\ FromError(Coded(c)) = c
BY WithCodeIs, PlainIs DEF Coded, Cause, SDKCause

LEMMA NoErrorIs == NoError \in Error /\ NoError.cause = "none" /\ FromError(NoError) = "OK"
BY DEF NoError, Error, FromError, Cause

(* What an error of the SDK becomes. *)
LEMMA WrapIs ==
  ASSUME NEW x \in Cause, NEW e, e = WrapActionError(Plain(x), "Release")
  PROVE  /\ e \in Error /\ e.cause = x
         /\ FromError(e) \in {"Cancelled", "NotFound", "Kube", "Release"}
<1>1. Plain(x) \in Error /\ Plain(x).cause = x
  BY PlainIs
<1>2. \A c \in {"Cancelled", "NotFound", "Kube", "Release"} :
        /\ WithCode(c, Plain(x)) \in Error
        /\ WithCode(c, Plain(x)).cause = x
        /\ FromError(WithCode(c, Plain(x))) = c
  BY <1>1, WithCodeIs DEF Code
<1>3. \E c \in {"Cancelled", "NotFound", "Kube", "Release"} : e = WithCode(c, Plain(x))
  BY <1>1 DEF WrapActionError
<1> QED
  BY <1>2, <1>3

(* What finishRelease returns. *)
LEMMA FinishReleaseIs ==
  ASSUME NEW t \in Callers, NEW x \in Cause, FinishRelease(t, x)
  PROVE  \E e \in Error :
           /\ Return(t, e)
           /\ FromError(e) \in {"OK", "Cancelled", "NotFound", "Kube", "Release"}
           /\ e.cause = "canceled" => x = "canceled"
<1>1. CASE x = "none"
  <2>1. "Release" \in Code
    BY DEF Code
  <2> QED
    BY <1>1, <2>1, NoErrorIs, CodedIs DEF FinishRelease
<1>2. CASE x # "none"
  BY <1>2, WrapIs DEF FinishRelease
<1> QED
  BY <1>1, <1>2

-----------------------------------------------------------------------------
(* The invariant. *)

(* What is settled where the call of caller t is. *)
Path(t) ==
  /\ pc[t] \notin {"idle", "select", "fail"}
       => entered[t] = "no" /\ t \notin recorded /\ sdk[t] = "none"
  /\ t \in early => call[t].ctx \in done /\ entered[t] = "no" /\ pc[t] \in {"idle", "prologue"}
  /\ pc[t] \in {"run", "select", "fail"} =>
       (t \notin crowded => chart[t] = "whole") /\ scratch[t] = {}
  /\ pc[t] \in {"select", "fail"} => t \in recorded
  /\ At(t, "fail") =>
       \E x \in Cause : error[t] = Plain(x) /\ (x = "canceled" => call[t].ctx \in done)
  /\ At(t, "manage") => scratch[t] = {"deps"}
  /\ pc[t] \in {"manage", "update", "fill", "reload"} => call[t].from.dir \in Dirs
  /\ At(t, "reload") /\ t \notin crowded => call[t].from.dir \in vendored
  /\ entered[t] # "no" /\ t \notin crowded => chart[t] = "whole"

Refusal == {"InvalidArg", "Values", "ChartLoad", "ChartInvalid", "Registry", "Repo", "IO"}

(* What the return of caller t's last call means. *)
Outcome(t) ==
  At(t, "idle") =>
    /\ code[t] = "Cancelled" /\ error[t].cause = "canceled"
         => call[t].ctx \in done /\ (entered[t] = "no" \/ t \in recorded \cup undo)
    /\ code[t] \in Refusal => t \notin recorded /\ entered[t] = "no" /\ sdk[t] = "none"
    /\ scratch[t] = {} \/ (code[t] = "Panic" /\ scratch[t] = {"deps"})

(* Whose update of a directory meets another's that is not done is crowded. *)
Meeting ==
  \A t, u \in Callers :
    t # u /\ pc[u] = "fill" /\ pc[t] \in {"fill", "reload"} /\ call[t].from.dir = call[u].from.dir
      => t \in crowded

Inv == Meeting /\ \A t \in Callers : Path(t) /\ Outcome(t)

(* What u has vendored and is about to load stays. *)
KeepsDir(u) ==
  At(u, "reload") /\ u \notin crowded' /\ call[u].from.dir \in vendored
    => call[u].from.dir \in vendored'

(* A step by another: nothing of u changes but that it may be crowded, and  *)
(* nothing shared that it relies on is undone.                              *)
Keeps(u) ==
  /\ pc'[u] = pc[u] /\ scratch'[u] = scratch[u] /\ error'[u] = error[u] /\ code'[u] = code[u]
  /\ call'[u] = call[u] /\ chart'[u] = chart[u] /\ sdk'[u] = sdk[u] /\ entered'[u] = entered[u]
  /\ u \in recorded' <=> u \in recorded
  /\ u \in undo' <=> u \in undo
  /\ u \in early' <=> u \in early
  /\ u \in crowded => u \in crowded'
  /\ done \subseteq done' /\ KeepsDir(u)

LEMMA KeptInv ==
  ASSUME NEW u \in Callers, Path(u), Outcome(u), Keeps(u)
  PROVE  Path(u)' /\ Outcome(u)'
<1>1. Path(u)'
  BY DEF Path, Keeps, KeepsDir, At
<1>2. Outcome(u)'
  BY DEF Outcome, Keeps, At
<1> QED
  BY <1>1, <1>2

-----------------------------------------------------------------------------
(* Types. *)

LEMMA FromErrorType == ASSUME NEW e \in Error PROVE FromError(e) \in Code
<1>1. e.codes \in Seq(Code)
  BY DEF Error
<1>2. e.codes # << >> => Head(e.codes) \in Code
  BY <1>1
<1> QED
  BY <1>2 DEF FromError, Code

StepTypes ==
  /\ pc \in [Callers -> PC]
  /\ call \in [Callers -> Args]
  /\ scratch \in [Callers -> SUBSET Scratch]
  /\ error \in [Callers -> Error]
  /\ code \in [Callers -> Code]

(* How a call that returns, or goes on, leaves its own variables. *)
LEMMA LeaveIs ==
  ASSUME TypeOK, NEW t \in Callers, NEW e \in Error, NEW dirs \in SUBSET Scratch,
         Leave(t, e, dirs)
  PROVE  /\ StepTypes'
         /\ pc'[t] = "idle" /\ scratch'[t] = dirs /\ error'[t] = e /\ code'[t] = FromError(e)
         /\ call'[t].ctx = call[t].ctx
         /\ \A u \in Callers \ {t} :
              /\ pc'[u] = pc[u] /\ scratch'[u] = scratch[u] /\ call'[u] = call[u]
              /\ error'[u] = error[u] /\ code'[u] = code[u]
<1>1. FromError(e) \in Code
  BY FromErrorType
<1>2. pc \in [Callers -> PC] /\ "idle" \in PC
  BY DEF TypeOK, PC
<1>3. call \in [Callers -> Args] /\ [ctx |-> call[t].ctx, from |-> NoSource] \in Args
  BY DEF TypeOK, Args, NoSource, Source
<1> QED
  BY <1>1, <1>2, <1>3 DEF Leave, TypeOK, StepTypes

LEMMA ReturnIs ==
  ASSUME TypeOK, NEW t \in Callers, NEW e \in Error, Return(t, e)
  PROVE  /\ StepTypes'
         /\ pc'[t] = "idle" /\ scratch'[t] = {} /\ error'[t] = e /\ code'[t] = FromError(e)
         /\ call'[t].ctx = call[t].ctx
         /\ \A u \in Callers \ {t} :
              /\ pc'[u] = pc[u] /\ scratch'[u] = scratch[u] /\ call'[u] = call[u]
              /\ error'[u] = error[u] /\ code'[u] = code[u]
BY LeaveIs DEF Return

LEMMA GoIs ==
  ASSUME TypeOK, NEW t \in Callers, NEW l \in PC, NEW dirs \in SUBSET Scratch,
         Go(t, l, dirs)
  PROVE  /\ StepTypes'
         /\ pc'[t] = l /\ scratch'[t] = dirs /\ error' = error /\ code' = code
         /\ call' = call
         /\ \A u \in Callers \ {t} : pc'[u] = pc[u] /\ scratch'[u] = scratch[u]
BY DEF Go, TypeOK, StepTypes

-----------------------------------------------------------------------------
(* The two ways a step before RunWithContext can end. *)

(* What every step of the preparation leaves alone. *)
Quiet(t) ==
  /\ UNCHANGED <<done, sdk, recorded, undo, early, entered, crowded>>
  /\ vendored' \subseteq Dirs
  /\ chart' \in [Callers -> {"none", "whole", "lacking"}]
  /\ \A u \in Callers \ {t} : chart'[u] = chart[u] /\ KeepsDir(u)

(* What is to be shown of a step of caller t. *)
Good(t) ==
  TypeOK' /\ Path(t)' /\ Outcome(t)' /\ Meeting' /\ \A u \in Callers \ {t} : Keeps(u)

LEMMA QuietTypes ==
  ASSUME TypeOK, NEW t \in Callers, Quiet(t), StepTypes'
  PROVE  TypeOK'
BY DEF TypeOK, Quiet, StepTypes

(* Nobody meets anybody anew unless an update begins. *)
LEMMA MeetingFrame ==
  ASSUME Meeting, NEW t \in Callers,
         \A u \in Callers \ {t} : pc'[u] = pc[u] /\ call'[u] = call[u],
         pc'[t] = "fill" => pc[t] = "fill",
         pc'[t] \in {"fill", "reload"} =>
           pc[t] \in {"fill", "reload"} /\ call'[t] = call[t] /\ (t \in crowded => t \in crowded'),
         \A u \in Callers \ {t} : u \in crowded => u \in crowded'
  PROVE  Meeting'
BY DEF Meeting

LEMMA ReturnGood ==
  ASSUME TypeOK, Meeting, NEW t \in Callers, Path(t), Quiet(t),
         pc[t] \notin {"idle", "select", "fail"},
         NEW e \in Error, Return(t, e),
         e.cause = "canceled" => call[t].ctx \in done
  PROVE  Good(t)
<1>1. /\ StepTypes' /\ pc'[t] = "idle" /\ scratch'[t] = {} /\ error'[t] = e
      /\ call'[t].ctx = call[t].ctx
      /\ \A u \in Callers \ {t} :
           /\ pc'[u] = pc[u] /\ scratch'[u] = scratch[u] /\ call'[u] = call[u]
           /\ error'[u] = error[u] /\ code'[u] = code[u]
  BY ReturnIs
<1>2. entered[t] = "no" /\ t \notin recorded /\ sdk[t] = "none"
  BY DEF Path
<1>3. TypeOK'
  BY <1>1, QuietTypes
<1>4. Path(t)'
  BY <1>1, <1>2 DEF Path, Quiet, At
<1>5. Outcome(t)'
  BY <1>1, <1>2 DEF Outcome, Quiet, At
<1>6. \A u \in Callers \ {t} : Keeps(u)
  BY <1>1 DEF Keeps, Quiet
<1>7. Meeting'
  BY <1>1, MeetingFrame DEF Quiet
<1> QED
  BY <1>3, <1>4, <1>5, <1>6, <1>7 DEF Good

LEMMA GoGood ==
  ASSUME TypeOK, Meeting, NEW t \in Callers, Path(t), Quiet(t),
         pc[t] \notin {"idle", "select", "fail"}, t \notin early,
         NEW l \in PC \ {"idle", "select", "fail", "fill"}, NEW dirs \in SUBSET Scratch,
         Go(t, l, dirs),
         l = "run" => (t \notin crowded => chart'[t] = "whole") /\ dirs = {},
         l = "manage" => dirs = {"deps"},
         l \in {"manage", "update", "reload"} => call[t].from.dir \in Dirs,
         l = "reload" => pc[t] = "fill" /\ (t \notin crowded => call[t].from.dir \in vendored')
  PROVE  Good(t)
<1>1. /\ StepTypes' /\ pc'[t] = l /\ scratch'[t] = dirs /\ error' = error /\ code' = code
      /\ call' = call
      /\ \A u \in Callers \ {t} : pc'[u] = pc[u] /\ scratch'[u] = scratch[u]
  BY GoIs
<1>2. entered[t] = "no" /\ t \notin recorded /\ sdk[t] = "none"
  BY DEF Path
<1>3. TypeOK'
  BY <1>1, QuietTypes
<1>4. Path(t)'
  BY <1>1, <1>2 DEF Path, Quiet, At
<1>5. Outcome(t)'
  BY <1>1 DEF Outcome, At
<1>6. \A u \in Callers \ {t} : Keeps(u)
  BY <1>1 DEF Keeps, Quiet
<1>7. Meeting'
  BY <1>1, MeetingFrame DEF Quiet
<1> QED
  BY <1>3, <1>4, <1>5, <1>6, <1>7 DEF Good

(* Nothing shared and no chart changes: most steps. *)
LEMMA UnchangedIsQuiet ==
  ASSUME TypeOK, UNCHANGED <<worldVars, chart, sdk, recorded, undo, early, entered, crowded>>,
         NEW t \in Callers
  PROVE  Quiet(t)
BY DEF Quiet, KeepsDir, TypeOK, worldVars

(* A step that resolves a chart, or leaves it. *)
LEMMA GetsIsQuiet ==
  ASSUME TypeOK, UNCHANGED <<worldVars, sdk, recorded, undo, early, entered, crowded>>,
         NEW t \in Callers,
         (\E c \in {"whole", "lacking"} : Gets(t, c)) \/ UNCHANGED chart
  PROVE  Quiet(t)
<1>1. UNCHANGED <<done, vendored, sdk, recorded, undo, early, entered, crowded>>
  BY DEF worldVars
<1>2. chart' \in [Callers -> {"none", "whole", "lacking"}]
      /\ \A u \in Callers \ {t} : chart'[u] = chart[u]
  BY DEF Gets, TypeOK
<1> QED
  BY <1>1, <1>2 DEF Quiet, KeepsDir, TypeOK

-----------------------------------------------------------------------------
(* The steps, action by action. *)

LEMMA PrologueSteps ==
  ASSUME TypeOK, Meeting, NEW t \in Callers, Path(t), CheckNotCancelled(t) \/ ActionPrologue(t)
  PROVE  Good(t)
<1>1. pc[t] \notin {"idle", "select", "fail"}
  BY DEF CheckNotCancelled, ActionPrologue, At
<1>2. Quiet(t)
  BY UnchangedIsQuiet DEF CheckNotCancelled, ActionPrologue
<1>3. CASE CheckNotCancelled(t)
  <2> DEFINE e == WithCode("Cancelled", Plain("canceled"))
  <2>1. e \in Error
    BY WithCodeIs, PlainIs DEF Code, Cause
  <2>2. Return(t, e) /\ call[t].ctx \in done
    BY <1>3 DEF CheckNotCancelled
  <2> QED
    BY <1>1, <1>2, <2>1, <2>2, ReturnGood
<1>4. CASE ActionPrologue(t) /\ Return(t, Coded("Values"))
  <2>1. Coded("Values") \in Error /\ Coded("Values").cause = "other"
    BY CodedIs DEF Code
  <2> QED
    BY <1>1, <1>2, <1>4, <2>1, ReturnGood
<1>5. CASE ActionPrologue(t) /\ Go(t, "configure", {})
  <2>1. t \notin early
    BY <1>5 DEF ActionPrologue, Path
  <2>2. "configure" \in PC \ {"idle", "select", "fail", "fill"} /\ {} \in SUBSET Scratch
    BY DEF PC
  <2> QED
    BY <1>1, <1>2, <1>5, <2>1, <2>2, GoGood
<1> QED
  BY <1>3, <1>4, <1>5 DEF ActionPrologue

(* Past the prologue a context that was cancelled early is out of play. *)
LEMMA NotEarly ==
  ASSUME NEW t \in Callers, Path(t), pc[t] \notin {"idle", "prologue"}
  PROVE  t \notin early
BY DEF Path

LEMMA Wrapped ==
  ASSUME NEW c \in Code
  PROVE  /\ WithCode("ChartLoad", Coded(c)) \in Error
         /\ WithCode("ChartLoad", Coded(c)).cause = "other"
BY CodedIs, WithCodeIs DEF Code

LEMMA Codes ==
  \A c \in {"InvalidArg", "Panic", "IO", "ChartLoad", "ChartInvalid", "Values", "Registry",
            "Repo", "Kube", "Release"} :
    c \in Code /\ Coded(c) \in Error /\ Coded(c).cause = "other"
BY CodedIs DEF Code

LEMMA ConfigureStep ==
  ASSUME TypeOK, Meeting, NEW t \in Callers, Path(t), Configure(t)
  PROVE  Good(t)
<1>1. At(t, "configure") /\ pc[t] \notin {"idle", "select", "fail", "prologue"}
  BY DEF Configure, At
<1>2. Quiet(t) /\ t \notin early
  BY <1>1, UnchangedIsQuiet, NotEarly DEF Configure
<1>3. CASE Go(t, "resolve", {})
  BY <1>1, <1>2, <1>3, GoGood DEF PC
<1>4. CASE Return(t, Coded("InvalidArg")) \/ Return(t, Coded("Kube"))
  BY <1>1, <1>2, <1>4, Codes, ReturnGood
<1> QED
  BY <1>3, <1>4 DEF Configure

LEMMA ResolveSteps ==
  ASSUME TypeOK, Meeting, NEW t \in Callers, Path(t),
         ResolveInvalid(t) \/ ResolveLocal(t) \/ ResolveRemote(t)
  PROVE  Good(t)
<1>1. At(t, "resolve") /\ pc[t] \notin {"idle", "select", "fail", "prologue"}
  BY DEF ResolveInvalid, ResolveLocal, ResolveRemote, At
<1>2. t \notin early
  BY <1>1, NotEarly
<1>3. CASE ResolveInvalid(t)
  <2>1. Quiet(t)
    BY <1>3, UnchangedIsQuiet DEF ResolveInvalid
  <2> QED
    BY <1>1, <1>3, <2>1, Codes, ReturnGood DEF ResolveInvalid
<1>4. CASE ResolveLocal(t)
  <2>1. Quiet(t)
    BY <1>4, GetsIsQuiet DEF ResolveLocal
  <2>2. CASE Go(t, "dependencies", {})
    BY <1>1, <1>2, <2>1, <2>2, GoGood DEF PC
  <2>3. CASE Return(t, Coded("ChartLoad"))
    BY <1>1, <2>1, <2>3, Codes, ReturnGood
  <2> QED
    BY <1>4, <2>2, <2>3 DEF ResolveLocal
<1>5. CASE ResolveRemote(t)
  <2>1. Quiet(t)
    BY <1>5, UnchangedIsQuiet DEF ResolveRemote
  <2>2. CASE Go(t, "pull", {"chart"})
    BY <1>1, <1>2, <2>1, <2>2, GoGood DEF PC, Scratch
  <2>3. CASE Return(t, Coded("ChartLoad")) \/ Return(t, Coded("IO"))
    BY <1>1, <2>1, <2>3, Codes, ReturnGood
  <2> QED
    BY <1>5, <2>2, <2>3 DEF ResolveRemote
<1> QED
  BY <1>3, <1>4, <1>5

LEMMA PullSteps ==
  ASSUME TypeOK, Meeting, NEW t \in Callers, Path(t), Pull(t) \/ Download(t) \/ LoadPulled(t)
  PROVE  Good(t)
<1>1. pc[t] \notin {"idle", "select", "fail", "prologue"}
  BY DEF Pull, Download, LoadPulled, At
<1>2. t \notin early
  BY <1>1, NotEarly
<1>3. CASE Pull(t)
  <2>1. Quiet(t)
    BY <1>3, UnchangedIsQuiet DEF Pull
  <2>2. CASE Go(t, "download", {"chart", "pull"})
    BY <1>1, <1>2, <2>1, <2>2, GoGood DEF PC, Scratch
  <2>3. CASE \E c \in {"Registry", "IO"} : Return(t, WithCode("ChartLoad", Coded(c)))
    <3>1. PICK c \in {"Registry", "IO"} : Return(t, WithCode("ChartLoad", Coded(c)))
      BY <2>3
    <3>2. c \in Code
      BY Codes
    <3> QED
      BY <1>1, <2>1, <3>1, <3>2, Wrapped, ReturnGood
  <2> QED
    BY <1>3, <2>2, <2>3 DEF Pull
<1>4. CASE Download(t)
  <2>1. Quiet(t)
    BY <1>4, UnchangedIsQuiet DEF Download
  <2>2. CASE Go(t, "load", {"chart"})
    BY <1>1, <1>2, <2>1, <2>2, GoGood DEF PC, Scratch
  <2>3. CASE Return(t, WithCode("ChartLoad", Coded("Repo")))
    BY <1>1, <2>1, <2>3, Codes, Wrapped, ReturnGood
  <2> QED
    BY <1>4, <2>2, <2>3 DEF Download
<1>5. CASE LoadPulled(t)
  <2>1. Quiet(t)
    BY <1>5, GetsIsQuiet DEF LoadPulled
  <2>2. CASE Go(t, "dependencies", {})
    BY <1>1, <1>2, <2>1, <2>2, GoGood DEF PC
  <2>3. CASE Return(t, Coded("ChartLoad"))
    BY <1>1, <2>1, <2>3, Codes, ReturnGood
  <2> QED
    BY <1>5, <2>2, <2>3 DEF LoadPulled
<1> QED
  BY <1>3, <1>4, <1>5

LEMMA EnsureDependenciesStep ==
  ASSUME TypeOK, Meeting, NEW t \in Callers, Path(t), EnsureDependencies(t)
  PROVE  Good(t)
<1>1. pc[t] \notin {"idle", "select", "fail", "prologue"}
  BY DEF EnsureDependencies, At
<1>2. t \notin early /\ Quiet(t) /\ chart' = chart
  BY <1>1, NotEarly, UnchangedIsQuiet DEF EnsureDependencies
<1>3. CASE chart[t] = "whole" /\ Go(t, "run", {})
  BY <1>1, <1>2, <1>3, GoGood DEF PC
<1>4. CASE Return(t, Coded("ChartInvalid")) \/ Return(t, Coded("IO"))
  BY <1>1, <1>2, <1>4, Codes, ReturnGood
<1>5. CASE call[t].from.dir # NoDir /\ Go(t, "manage", {"deps"})
  <2>1. call[t].from \in Source
    BY DEF TypeOK, Args
  <2>2. call[t].from.dir \in Dirs
    BY <1>5, <2>1 DEF Source
  <2>3. "manage" \in PC \ {"idle", "select", "fail", "fill"} /\ {"deps"} \in SUBSET Scratch
    BY DEF PC, Scratch
  <2> QED
    BY <1>1, <1>2, <1>5, <2>2, <2>3, GoGood
<1> QED
  BY <1>3, <1>4, <1>5 DEF EnsureDependencies

LEMMA DependencyManagerStep ==
  ASSUME TypeOK, Meeting, NEW t \in Callers, Path(t), DependencyManager(t)
  PROVE  Good(t)
<1>1. pc[t] = "manage" /\ t \notin early /\ call[t].from.dir \in Dirs
  BY DEF DependencyManager, At, Path
<1>2. Quiet(t)
  BY UnchangedIsQuiet DEF DependencyManager
<1>3. CASE Go(t, "update", {"deps"})
  BY <1>1, <1>2, <1>3, GoGood DEF PC, Scratch
<1>4. CASE \E c \in {"IO", "ChartLoad", "Registry"} : Return(t, Coded(c))
  BY <1>1, <1>2, <1>4, Codes, ReturnGood
<1> QED
  BY <1>3, <1>4 DEF DependencyManager

(* Whoever relies on what the directory held is crowded from now on. *)
LEMMA UpdateBeginsStep ==
  ASSUME TypeOK, Meeting, NEW t \in Callers, Path(t), UpdateBegins(t)
  PROVE  Good(t)
<1> DEFINE dir == call[t].from.dir
<1>1. /\ pc[t] = "update" /\ t \notin early /\ dir \in Dirs
      /\ entered[t] = "no" /\ t \notin recorded /\ sdk[t] = "none"
  BY DEF UpdateBegins, At, Path
<1>2. /\ StepTypes' /\ pc'[t] = "fill" /\ scratch'[t] = {"deps"} /\ error' = error
      /\ code' = code /\ call' = call
      /\ \A u \in Callers \ {t} : pc'[u] = pc[u] /\ scratch'[u] = scratch[u]
  <2>1. "fill" \in PC /\ {"deps"} \in SUBSET Scratch /\ Go(t, "fill", {"deps"})
    BY DEF UpdateBegins, PC, Scratch
  <2> QED
    BY <2>1, GoIs
<1>3. /\ UNCHANGED <<done, chart, sdk, recorded, undo, early, entered>>
      /\ crowded \subseteq crowded' /\ crowded' \subseteq Callers
      /\ vendored' \subseteq Dirs /\ vendored \subseteq vendored' \cup {dir}
      /\ Meets(t) \subseteq crowded'
      /\ (\E u \in Meets(t) : At(u, "fill")) => t \in crowded'
  BY DEF UpdateBegins, Meets, TypeOK
<1>4. TypeOK'
  BY <1>2, <1>3 DEF TypeOK, StepTypes
<1>5. Path(t)'
  BY <1>1, <1>2, <1>3 DEF Path, At
<1>6. Outcome(t)'
  BY <1>2 DEF Outcome, At
<1>7. \A u \in Callers \ {t} : Keeps(u)
  BY <1>2, <1>3 DEF Keeps, KeepsDir, Meets, At
<1>8. Meeting'
  <2> SUFFICES ASSUME NEW v \in Callers, NEW u \in Callers, v # u,
                      pc'[u] = "fill", pc'[v] \in {"fill", "reload"},
                      call[v].from.dir = call[u].from.dir
               PROVE  v \in crowded'
    BY <1>2 DEF Meeting
  <2>1. CASE u = t
    BY <1>2, <1>3, <2>1 DEF Meets
  <2>2. CASE v = t
    BY <1>2, <1>3, <2>2 DEF Meets, At
  <2>3. CASE u # t /\ v # t
    BY <1>2, <1>3, <2>3 DEF Meeting
  <2> QED
    BY <2>1, <2>2, <2>3
<1> QED
  BY <1>4, <1>5, <1>6, <1>7, <1>8 DEF Good

LEMMA UpdateEndsStep ==
  ASSUME TypeOK, Meeting, NEW t \in Callers, Path(t), UpdateEnds(t)
  PROVE  Good(t)
<1> DEFINE dir == call[t].from.dir
<1>1. pc[t] = "fill" /\ t \notin early /\ dir \in Dirs
  BY DEF UpdateEnds, At, Path
<1>2. /\ UNCHANGED <<done, chart, sdk, recorded, undo, early, entered, crowded>>
      /\ vendored' \subseteq Dirs /\ vendored \subseteq vendored' \cup {dir}
  BY <1>1 DEF UpdateEnds, TypeOK
<1>3. \A u \in Callers \ {t} : KeepsDir(u)
  BY <1>1, <1>2 DEF KeepsDir, Meeting, At
<1>4. Quiet(t)
  BY <1>2, <1>3 DEF Quiet, TypeOK
<1>5. CASE /\ vendored' = vendored \cup {dir} \/ t \in crowded
           /\ Go(t, "reload", {})
  BY <1>1, <1>4, <1>5, GoGood DEF PC
<1>6. CASE Return(t, Coded("Repo"))
  BY <1>1, <1>4, <1>6, Codes, ReturnGood
<1> QED
  BY <1>5, <1>6 DEF UpdateEnds

LEMMA ReloadStep ==
  ASSUME TypeOK, Meeting, NEW t \in Callers, Path(t), Reload(t)
  PROVE  Good(t)
<1>1. pc[t] = "reload" /\ t \notin early /\ (t \notin crowded => call[t].from.dir \in vendored)
  BY DEF Reload, At, Path
<1>2. CASE Gets(t, IF call[t].from.dir \in vendored THEN "whole" ELSE "lacking")
           /\ Go(t, "run", {})
  <2>1. PICK c \in {"whole", "lacking"} : Gets(t, c) /\ (t \notin crowded => c = "whole")
    BY <1>1, <1>2
  <2>2. Quiet(t)
    BY <2>1, GetsIsQuiet DEF Reload
  <2>3. t \notin crowded => chart'[t] = "whole"
    BY <2>1 DEF Gets, TypeOK
  <2> QED
    BY <1>1, <1>2, <2>2, <2>3, GoGood DEF PC
<1>3. CASE Return(t, Coded("ChartLoad")) /\ UNCHANGED chart
  <2>1. Quiet(t)
    BY <1>3, GetsIsQuiet DEF Reload
  <2> QED
    BY <1>1, <1>3, <2>1, Codes, ReturnGood
<1> QED
  BY <1>2, <1>3 DEF Reload

-----------------------------------------------------------------------------
(* Steps in and after the SDK. *)

LEMMA RunEndsStep ==
  ASSUME TypeOK, Meeting, NEW t \in Callers, Path(t), RunEnds(t)
  PROVE  Good(t)
<1>1. /\ pc[t] = "run" /\ entered[t] = "no" /\ t \notin recorded /\ t \notin early
      /\ sdk[t] = "none" /\ (t \notin crowded => chart[t] = "whole")
  BY DEF RunEnds, At, Path
<1>2. PICK cause \in SDKCause \cup {"none"} : FinishRelease(t, cause)
  BY DEF RunEnds
<1>3. cause \in Cause /\ cause # "canceled"
  BY DEF Cause, SDKCause
<1>4. PICK e \in Error :
        /\ Return(t, e)
        /\ FromError(e) \in {"OK", "Cancelled", "NotFound", "Kube", "Release"}
        /\ e.cause # "canceled"
  BY <1>2, <1>3, FinishReleaseIs
<1>5. /\ StepTypes' /\ pc'[t] = "idle" /\ scratch'[t] = {} /\ error'[t] = e
      /\ code'[t] = FromError(e) /\ call'[t].ctx = call[t].ctx
      /\ \A u \in Callers \ {t} :
           /\ pc'[u] = pc[u] /\ scratch'[u] = scratch[u] /\ call'[u] = call[u]
           /\ error'[u] = error[u] /\ code'[u] = code[u]
  BY <1>4, ReturnIs
<1>6. UNCHANGED <<done, vendored, chart, sdk, recorded, undo, early, crowded>>
  BY DEF RunEnds, worldVars
<1>7. /\ entered' \in [Callers -> {"no", "live", "cancelled"}]
      /\ \A u \in Callers \ {t} : entered'[u] = entered[u]
  BY DEF RunEnds, Enters, TypeOK
<1>8. TypeOK'
  BY <1>5, <1>6, <1>7 DEF TypeOK, StepTypes
<1>9. Path(t)'
  BY <1>1, <1>5, <1>6 DEF Path, At
<1>10. Outcome(t)'
  BY <1>4, <1>5 DEF Outcome, Refusal
<1>11. \A u \in Callers \ {t} : Keeps(u)
  BY <1>5, <1>6, <1>7 DEF Keeps, KeepsDir
<1>12. Meeting'
  BY <1>5, <1>6, MeetingFrame
<1> QED
  BY <1>8, <1>9, <1>10, <1>11, <1>12 DEF Good

LEMMA RunLaunchesStep ==
  ASSUME TypeOK, Meeting, NEW t \in Callers, Path(t), RunLaunches(t)
  PROVE  Good(t)
<1>1. /\ pc[t] = "run" /\ t \notin early /\ (t \notin crowded => chart[t] = "whole")
  BY DEF RunLaunches, At, Path
<1>2. /\ StepTypes' /\ pc'[t] = "select" /\ scratch'[t] = {} /\ error' = error /\ code' = code
      /\ call' = call
      /\ \A u \in Callers \ {t} : pc'[u] = pc[u] /\ scratch'[u] = scratch[u]
  BY GoIs DEF RunLaunches, PC
<1>3. /\ UNCHANGED <<done, vendored, chart, early, crowded>>
      /\ recorded' = recorded \cup {t} /\ undo' \in {undo, undo \cup {t}}
  BY DEF RunLaunches, worldVars
<1>4. /\ entered' \in [Callers -> {"no", "live", "cancelled"}]
      /\ sdk' \in [Callers -> SDKCause \cup {"none", "running", "applied"}]
      /\ \A u \in Callers \ {t} : entered'[u] = entered[u] /\ sdk'[u] = sdk[u]
  BY DEF RunLaunches, Enters, TypeOK
<1>5. TypeOK'
  BY <1>2, <1>3, <1>4 DEF TypeOK, StepTypes
<1>6. Path(t)'
  BY <1>1, <1>2, <1>3 DEF Path, At
<1>7. Outcome(t)'
  BY <1>2 DEF Outcome, At
<1>8. \A u \in Callers \ {t} : Keeps(u)
  BY <1>2, <1>3, <1>4 DEF Keeps, KeepsDir
<1>9. Meeting'
  BY <1>2, <1>3, MeetingFrame
<1> QED
  BY <1>5, <1>6, <1>7, <1>8, <1>9 DEF Good

LEMMA AppliesStep ==
  ASSUME TypeOK, Meeting, NEW t \in Callers, Path(t), Outcome(t), Applies(t)
  PROVE  Good(t)
<1>1. /\ UNCHANGED <<done, vendored, pc, scratch, error, code, call, chart>>
      /\ UNCHANGED <<recorded, undo, early, entered, crowded>>
      /\ sdk[t] = "running"
  BY DEF Applies, worldVars, stepVars
<1>2. /\ sdk' \in [Callers -> SDKCause \cup {"none", "running", "applied"}]
      /\ \A u \in Callers \ {t} : sdk'[u] = sdk[u]
  BY DEF Applies, TypeOK
<1>3. TypeOK'
  BY <1>1, <1>2 DEF TypeOK
<1>4. Path(t)'
  BY <1>1 DEF Path, At
<1>5. Outcome(t)'
  BY <1>1 DEF Outcome, At
<1>6. \A u \in Callers \ {t} : Keeps(u)
  BY <1>1, <1>2 DEF Keeps, KeepsDir
<1>7. Meeting'
  BY <1>1 DEF Meeting
<1> QED
  BY <1>3, <1>4, <1>5, <1>6, <1>7 DEF Good

(* The select ends in a failure, of which failRelease will learn. *)
LEMMA FailsStep ==
  ASSUME TypeOK, Meeting, NEW t \in Callers, Path(t), pc[t] = "select",
         NEW x \in Cause, Fails(t, x), x = "canceled" => call[t].ctx \in done,
         UNCHANGED <<worldVars, chart, sdk, recorded, undo, early, entered, crowded>>
  PROVE  Good(t)
<1>1. /\ t \in recorded /\ t \notin early /\ scratch[t] = {}
      /\ t \notin crowded => chart[t] = "whole"
  BY DEF Path
<1>2. Plain(x) \in Error
  BY PlainIs
<1>3. /\ UNCHANGED <<done, vendored, chart, sdk, recorded, undo, early, entered, crowded>>
      /\ UNCHANGED <<call, scratch, code>>
      /\ pc'[t] = "fail" /\ error'[t] = Plain(x)
      /\ \A u \in Callers \ {t} : pc'[u] = pc[u] /\ error'[u] = error[u]
      /\ pc' \in [Callers -> PC] /\ error' \in [Callers -> Error]
  BY <1>2 DEF Fails, worldVars, TypeOK, PC
<1>4. TypeOK'
  BY <1>3 DEF TypeOK
<1>5. Path(t)'
  BY <1>1, <1>3 DEF Path, At
<1>6. Outcome(t)'
  BY <1>3 DEF Outcome, At
<1>7. \A u \in Callers \ {t} : Keeps(u)
  BY <1>3 DEF Keeps, KeepsDir
<1>8. Meeting'
  BY <1>3, MeetingFrame
<1> QED
  BY <1>4, <1>5, <1>6, <1>7, <1>8 DEF Good

(* A call that the SDK has taken to the cluster returns, with its record or, *)
(* if it was to be undone, without.                                          *)
LEMMA FinishStep ==
  ASSUME TypeOK, Meeting, NEW t \in Callers, Path(t), pc[t] \in {"select", "fail"},
         NEW x \in Cause, FinishRelease(t, x), x = "canceled" => call[t].ctx \in done,
         recorded' = recorded \/ (t \in undo /\ recorded' = recorded \ {t}),
         UNCHANGED <<worldVars, chart, sdk, undo, early, entered, crowded>>
  PROVE  Good(t)
<1>1. /\ t \in recorded /\ t \notin early /\ scratch[t] = {}
      /\ t \notin crowded => chart[t] = "whole"
  BY DEF Path
<1>2. PICK e \in Error :
        /\ Return(t, e)
        /\ FromError(e) \in {"OK", "Cancelled", "NotFound", "Kube", "Release"}
        /\ e.cause = "canceled" => call[t].ctx \in done
  BY FinishReleaseIs
<1>3. /\ StepTypes' /\ pc'[t] = "idle" /\ scratch'[t] = {} /\ error'[t] = e
      /\ code'[t] = FromError(e) /\ call'[t].ctx = call[t].ctx
      /\ \A u \in Callers \ {t} :
           /\ pc'[u] = pc[u] /\ scratch'[u] = scratch[u] /\ call'[u] = call[u]
           /\ error'[u] = error[u] /\ code'[u] = code[u]
  BY <1>2, ReturnIs
<1>4. UNCHANGED <<done, vendored, chart, sdk, undo, early, entered, crowded>>
  BY DEF worldVars
<1>5. TypeOK'
  BY <1>3, <1>4 DEF TypeOK, StepTypes
<1>6. Path(t)'
  BY <1>1, <1>3, <1>4 DEF Path, At
<1>7. Outcome(t)'
  BY <1>1, <1>2, <1>3, <1>4 DEF Outcome, Refusal
<1>8. \A u \in Callers \ {t} : Keeps(u)
  BY <1>3, <1>4 DEF Keeps, KeepsDir
<1>9. Meeting'
  BY <1>3, <1>4, MeetingFrame
<1> QED
  BY <1>5, <1>6, <1>7, <1>8, <1>9 DEF Good

LEMMA SelectSteps ==
  ASSUME TypeOK, Meeting, NEW t \in Callers, Path(t), Selects(t) \/ FailRelease(t)
  PROVE  Good(t)
<1>1. CASE SelectCancelled(t)
  BY <1>1, FailsStep DEF SelectCancelled, At, Cause
<1>2. CASE SelectResult(t)
  <2>1. /\ pc[t] = "select" /\ sdk[t] \in SDKCause \cup {"none", "applied"}
        /\ UNCHANGED <<worldVars, chart, sdk, recorded, undo, early, entered, crowded>>
    BY <1>2 DEF SelectResult, At, TypeOK
  <2>2. CASE sdk[t] = "applied"
    BY <1>2, <2>1, <2>2, FinishStep DEF SelectResult, Cause
  <2>3. CASE sdk[t] # "applied"
    <3>1. sdk[t] \in Cause /\ sdk[t] # "canceled"
      BY <2>1, <2>3 DEF Cause, SDKCause
    <3> QED
      BY <1>2, <2>1, <2>3, <3>1, FailsStep DEF SelectResult
  <2> QED
    BY <2>2, <2>3
<1>3. CASE FailRelease(t)
  <2>1. pc[t] = "fail"
    BY <1>3 DEF FailRelease, At
  <2>2. PICK x \in Cause : error[t] = Plain(x) /\ (x = "canceled" => call[t].ctx \in done)
    BY <2>1 DEF Path, At
  <2>3. error[t].cause = x
    BY <2>2, PlainIs
  <2>4. recorded' = recorded \/ (t \in undo /\ recorded' = recorded \ {t})
    BY <1>3 DEF FailRelease
  <2>5. FinishRelease(t, x) /\ UNCHANGED <<worldVars, chart, sdk, undo, early, entered, crowded>>
    BY <1>3, <2>3 DEF FailRelease
  <2> QED
    BY <2>1, <2>2, <2>4, <2>5, FinishStep
<1> QED
  BY <1>1, <1>2, <1>3 DEF Selects

LEMMA PanicsStep ==
  ASSUME TypeOK, Meeting, NEW t \in Callers, Path(t), Panics(t)
  PROVE  Good(t)
<1> DEFINE dirs == IF At(t, "manage") THEN scratch[t] ELSE {}
<1>1. /\ pc[t] \notin {"idle", "select", "prologue"} /\ t \notin early
      /\ entered[t] # "no" /\ t \notin crowded => chart[t] = "whole"
  BY DEF Panics, At, Path
<1>2. UNCHANGED <<done, vendored, chart, sdk, recorded, undo, early, crowded>>
  BY DEF Panics, worldVars
<1>3. scratch[t] \in SUBSET Scratch /\ dirs \in SUBSET Scratch
  BY DEF TypeOK
<1>4. Coded("Panic") \in Error /\ Coded("Panic").cause = "other"
      /\ FromError(Coded("Panic")) = "Panic"
  BY CodedIs DEF Code
<1>5. Leave(t, Coded("Panic"), dirs)
  BY DEF Panics
<1>6. /\ StepTypes' /\ pc'[t] = "idle" /\ scratch'[t] = dirs /\ code'[t] = "Panic"
      /\ call'[t].ctx = call[t].ctx
      /\ \A u \in Callers \ {t} :
           /\ pc'[u] = pc[u] /\ scratch'[u] = scratch[u] /\ call'[u] = call[u]
           /\ error'[u] = error[u] /\ code'[u] = code[u]
  <2> HIDE DEF dirs
  <2> QED
    BY <1>3, <1>4, <1>5, LeaveIs
<1>7. /\ entered' \in [Callers -> {"no", "live", "cancelled"}]
      /\ \A u \in Callers \ {t} : entered'[u] = entered[u]
      /\ entered'[t] # "no" => (t \notin crowded => chart[t] = "whole")
  <2>1. CASE At(t, "run")
    BY <2>1 DEF Panics, Enters, TypeOK, Path, At
  <2>2. CASE ~ At(t, "run")
    BY <2>2, <1>1 DEF Panics, TypeOK
  <2> QED
    BY <2>1, <2>2
<1>8. TypeOK'
  BY <1>2, <1>6, <1>7 DEF TypeOK, StepTypes
<1>9. Path(t)'
  BY <1>1, <1>2, <1>6, <1>7 DEF Path, At
<1>10. Outcome(t)'
  <2>1. scratch'[t] = {} \/ scratch'[t] = {"deps"}
    BY <1>6 DEF Path
  <2> QED
    BY <1>6, <2>1 DEF Outcome, Refusal
<1>11. \A u \in Callers \ {t} : Keeps(u)
  BY <1>2, <1>6, <1>7 DEF Keeps, KeepsDir
<1>12. Meeting'
  BY <1>2, <1>6, MeetingFrame
<1> QED
  BY <1>8, <1>9, <1>10, <1>11, <1>12 DEF Good

LEMMA StartStep ==
  ASSUME TypeOK, Meeting, NEW t \in Callers, NEW a \in Args, Start(t, a)
  PROVE  Good(t)
<1>1. /\ UNCHANGED <<done, vendored>>
      /\ pc'[t] = "prologue" /\ call'[t] = a /\ entered'[t] = "no" /\ sdk'[t] = "none"
      /\ t \notin recorded' /\ (t \in early' => a.ctx \in done)
      /\ \A u \in Callers \ {t} : u \in crowded => u \in crowded'
  BY DEF Start, TypeOK, worldVars
<1>2. \A u \in Callers \ {t} :
        /\ pc'[u] = pc[u] /\ scratch'[u] = scratch[u] /\ error'[u] = error[u]
        /\ code'[u] = code[u] /\ call'[u] = call[u] /\ chart'[u] = chart[u]
        /\ sdk'[u] = sdk[u] /\ entered'[u] = entered[u]
  BY DEF Start, Gets, TypeOK
<1>3. \A u \in Callers \ {t} :
        /\ u \in recorded' <=> u \in recorded
        /\ u \in undo' <=> u \in undo
        /\ u \in early' <=> u \in early
  BY DEF Start
<1>4. TypeOK'
  <2>1. pc' \in [Callers -> PC] /\ scratch' \in [Callers -> SUBSET Scratch]
    BY DEF Start, TypeOK, PC
  <2>2. error' \in [Callers -> Error] /\ code' \in [Callers -> Code]
    BY NoErrorIs DEF Start, TypeOK, Code
  <2>3. call' \in [Callers -> Args] /\ chart' \in [Callers -> {"none", "whole", "lacking"}]
    BY DEF Start, Gets, TypeOK
  <2>4. /\ sdk' \in [Callers -> SDKCause \cup {"none", "running", "applied"}]
        /\ entered' \in [Callers -> {"no", "live", "cancelled"}]
    BY DEF Start, TypeOK
  <2>5. /\ recorded' \subseteq Callers /\ undo' \subseteq Callers
        /\ early' \subseteq Callers /\ crowded' \subseteq Callers
    BY DEF Start, TypeOK
  <2> QED
    BY <1>1, <2>1, <2>2, <2>3, <2>4, <2>5 DEF TypeOK
<1>5. Path(t)'
  BY <1>1 DEF Path, At
<1>6. Outcome(t)'
  BY <1>1 DEF Outcome, At
<1>7. \A u \in Callers \ {t} : Keeps(u)
  BY <1>1, <1>2, <1>3 DEF Keeps, KeepsDir
<1>8. Meeting'
  BY <1>1, <1>2, MeetingFrame
<1> QED
  BY <1>4, <1>5, <1>6, <1>7, <1>8 DEF Good

-----------------------------------------------------------------------------
(* The invariant is inductive. *)

LEMMA InitInv == Init => TypeOK /\ Inv
<1> SUFFICES ASSUME Init PROVE TypeOK /\ Inv
  OBVIOUS
<1>1. TypeOK
  BY NoErrorIs DEF Init, TypeOK, PC, Args, NoSource, Source, Code
<1>2. Inv
  BY DEF Init, Inv, Meeting, Path, Outcome, At, Refusal
<1> QED
  BY <1>1, <1>2

(* Any step of a caller, or of the SDK's goroutine for it. *)
Acts(t) ==
  (\E a \in Args : Start(t, a)) \/ Computes(t) \/ Waits(t) \/ Selects(t) \/ Applies(t)

LEMMA StepGood ==
  ASSUME TypeOK, Inv, NEW t \in Callers, Acts(t)
  PROVE  Good(t)
<1>1. Path(t) /\ Outcome(t) /\ Meeting
  BY DEF Inv
<1>2. CASE \E a \in Args : Start(t, a)
  BY <1>1, <1>2, StartStep
<1>3. CASE Computes(t)
  BY <1>1, <1>3, PrologueSteps, ConfigureStep, ResolveSteps, PullSteps,
     EnsureDependenciesStep, DependencyManagerStep, ReloadStep DEF Computes
<1>4. CASE Waits(t)
  BY <1>1, <1>4, PullSteps, UpdateBeginsStep, UpdateEndsStep, RunEndsStep, RunLaunchesStep,
     SelectSteps, PanicsStep DEF Waits
<1>5. CASE Selects(t) \/ Applies(t)
  BY <1>1, <1>5, SelectSteps, AppliesStep
<1> QED
  BY <1>2, <1>3, <1>4, <1>5 DEF Acts

LEMMA StepInv == TypeOK /\ Inv /\ [Next]_vars => (TypeOK /\ Inv)'
<1> SUFFICES ASSUME TypeOK, Inv, [Next]_vars PROVE TypeOK' /\ Inv'
  OBVIOUS
<1>1. ASSUME \A u \in Callers : Keeps(u), Meeting'
      PROVE  Inv'
  BY <1>1, KeptInv DEF Inv
<1>2. ASSUME NEW t \in Callers, Good(t)
      PROVE  TypeOK' /\ Inv'
  <2>1. \A u \in Callers \ {t} : Path(u)' /\ Outcome(u)'
    BY <1>2, KeptInv DEF Inv, Good
  <2> QED
    BY <1>2, <2>1 DEF Inv, Good
<1>3. CASE UNCHANGED vars
  <2>1. UNCHANGED <<done, vendored, pc, scratch, error, code, call, chart, sdk>>
        /\ UNCHANGED <<recorded, undo, early, entered, crowded>>
    BY <1>3 DEF vars, worldVars, stepVars
  <2>2. TypeOK'
    BY <2>1 DEF TypeOK
  <2>3. Meeting' /\ \A u \in Callers : Keeps(u)
    BY <2>1 DEF Keeps, KeepsDir, Inv, Meeting
  <2> QED
    BY <2>2, <2>3, <1>1
<1>4. ASSUME NEW c \in Contexts, Cancel(c)
      PROVE  TypeOK' /\ Inv'
  <2>1. /\ UNCHANGED <<vendored, pc, scratch, error, code, call, chart, sdk>>
        /\ UNCHANGED <<recorded, undo, early, entered, crowded>>
        /\ done' = done \cup {c}
    BY <1>4 DEF Cancel, stepVars
  <2>2. TypeOK'
    BY <2>1 DEF TypeOK
  <2>3. Meeting' /\ \A u \in Callers : Keeps(u)
    BY <2>1 DEF Keeps, KeepsDir, Inv, Meeting
  <2> QED
    BY <2>2, <2>3, <1>1
<1>5. ASSUME NEW t \in Callers, Acts(t)
      PROVE  TypeOK' /\ Inv'
  BY <1>5, <1>2, StepGood
<1> QED
  BY <1>3, <1>4, <1>5 DEF Next, Acts

LEMMA Invariance == Spec => [](TypeOK /\ Inv)
BY InitInv, StepInv, PTL DEF Spec

-----------------------------------------------------------------------------
(* Whatever the callers ask for and however the SDK fails, no variable      *)
(* leaves its type.                                                         *)
THEOREM ActionsTypeCorrect == Spec => []TypeOK
BY Invariance, PTL

(* However many calls share a context that is cancelled at any moment, one  *)
(* cancelled before a call keeps that call out of the SDK's RunWithContext  *)
(* (checkNotCancelled).                                                     *)
THEOREM PreCancelledKeptOut == Spec => []PreCancelledNeverEnters
<1>1. TypeOK /\ Inv => PreCancelledNeverEnters
  BY DEF TypeOK, Inv, Path, PreCancelledNeverEnters
<1> QED
  BY <1>1, Invariance, PTL

(* HELM_ERR_CANCELLED for a cancelled context: the SDK was not entered, or  *)
(* the release has a record, unless it was an install with                  *)
(* rollback_on_failure, which the SDK may have taken back.                  *)
THEOREM CancelledMeansStoppedWaiting == Spec => []CancelledLeavesRecord
<1>1. Inv => CancelledLeavesRecord
  BY DEF Inv, Outcome, CancelledLeavesRecord
<1> QED
  BY <1>1, Invariance, PTL

(* A call that fails on its arguments, values, chart or dependencies has    *)
(* not touched the cluster, so the host may repeat it.                      *)
THEOREM RefusalsAreHarmless == Spec => []RefusalTouchesNothing
<1>1. Inv => RefusalTouchesNothing
  BY DEF Inv, Outcome, Refusal, RefusalTouchesNothing
<1> QED
  BY <1>1, Invariance, PTL

(* The SDK is given whole charts only, however many calls load from, or by  *)
(* turns update the dependencies of, one directory (ensureDependencies). Of *)
(* updates that run at once it says nothing, for there it does not hold.    *)
THEOREM SDKGetsWholeCharts == Spec => []OnlyWholeChartsRun
<1>1. Inv => OnlyWholeChartsRun
  BY DEF Inv, Path, OnlyWholeChartsRun
<1> QED
  BY <1>1, Invariance, PTL

-----------------------------------------------------------------------------
(* The scratch directories. *)

(* How a step moves a call: it begins, goes on, is handed over, waits, or    *)
(* ends.                                                                     *)
Moves(t) ==
  \/ pc'[t] = pc[t] /\ scratch'[t] = scratch[t] /\ code'[t] = code[t]
  \/ pc[t] = "idle" /\ pc'[t] = "prologue" /\ scratch'[t] = {} /\ code'[t] = "OK"
  \/ pc[t] \notin {"idle", "run", "select", "fail"} /\ pc'[t] \notin {"idle", "select", "fail"}
     /\ code'[t] = code[t]
  \/ pc[t] \in {"run", "select"} /\ pc'[t] \in {"select", "fail"} /\ scratch'[t] = {}
     /\ code'[t] = code[t]
  \/ pc[t] # "idle" /\ pc'[t] = "idle" /\ (scratch'[t] = {} \/ scratch'[t] = scratch[t])

LEMMA StepMoves ==
  ASSUME TypeOK, Inv, NEW t \in Callers, Acts(t)
  PROVE  Moves(t)
<1>1. CASE \E a \in Args : Start(t, a)
  BY <1>1 DEF Start, TypeOK, Moves, At
<1>2. CASE CheckNotCancelled(t) \/ ActionPrologue(t) \/ Configure(t)
  BY <1>2 DEF CheckNotCancelled, ActionPrologue, Configure, Return, Leave, Go, TypeOK, Moves, At
<1>3. CASE ResolveInvalid(t) \/ ResolveLocal(t) \/ ResolveRemote(t)
  BY <1>3 DEF ResolveInvalid, ResolveLocal, ResolveRemote, Return, Leave, Go, TypeOK, Moves, At
<1>4. CASE Pull(t) \/ Download(t) \/ LoadPulled(t)
  BY <1>4 DEF Pull, Download, LoadPulled, Return, Leave, Go, TypeOK, Moves, At
<1>5. CASE EnsureDependencies(t) \/ DependencyManager(t)
  BY <1>5 DEF EnsureDependencies, DependencyManager, Return, Leave, Go, TypeOK, Moves, At
<1>6. CASE UpdateBegins(t) \/ UpdateEnds(t) \/ Reload(t)
  BY <1>6 DEF UpdateBegins, UpdateEnds, Reload, Return, Leave, Go, TypeOK, Moves, At
<1>7. ASSUME NEW x, FinishRelease(t, x), pc[t] # "idle"
      PROVE  Moves(t)
  BY <1>7 DEF FinishRelease, Return, Leave, TypeOK, Moves
<1>8. CASE RunEnds(t)
  BY <1>7, <1>8 DEF RunEnds, At
<1>9. CASE RunLaunches(t)
  BY <1>9 DEF RunLaunches, Go, TypeOK, Moves, At
<1>10. CASE Panics(t)
  BY <1>10 DEF Panics, Leave, TypeOK, Moves, At
<1>11. CASE Selects(t) \/ FailRelease(t)
  <2>1. ASSUME NEW x, Fails(t, x), pc[t] = "select"
        PROVE  Moves(t)
    BY <2>1 DEF Fails, Inv, Path, TypeOK, Moves
  <2> QED
    BY <1>7, <1>11, <2>1 DEF Selects, SelectCancelled, SelectResult, FailRelease, At
<1>12. CASE Applies(t)
  BY <1>12 DEF Applies, stepVars, Moves
<1> QED
  BY <1>1, <1>2, <1>3, <1>4, <1>5, <1>6, <1>8, <1>9, <1>10, <1>11, <1>12
     DEF Acts, Computes, Waits

(* What the contract sees of the state. *)
Active == {t \in Callers : ~ At(t, "idle")}
Handed == {t \in Callers : pc[t] \in {"run", "select", "fail"}}
Panicked == {t \in Callers : code[t] = "Panic"}

(* A step of caller t is a step of the contract, or none. *)
LEMMA StepKeepsScratch ==
  ASSUME TypeOK, Inv, NEW t \in Callers, Good(t), Moves(t)
  PROVE  Scratches!Next \/ UNCHANGED <<Active, scratch, Handed, Panicked>>
<1>1. \A u \in Callers \ {t} :
        pc'[u] = pc[u] /\ scratch'[u] = scratch[u] /\ code'[u] = code[u]
  BY DEF Good, Keeps
<1>2. scratch' = [scratch EXCEPT ![t] = scratch'[t]] /\ scratch'[t] \in SUBSET Scratch
  BY <1>1 DEF TypeOK, Good
<1>3. Path(t) /\ Path(t)' /\ Outcome(t)'
  BY DEF Inv, Good
<1>4. CASE pc'[t] = pc[t] /\ scratch'[t] = scratch[t] /\ code'[t] = code[t]
  <2>1. scratch' = scratch
    <3>1. \A u \in Callers : scratch'[u] = scratch[u]
      BY <1>1, <1>4
    <3> QED
      BY <3>1 DEF TypeOK, Good
  <2>2. Active' = Active /\ Handed' = Handed /\ Panicked' = Panicked
    BY <1>1, <1>4 DEF Active, Handed, Panicked, At
  <2> QED
    BY <2>1, <2>2
<1>5. CASE pc[t] = "idle" /\ pc'[t] = "prologue" /\ scratch'[t] = {} /\ code'[t] = "OK"
  <2>1. /\ t \notin Active /\ Active' = Active \cup {t}
        /\ Panicked' = Panicked \ {t} /\ Handed' = Handed
    BY <1>1, <1>5 DEF Active, Handed, Panicked, At
  <2>2. Scratches!Begin(t)
    BY <1>2, <1>5, <2>1 DEF Scratches!Begin, Scratches!Leaves, Active, Handed, Panicked
  <2> QED
    BY <2>2 DEF Scratches!Next
<1>6. CASE /\ pc[t] \notin {"idle", "run", "select", "fail"}
           /\ pc'[t] \notin {"idle", "select", "fail"}
           /\ code'[t] = code[t]
  <2>1. Active' = Active /\ Panicked' = Panicked /\ t \in Active \ Handed
    BY <1>1, <1>6 DEF Active, Handed, Panicked, At
  <2>2. CASE pc'[t] = "run"
    <3>1. Handed' = Handed \cup {t} /\ scratch'[t] = {}
      BY <1>1, <1>3, <1>6, <2>2 DEF Handed, Path
    <3>2. Scratches!HandOver(t)
      BY <1>2, <2>1, <3>1 DEF Scratches!HandOver, Scratches!Leaves, Active, Handed, Panicked
    <3> QED
      BY <3>2 DEF Scratches!Next
  <2>3. CASE pc'[t] # "run"
    <3>1. Handed' = Handed
      BY <1>1, <1>6, <2>3 DEF Handed
    <3>2. Scratches!Work(t)
      BY <1>2, <2>1, <3>1 DEF Scratches!Work, Scratches!Leaves, Active, Handed, Panicked
    <3> QED
      BY <3>2 DEF Scratches!Next
  <2> QED
    BY <2>2, <2>3
<1>7. CASE /\ pc[t] \in {"run", "select"} /\ pc'[t] \in {"select", "fail"}
           /\ scratch'[t] = {} /\ code'[t] = code[t]
  <2>1. scratch[t] = {}
    BY <1>3, <1>7 DEF Path
  <2>2. scratch' = scratch
    <3>1. \A u \in Callers : scratch'[u] = scratch[u]
      BY <1>1, <1>7, <2>1
    <3> QED
      BY <3>1 DEF TypeOK, Good
  <2>3. Active' = Active /\ Handed' = Handed /\ Panicked' = Panicked
    BY <1>1, <1>7 DEF Active, Handed, Panicked, At
  <2> QED
    BY <2>2, <2>3
<1>8. CASE /\ pc[t] # "idle" /\ pc'[t] = "idle"
           /\ scratch'[t] = {} \/ scratch'[t] = scratch[t]
  <2>1. /\ t \in Active /\ Active' = Active \ {t} /\ Handed' = Handed \ {t}
    BY <1>1, <1>8 DEF Active, Handed, At
  <2>2. CASE code'[t] = "Panic"
    <3>1. Panicked' = Panicked \cup {t}
      BY <1>1, <2>2 DEF Panicked
    <3>2. scratch'[t] \in SUBSET ({"deps"} \cap scratch[t])
      BY <1>3, <1>8 DEF Outcome, At
    <3>3. Scratches!Panic(t)
      BY <1>2, <2>1, <3>1, <3>2
         DEF Scratches!Panic, Scratches!Leaves, Active, Handed, Panicked
    <3> QED
      BY <3>3 DEF Scratches!Next
  <2>3. CASE code'[t] # "Panic"
    <3>1. scratch'[t] = {}
      BY <1>3, <1>8, <2>3 DEF Outcome, At
    <3>2. Panicked' = Panicked \ {t}
      BY <1>1, <2>3 DEF Panicked
    <3>3. Scratches!Return(t)
      BY <1>2, <2>1, <3>1, <3>2
         DEF Scratches!Return, Scratches!Leaves, Active, Handed, Panicked
    <3> QED
      BY <3>3 DEF Scratches!Next
  <2> QED
    BY <2>2, <2>3
<1> QED
  BY <1>4, <1>5, <1>6, <1>7, <1>8 DEF Moves

(* Every call keeps the promise of ScratchContract, whatever it resolves    *)
(* and however it fails (pullChartRef, PullChart, dependencyManager).       *)
THEOREM CallsKeepScratchContract == Spec => ImplementsScratch
<1>1. Init => Scratches!Init
  BY DEF Init, Scratches!Init, At
<1>2. TypeOK /\ Inv /\ [Next]_vars => [Scratches!Next]_<<Active, scratch, Handed, Panicked>>
  <2> SUFFICES ASSUME TypeOK, Inv, [Next]_vars
               PROVE  Scratches!Next \/ UNCHANGED <<Active, scratch, Handed, Panicked>>
    OBVIOUS
  <2>1. ASSUME NEW t \in Callers, Acts(t)
        PROVE  Scratches!Next \/ UNCHANGED <<Active, scratch, Handed, Panicked>>
    BY <2>1, StepGood, StepMoves, StepKeepsScratch
  <2>2. CASE UNCHANGED <<pc, scratch, code>>
    BY <2>2 DEF Active, Handed, Panicked, At
  <2>3. CASE UNCHANGED vars
    BY <2>2, <2>3 DEF vars, stepVars
  <2>4. CASE \E c \in Contexts : Cancel(c)
    BY <2>2, <2>4 DEF Cancel, stepVars
  <2> QED
    BY <2>1, <2>3, <2>4 DEF Next, Acts
<1>3. TypeOK /\ Inv /\ [Next]_vars => [Scratches!Next]_Scratches!vars
  BY <1>2 DEF Scratches!vars, Active, Handed, Panicked
<1> QED
  BY <1>1, <1>3, Invariance, PTL DEF Spec, ImplementsScratch, Scratches!Spec

(* To the host: no scratch directory of an install or upgrade is there once *)
(* it has returned, or while it is on the cluster, but for those a panic    *)
(* leaves of the ones removed by hand (DESIGN.md 7).                        *)
THEOREM NoScratchOutlivesItsCall == Spec => []Scratches!NothingOutlives
<1>1. Scratches!Init => Scratches!Tidy
  BY DEF Scratches!Init, Scratches!Tidy, Scratches!NothingOutlives
<1>2. Scratches!Tidy /\ [Scratches!Next]_(Scratches!vars) => Scratches!Tidy'
  <2> SUFFICES ASSUME Scratches!Tidy, [Scratches!Next]_(Scratches!vars)
               PROVE  Scratches!Tidy'
    OBVIOUS
  <2>. USE DEF Scratches!Tidy, Scratches!NothingOutlives, Scratches!Leaves
  <2>1. ASSUME NEW c \in Callers, Scratches!Begin(c)
        PROVE  Scratches!Tidy'
    BY <2>1 DEF Scratches!Begin
  <2>2. ASSUME NEW c \in Callers, Scratches!Work(c)
        PROVE  Scratches!Tidy'
    BY <2>2 DEF Scratches!Work
  <2>3. ASSUME NEW c \in Callers, Scratches!HandOver(c)
        PROVE  Scratches!Tidy'
    BY <2>3 DEF Scratches!HandOver
  <2>4. ASSUME NEW c \in Callers, Scratches!Return(c)
        PROVE  Scratches!Tidy'
    BY <2>4 DEF Scratches!Return
  <2>5. ASSUME NEW c \in Callers, Scratches!Panic(c)
        PROVE  Scratches!Tidy'
    <3>1. PICK ds \in SUBSET ({"deps"} \cap scratch[c]) : scratch' = [scratch EXCEPT ![c] = ds]
      BY <2>5 DEF Scratches!Panic
    <3>2. Active' = Active \ {c} /\ Panicked' = Panicked \cup {c} /\ Handed' = Handed \ {c}
      BY <2>5 DEF Scratches!Panic, Active, Panicked, Handed
    <3>3. scratch' \in [Callers -> SUBSET Scratch]
      BY <3>1
    <3>4. ASSUME NEW u \in Callers
          PROVE  /\ u \notin Active' => scratch'[u] \subseteq (IF u \in Panicked' THEN {"deps"} ELSE {})
                 /\ u \in Handed' => scratch'[u] = {}
      BY <3>1, <3>2 DEF Active, Panicked, Handed
    <3> QED
      BY <3>3, <3>4 DEF Active, Panicked, Handed
  <2>6. CASE UNCHANGED Scratches!vars
    BY <2>6 DEF Scratches!vars
  <2> QED
    BY <2>1, <2>2, <2>3, <2>4, <2>5, <2>6 DEF Scratches!Next
<1>3. Scratches!Tidy => Scratches!NothingOutlives
  BY DEF Scratches!Tidy
<1> QED
  BY <1>1, <1>2, <1>3, CallsKeepScratchContract, PTL DEF ImplementsScratch, Scratches!Spec
=============================================================================
