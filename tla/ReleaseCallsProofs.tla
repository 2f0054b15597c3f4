------------------------- MODULE ReleaseCallsProofs -------------------------
(***************************************************************************)
(* Theorems about the calls on a release, for any number of callers,       *)
(* revisions and timeouts. Callers share the records and nothing else, so  *)
(* the invariant is one about each caller: Path says what is settled at    *)
(* each step of its call and after its return.                             *)
(***************************************************************************)
EXTENDS ReleaseCalls, SequenceTheorems, TLAPS

-----------------------------------------------------------------------------
(* Errors. *)

LEMMA WithCodeIs ==
  ASSUME NEW c \in Code, NEW e \in Error
  PROVE  /\ WithCode(c, e) \in Error /\ WithCode(c, e) # NoError
         /\ WithCode(c, e).cause = e.cause
         /\ FromError(WithCode(c, e)) = c
<1>1. e.codes \in Seq(Code) /\ e.cause \in Cause
  BY DEF Error
<1> DEFINE codes == << c >> \o e.codes
<1>2. codes \in Seq(Code) /\ codes # << >> /\ Head(codes) = c
  BY <1>1
<1> HIDE DEF codes
<1>3. WithCode(c, e) = [codes |-> codes, cause |-> e.cause]
  BY DEF WithCode, codes
<1>4. WithCode(c, e) # NoError
  <2>1. WithCode(c, e).codes = codes /\ NoError.codes = << >>
    BY <1>3 DEF NoError
  <2> QED
    BY <2>1, <1>2
<1> QED
  BY <1>1, <1>2, <1>3, <1>4 DEF Error, FromError

LEMMA PlainIs ==
  ASSUME NEW x \in Cause
  PROVE  Plain(x) \in Error /\ Plain(x).cause = x /\ (x # "none" => Plain(x) # NoError)
BY DEF Plain, Error, NoError

LEMMA CodedIs ==
  ASSUME NEW c \in Code
  PROVE  /\ Coded(c) \in Error /\ Coded(c) # NoError
         /\ Coded(c).cause = "other" /\ FromError(Coded(c)) = c
BY WithCodeIs, PlainIs DEF Coded, Cause, SDKCause

LEMMA NoErrorIs == NoError \in Error /\ NoError.cause = "none" /\ FromError(NoError) = "OK"
BY DEF NoError, Error, FromError, Cause

(* What an error of the SDK becomes. *)
LEMMA WrapIs ==
  ASSUME NEW e \in Error
  PROVE  LET w == WrapActionError(e, "Release")
         IN  /\ w \in Error /\ w.cause = e.cause
             /\ FromError(w) \in Code \ {"OK", "Panic"}
<1>1. \A c \in {"Cancelled", "NotFound", "Kube", "Release"} :
        /\ WithCode(c, e) \in Error
        /\ WithCode(c, e).cause = e.cause
        /\ FromError(WithCode(c, e)) = c
  BY WithCodeIs DEF Code
<1>2. \E c \in {"Cancelled", "NotFound", "Kube", "Release"} :
        WrapActionError(e, "Release") = WithCode(c, e)
  BY DEF WrapActionError
<1> QED
  BY <1>1, <1>2 DEF Code

LEMMA FromErrorType == ASSUME NEW e \in Error PROVE FromError(e) \in Code
<1>1. e.codes \in Seq(Code)
  BY DEF Error
<1>2. e.codes # << >> => Head(e.codes) \in Code
  BY <1>1
<1> QED
  BY <1>2 DEF FromError, Code

-----------------------------------------------------------------------------
(* The invariant. *)

(* What the return of a call tells. *)
Settled(t) ==
  /\ code[t] = "Panic" <=> t \in panicked
  /\ t \notin panicked =>
       IF failed[t] = "none"
       THEN code[t] = "OK"
       ELSE code[t] # "OK" /\ error[t].cause = failed[t]

(* While a call runs, its error is that of its first failure. *)
OnTheWay(t) ==
  /\ t \notin panicked
  /\ IF failed[t] = "none"
     THEN error[t] = NoError
     ELSE error[t] # NoError /\ error[t].cause = failed[t]

LogsTold(t) == logs[t] = (IF call[t].logs /\ ran[t].hooks THEN "whole" ELSE "none")

(* A test run between two of its steps. *)
Testing(t) ==
  /\ pc[t] \in {"collect", "shutdown", "finish"} => Op(t, "test")
  /\ pc[t] \in {"collect", "shutdown"} =>
       /\ t \notin refused
       /\ t \in pods => ran[t].shutdown # "none"
       /\ ran[t].shutdown \in {"noop", "failed"} => failed[t] # "none"
  /\ At(t, "collect") =>
       /\ logs[t] = "none"
       /\ failed[t] = "none" /\ ran[t].hooks /\ call[t].live => t \in pods
  /\ At(t, "finish") =>
       /\ t \in pods => ran[t].keeps \/ t \in refused \/ ran[t].shutdown = "noop"
       /\ t \in refused \/ ran[t].shutdown = "noop" => failed[t] # "none"
  /\ pc[t] \in {"shutdown", "finish"} /\ failed[t] = "none" => LogsTold(t)

(* What is told of a history. *)
Told(t) ==
  LET told == Elements(rels[t])
      max == call[t].n
  IN  /\ Ascending(rels[t])
      /\ told \subseteq seen[t]
      /\ \A r \in seen[t] \ told : \A q \in told : r < q
      /\ max > 0 => Len(rels[t]) <= max
      /\ max = 0 \/ Len(rels[t]) < max => told = seen[t]

(* A query between two of its steps. *)
Asking(t) ==
  /\ pc[t] \in {"sort", "cut"} => Op(t, "history") /\ Elements(rels[t]) = seen[t]
  /\ At(t, "cut") => Ascending(rels[t])

(* The options handed on, and what was done with them. *)
Given(t) ==
  /\ t \in wrote => call[t].dry = "none"
  /\ given[t].dry # "unset" =>
       /\ given[t].dry = call[t].dry
       /\ LET s == call[t].seconds
          IN  /\ s <= 0 => given[t].timeout = Default
              /\ s > 0 /\ s * Second < Limit => given[t].timeout = s * Second
  /\ At(t, "prepare") => t \notin wrote
  /\ At(t, "run") /\ call[t].op \in Writing => given[t].dry # "unset"

(* What holds of a call that has returned. *)
Returned(t) ==
  /\ Settled(t)
  /\ t \in pods =>
       \/ ran[t].keeps
       \/ code[t] # "OK" /\ (t \in panicked \cup refused \/ ran[t].shutdown = "noop")
  /\ Op(t, "test") /\ code[t] = "OK" => LogsTold(t)
  /\ Op(t, "history") /\ code[t] = "OK" /\ rels[t] # << >> => Told(t)

Path(t) ==
  /\ At(t, "idle") => Returned(t)
  /\ ~ At(t, "idle") => OnTheWay(t)
  /\ pc[t] \in {"prepare", "run", "sort", "cut"} =>
       failed[t] = "none" /\ t \notin pods /\ t \notin refused /\ logs[t] = "none"
  /\ pc[t] \in {"prepare", "run"} => rels[t] = << >>
  /\ Testing(t) /\ Asking(t) /\ Given(t)

Inv == \A t \in Callers : Path(t)

(* A step by another changes nothing of u. *)
Keeps(u) ==
  /\ pc'[u] = pc[u] /\ call'[u] = call[u] /\ given'[u] = given[u] /\ ran'[u] = ran[u]
  /\ logs'[u] = logs[u] /\ rels'[u] = rels[u] /\ seen'[u] = seen[u]
  /\ error'[u] = error[u] /\ code'[u] = code[u] /\ failed'[u] = failed[u]
  /\ u \in pods' <=> u \in pods
  /\ u \in panicked' <=> u \in panicked
  /\ u \in refused' <=> u \in refused
  /\ u \in wrote' <=> u \in wrote

LEMMA KeptInv ==
  ASSUME NEW u \in Callers, Path(u), Keeps(u)
  PROVE  Path(u)'
<1>1. Returned(u) <=> Returned(u)'
  BY DEF Keeps, Returned, Settled, LogsTold, Told, Op
<1>2. OnTheWay(u) <=> OnTheWay(u)'
  BY DEF Keeps, OnTheWay
<1>3. Testing(u) <=> Testing(u)'
  BY DEF Keeps, Testing, LogsTold, At, Op
<1>4. Asking(u) <=> Asking(u)'
  BY DEF Keeps, Asking, At, Op
<1>5. Given(u) <=> Given(u)'
  BY DEF Keeps, Given, At
<1> QED
  BY <1>1, <1>2, <1>3, <1>4, <1>5 DEF Path, Keeps, At

-----------------------------------------------------------------------------
(* How a call ends. *)

EndTypes ==
  /\ pc \in [Callers -> PC]
  /\ error \in [Callers -> Error]
  /\ code \in [Callers -> Code]
  /\ failed \in [Callers -> Cause]
  /\ panicked \subseteq Callers

(* What a step of caller t leaves of the ends of other calls. *)
OtherEnds(t) ==
  \A u \in Callers \ {t} :
    /\ pc'[u] = pc[u] /\ error'[u] = error[u] /\ code'[u] = code[u] /\ failed'[u] = failed[u]
    /\ u \in panicked' <=> u \in panicked

LEMMA ReturnIs ==
  ASSUME TypeOK, NEW t \in Callers, NEW e \in Error, Return(t, e)
  PROVE  /\ pc' \in [Callers -> PC] /\ pc'[t] = "idle"
         /\ error' \in [Callers -> Error] /\ error'[t] = e
         /\ code' \in [Callers -> Code] /\ code'[t] = FromError(e)
         /\ \A u \in Callers \ {t} :
              pc'[u] = pc[u] /\ error'[u] = error[u] /\ code'[u] = code[u]
<1>1. FromError(e) \in Code
  BY FromErrorType
<1> QED
  BY <1>1 DEF Return, TypeOK, PC

LEMMA FailsIs ==
  ASSUME TypeOK, NEW t \in Callers, NEW x \in Cause, Fails(t, x)
  PROVE  /\ failed' \in [Callers -> Cause]
         /\ failed'[t] = (IF failed[t] = "none" THEN x ELSE failed[t])
         /\ \A u \in Callers \ {t} : failed'[u] = failed[u]
BY DEF Fails, TypeOK

LEMMA PanicsIs ==
  ASSUME TypeOK, NEW t \in Callers, Panics(t)
  PROVE  /\ EndTypes' /\ OtherEnds(t)
         /\ pc'[t] = "idle" /\ code'[t] = "Panic" /\ t \in panicked' /\ Settled(t)'
<1>1. Coded("Panic") \in Error /\ FromError(Coded("Panic")) = "Panic"
  BY CodedIs DEF Code
<1>2. Return(t, Coded("Panic")) /\ panicked' = panicked \cup {t} /\ failed' = failed
  BY DEF Panics
<1>3. /\ pc' \in [Callers -> PC] /\ pc'[t] = "idle"
      /\ error' \in [Callers -> Error]
      /\ code' \in [Callers -> Code] /\ code'[t] = "Panic"
      /\ \A u \in Callers \ {t} :
           pc'[u] = pc[u] /\ error'[u] = error[u] /\ code'[u] = code[u]
  BY <1>1, <1>2, ReturnIs
<1> QED
  BY <1>2, <1>3 DEF EndTypes, OtherEnds, Settled, TypeOK

(* A call that fails: for that cause, told as error e. *)
LEMMA FailureIs ==
  ASSUME TypeOK, NEW t \in Callers, t \notin panicked, failed[t] = "none",
         NEW x \in Cause \ {"none"}, Fails(t, x), UNCHANGED panicked,
         NEW e \in Error, e.cause = x, FromError(e) \notin {"OK", "Panic"}, Return(t, e)
  PROVE  /\ EndTypes' /\ OtherEnds(t)
         /\ pc'[t] = "idle" /\ code'[t] # "OK" /\ Settled(t)'
<1>1. /\ pc' \in [Callers -> PC] /\ pc'[t] = "idle"
      /\ error' \in [Callers -> Error] /\ error'[t] = e
      /\ code' \in [Callers -> Code] /\ code'[t] = FromError(e)
      /\ \A u \in Callers \ {t} :
           pc'[u] = pc[u] /\ error'[u] = error[u] /\ code'[u] = code[u]
  BY ReturnIs
<1>2. /\ failed' \in [Callers -> Cause] /\ failed'[t] = x
      /\ \A u \in Callers \ {t} : failed'[u] = failed[u]
  BY FailsIs
<1> QED
  BY <1>1, <1>2 DEF EndTypes, OtherEnds, Settled, TypeOK

LEMMA SucceedsIs ==
  ASSUME TypeOK, NEW t \in Callers, t \notin panicked, failed[t] = "none", Succeeds(t)
  PROVE  EndTypes' /\ OtherEnds(t) /\ pc'[t] = "idle" /\ Settled(t)'
<1>1. Return(t, NoError) /\ failed' = failed /\ panicked' = panicked
  BY DEF Succeeds
<1>2. /\ pc' \in [Callers -> PC] /\ pc'[t] = "idle"
      /\ error' \in [Callers -> Error]
      /\ code' \in [Callers -> Code] /\ code'[t] = "OK"
      /\ \A u \in Callers \ {t} :
           pc'[u] = pc[u] /\ error'[u] = error[u] /\ code'[u] = code[u]
  BY <1>1, ReturnIs, NoErrorIs
<1> QED
  BY <1>1, <1>2 DEF EndTypes, OtherEnds, Settled, TypeOK

LEMMA FailsWithIs ==
  ASSUME TypeOK, NEW t \in Callers, t \notin panicked, failed[t] = "none",
         NEW x \in SDKCause, FailsWith(t, x)
  PROVE  /\ EndTypes' /\ OtherEnds(t)
         /\ pc'[t] = "idle" /\ code'[t] # "OK" /\ Settled(t)'
<1> DEFINE e == WrapActionError(Plain(x), "Release")
<1>1. x \in Cause \ {"none"}
  BY DEF Cause, SDKCause
<1>2. e \in Error /\ e.cause = x /\ FromError(e) \notin {"OK", "Panic"}
  BY <1>1, PlainIs, WrapIs
<1>3. Fails(t, x) /\ Return(t, e) /\ UNCHANGED panicked
  BY DEF FailsWith
<1> HIDE DEF e
<1> QED
  BY <1>1, <1>2, <1>3, FailureIs

(* A failure with a code of helm-c's own. *)
LEMMA RefusalIs ==
  ASSUME TypeOK, NEW t \in Callers, t \notin panicked, failed[t] = "none",
         NEW c \in {"Release", "InvalidArg"},
         Fails(t, "other"), Return(t, Coded(c)), UNCHANGED panicked
  PROVE  /\ EndTypes' /\ OtherEnds(t)
         /\ pc'[t] = "idle" /\ code'[t] # "OK" /\ Settled(t)'
<1>1. /\ Coded(c) \in Error /\ Coded(c).cause = "other"
      /\ FromError(Coded(c)) \notin {"OK", "Panic"}
  BY CodedIs DEF Code
<1>2. "other" \in Cause \ {"none"}
  BY DEF Cause, SDKCause
<1> QED
  BY <1>1, <1>2, FailureIs

LEMMA SummarizedIs ==
  ASSUME TypeOK, NEW t \in Callers, t \notin panicked, failed[t] = "none", Summarized(t)
  PROVE  EndTypes' /\ OtherEnds(t) /\ pc'[t] = "idle" /\ Settled(t)'
<1>1. CASE Succeeds(t)
  BY <1>1, SucceedsIs
<1>2. CASE Fails(t, "other") /\ Return(t, Coded("Release")) /\ UNCHANGED panicked
  BY <1>2, RefusalIs
<1> QED
  BY <1>1, <1>2 DEF Summarized

-----------------------------------------------------------------------------
(* The steps, action by action. *)

(* What is to be shown of a step of caller t. *)
Good(t) == TypeOK' /\ Path(t)' /\ \A u \in Callers \ {t} : Keeps(u)

LEMMA EmptyList == << >> \in Lists /\ Elements(<< >>) = {}
<1>1. << >> \in [1 .. 0 -> Revisions] /\ DOMAIN << >> = {}
  OBVIOUS
<1>2. 0 \in 0 .. MaxRevision
  BY ReleaseAssumption
<1>3. << >> \in UNION {[1 .. n -> Revisions] : n \in 0 .. MaxRevision}
  BY <1>1, <1>2
<1> QED
  BY <1>1, <1>3 DEF Lists, Elements

LEMMA StartStep ==
  ASSUME TypeOK, NEW t \in Callers, NEW a \in Args, Start(t, a)
  PROVE  Good(t)
<1>1. a \in Call
  BY DEF Args
<1>2. TypeOK'
  <2>1. UNCHANGED <<stored, code>> /\ pods' \subseteq Callers
    BY DEF Start, Goes, TypeOK
  <2>2. pc' \in [Callers -> PC] /\ error' \in [Callers -> Error]
    BY NoErrorIs DEF Start, Goes, TypeOK, PC
  <2>3. call' \in [Callers -> Call]
    BY <1>1 DEF Start, TypeOK
  <2>4. given' \in [Callers -> [timeout : -Limit .. Limit - 1, dry : {"unset", "none", "client"}]]
    BY ReleaseAssumption DEF Start, TypeOK
  <2>5. /\ ran' \in [Callers -> TestRun]
        /\ logs' \in [Callers -> {"none", "empty", "whole"}]
    BY DEF Start, TypeOK, NothingRan, TestRun, ShutdownFunc
  <2>6. rels' \in [Callers -> Lists] /\ seen' \in [Callers -> SUBSET Revisions]
    BY EmptyList DEF Start, TypeOK
  <2>7. failed' \in [Callers -> Cause]
    BY DEF Start, TypeOK, Cause
  <2>8. panicked' \subseteq Callers /\ refused' \subseteq Callers /\ wrote' \subseteq Callers
    BY DEF Start, TypeOK
  <2> QED
    BY <2>1, <2>2, <2>3, <2>4, <2>5, <2>6, <2>7, <2>8 DEF TypeOK
<1>3. Path(t)'
  <2>1. /\ pc'[t] = (IF a.op \in Writing THEN "prepare" ELSE "run")
        /\ call'[t] = a /\ given'[t].dry = "unset" /\ logs'[t] = "none" /\ rels'[t] = << >>
        /\ error'[t] = NoError /\ failed'[t] = "none"
        /\ t \notin pods' /\ t \notin panicked' /\ t \notin refused' /\ t \notin wrote'
    BY DEF Start, Goes, TypeOK
  <2> QED
    BY <2>1 DEF Path, OnTheWay, Testing, Asking, Given, At
<1>4. \A u \in Callers \ {t} : Keeps(u)
  BY DEF Start, Goes, TypeOK, Keeps
<1> QED
  BY <1>2, <1>3, <1>4 DEF Good

(* What the product of a duration is: it stays a duration, and is exact as  *)
(* long as it fits.                                                         *)
LEMMA WrappedIs ==
  ASSUME NEW n \in Int
  PROVE  /\ Wrapped(n) \in -Limit .. Limit - 1
         /\ 0 <= n /\ n < Limit => Wrapped(n) = n
<1> DEFINE d == 2 * Limit
           x == n + Limit
<1>1. d \in Nat \ {0} /\ x \in Int /\ Limit \in Nat
  BY ReleaseAssumption
<1>2. x % d \in 0 .. d - 1
  <2> HIDE DEF d, x
  <2> QED
    BY <1>1
<1>3. x \in 0 .. d - 1 => x % d = x
  <2> HIDE DEF d, x
  <2> QED
    BY <1>1
<1>4. 0 <= n /\ n < Limit => x \in 0 .. d - 1
  BY <1>1
<1>5. Wrapped(n) = (x % d) - Limit
  BY DEF Wrapped
<1> DEFINE m == x % d
<1>6. m \in 0 .. (2 * Limit) - 1 /\ (0 <= n /\ n < Limit => m = n + Limit)
  BY <1>2, <1>3, <1>4
<1> HIDE DEF m, x, d
<1>7. Wrapped(n) = m - Limit
  BY <1>5 DEF m
<1> QED
  BY <1>1, <1>6, <1>7

LEMMA TimeoutIs ==
  ASSUME NEW s \in Seconds \cup {0}
  PROVE  /\ Timeout(s) \in -Limit .. Limit - 1
         /\ s <= 0 => Timeout(s) = Default
         /\ s > 0 /\ s * Second < Limit => Timeout(s) = s * Second
<1>1. s \in Int /\ s * Second \in Int /\ Default \in -Limit .. Limit - 1
  BY ReleaseAssumption
<1>2. s > 0 => 0 <= s * Second
  BY ReleaseAssumption, <1>1
<1> DEFINE n == s * Second
<1> HIDE DEF n
<1>3. /\ Wrapped(n) \in -Limit .. Limit - 1
      /\ 0 <= n /\ n < Limit => Wrapped(n) = n
  BY <1>1, WrappedIs DEF n
<1> QED
  BY <1>1, <1>2, <1>3 DEF Timeout, n

(* Nobody else's call changes where only its own variables do. *)
LEMMA PrepareStep ==
  ASSUME TypeOK, NEW t \in Callers, Path(t), Prepare(t)
  PROVE  Good(t)
<1> DEFINE s == call[t].seconds
           dry == ParseDryRun(call[t].dry)
<1>1. /\ At(t, "prepare") /\ t \notin panicked /\ failed[t] = "none" /\ error[t] = NoError
      /\ t \notin pods /\ t \notin refused /\ t \notin wrote
      /\ logs[t] = "none" /\ rels[t] = << >>
  BY DEF Prepare, Path, OnTheWay, Given, At
<1>2. /\ UNCHANGED <<stored, pods, call, ran, logs, rels, seen, panicked, refused, wrote>>
  BY DEF Prepare, clusterVars, resultVars
<1>3. call[t] \in Call /\ s \in Seconds \cup {0}
  BY DEF TypeOK, Call
<1>4. CASE /\ dry # "invalid"
           /\ given' = [given EXCEPT ![t] = [timeout |-> Timeout(s), dry |-> dry]]
           /\ Goes(t, "run")
           /\ UNCHANGED <<error, failed>>
  <2>1. dry = call[t].dry /\ dry \in {"none", "client"}
    BY <1>3, <1>4 DEF ParseDryRun, Call, DryRun
  <2>2. /\ Timeout(s) \in -Limit .. Limit - 1
        /\ s <= 0 => Timeout(s) = Default
        /\ s > 0 /\ s * Second < Limit => Timeout(s) = s * Second
    BY <1>3, TimeoutIs
  <2>3. /\ given' \in [Callers ->
             [timeout : -Limit .. Limit - 1, dry : {"unset", "none", "client"}]]
        /\ given'[t] = [timeout |-> Timeout(s), dry |-> dry]
        /\ \A u \in Callers \ {t} : given'[u] = given[u]
    BY <1>4, <2>1, <2>2 DEF TypeOK
  <2>4. /\ pc' \in [Callers -> PC] /\ pc'[t] = "run" /\ code' = code
        /\ \A u \in Callers \ {t} : pc'[u] = pc[u]
    BY <1>4 DEF Goes, TypeOK, PC
  <2>5. TypeOK'
    BY <1>2, <1>4, <2>3, <2>4 DEF TypeOK
  <2>6. Given(t)'
    BY <1>1, <1>2, <2>1, <2>2, <2>3, <2>4 DEF Given, At
  <2>7. Path(t)'
    BY <1>1, <1>2, <1>4, <2>4, <2>6 DEF Path, OnTheWay, Testing, Asking, At
  <2> QED
    BY <1>2, <1>4, <2>3, <2>4, <2>5, <2>7 DEF Good, Keeps
<1>5. CASE Fails(t, "other") /\ Return(t, Coded("InvalidArg")) /\ UNCHANGED given
  <2>1. EndTypes' /\ OtherEnds(t) /\ pc'[t] = "idle" /\ code'[t] # "OK" /\ Settled(t)'
    BY <1>1, <1>2, <1>5, RefusalIs
  <2>2. TypeOK'
    BY <1>2, <1>5, <2>1 DEF TypeOK, EndTypes
  <2>3. Path(t)'
    BY <1>1, <1>2, <1>5, <2>1 DEF Path, Returned, Testing, Asking, Given, At
  <2> QED
    BY <1>2, <1>5, <2>1, <2>2, <2>3 DEF Good, Keeps, OtherEnds
<1> QED
  BY <1>4, <1>5 DEF Prepare

(* The steps that end a call in the SDK itself. *)
LEMMA EndsGood ==
  ASSUME TypeOK, NEW t \in Callers, Path(t), At(t, "run"),
         EndTypes', OtherEnds(t), pc'[t] = "idle", Settled(t)',
         UNCHANGED <<pods, callVars, ran, logs, refused>>,
         stored' \subseteq Revisions, wrote' \subseteq Callers,
         \A u \in Callers \ {t} : u \in wrote' <=> u \in wrote,
         t \in wrote' => t \in wrote \/ given[t].dry = "none",
         rels' \in [Callers -> Lists], seen' \in [Callers -> SUBSET Revisions],
         \A u \in Callers \ {t} : rels'[u] = rels[u] /\ seen'[u] = seen[u],
         Op(t, "history") => rels'[t] = << >>,
         ~ Op(t, "test") \/ code'[t] # "OK"
  PROVE  Good(t)
<1>1. UNCHANGED <<pods, call, given, ran, logs, refused>>
  BY DEF callVars
<1>2. TypeOK'
  BY <1>1 DEF TypeOK, EndTypes
<1>3. t \notin pods /\ Given(t)
  BY DEF Path, At
<1>4. Given(t)'
  BY <1>1, <1>3 DEF Given, At
<1>5. Returned(t)'
  BY <1>1, <1>3 DEF Returned, Op
<1>6. Path(t)'
  BY <1>4, <1>5 DEF Path, Testing, Asking, At
<1>7. \A u \in Callers \ {t} : Keeps(u)
  BY <1>1 DEF Keeps, OtherEnds
<1> QED
  BY <1>2, <1>6, <1>7 DEF Good

(* A run of the SDK that fails or panics. *)
LEMMA FailureEnds ==
  ASSUME TypeOK, NEW t \in Callers, t \notin panicked, failed[t] = "none",
         \/ \E x \in SDKCause : FailsWith(t, x)
         \/ Fails(t, "other") /\ Return(t, Coded("Release")) /\ UNCHANGED panicked
         \/ Panics(t)
  PROVE  EndTypes' /\ OtherEnds(t) /\ pc'[t] = "idle" /\ code'[t] # "OK" /\ Settled(t)'
<1>1. CASE \E x \in SDKCause : FailsWith(t, x)
  BY <1>1, FailsWithIs
<1>2. CASE Fails(t, "other") /\ Return(t, Coded("Release")) /\ UNCHANGED panicked
  BY <1>2, RefusalIs
<1>3. CASE Panics(t)
  BY <1>3, PanicsIs
<1> QED
  BY <1>1, <1>2, <1>3

LEMMA CausesAre == Causes \subseteq SDKCause /\ "not found" \in SDKCause
BY AsksAssumption DEF SDKCause

LEMMA UninstallsStep ==
  ASSUME TypeOK, NEW t \in Callers, Path(t), Uninstalls(t)
  PROVE  Good(t)
<1>1. At(t, "run") /\ Op(t, "uninstall") /\ t \notin panicked /\ failed[t] = "none"
  BY DEF Uninstalls, Path, OnTheWay, At
<1>2. UNCHANGED <<pods, callVars, ran, logs, rels, seen, refused>>
  BY DEF Uninstalls, resultVars
<1>3. EndTypes' /\ OtherEnds(t) /\ pc'[t] = "idle" /\ Settled(t)'
  <2>1. \/ Succeeds(t) \/ Summarized(t) \/ Panics(t)
        \/ \E x \in Causes \cup {"not found"} : FailsWith(t, x)
    BY DEF Uninstalls, NothingToRemove
  <2> QED
    BY <1>1, <2>1, CausesAre, SucceedsIs, SummarizedIs, FailureEnds
<1>4. \/ UNCHANGED <<stored, wrote>>
      \/ ~ Dry(t) /\ \E left \in SUBSET stored : Writes(t, left)
  BY DEF Uninstalls
<1>5. /\ stored' \subseteq Revisions /\ wrote' \subseteq Callers
      /\ \A u \in Callers \ {t} : u \in wrote' <=> u \in wrote
  BY <1>4 DEF Writes, TypeOK
<1>6. given[t].dry \in {"none", "client"}
  BY <1>1 DEF Path, Given, At, Op, Writing, TypeOK
<1>7. t \in wrote' => t \in wrote \/ given[t].dry = "none"
  BY <1>4, <1>6 DEF Dry
<1>8. rels' \in [Callers -> Lists] /\ seen' \in [Callers -> SUBSET Revisions]
  BY <1>2 DEF TypeOK
<1> QED
  BY <1>1, <1>2, <1>3, <1>5, <1>7, <1>8, EndsGood DEF Op

LEMMA RollsBackStep ==
  ASSUME TypeOK, NEW t \in Callers, Path(t), RollsBack(t)
  PROVE  Good(t)
<1>1. At(t, "run") /\ Op(t, "rollback") /\ t \notin panicked /\ failed[t] = "none"
  BY DEF RollsBack, Path, OnTheWay, At
<1>2. UNCHANGED <<pods, callVars, ran, logs, rels, seen, refused>>
  BY DEF RollsBack, resultVars
<1>3. EndTypes' /\ OtherEnds(t) /\ pc'[t] = "idle" /\ Settled(t)'
  <2>1. \/ Succeeds(t) \/ Panics(t)
        \/ \E x \in Causes \cup {"not found"} : FailsWith(t, x)
    BY DEF RollsBack
  <2> QED
    BY <1>1, <2>1, CausesAre, SucceedsIs, FailureEnds
<1>4. \/ UNCHANGED <<stored, wrote>>
      \/ ~ Dry(t) /\ \E new \in Revisions, pruned \in SUBSET stored :
                       Writes(t, (stored \ pruned) \cup {new})
  BY DEF RollsBack, AddsRevision
<1>5. /\ stored' \subseteq Revisions /\ wrote' \subseteq Callers
      /\ \A u \in Callers \ {t} : u \in wrote' <=> u \in wrote
  BY <1>4 DEF Writes, TypeOK
<1>6. given[t].dry \in {"none", "client"}
  BY <1>1 DEF Path, Given, At, Op, Writing, TypeOK
<1>7. t \in wrote' => t \in wrote \/ given[t].dry = "none"
  BY <1>4, <1>6 DEF Dry
<1>8. rels' \in [Callers -> Lists] /\ seen' \in [Callers -> SUBSET Revisions]
  BY <1>2 DEF TypeOK
<1> QED
  BY <1>1, <1>2, <1>3, <1>5, <1>7, <1>8, EndsGood DEF Op

(* A query that fails at its one read of the cluster. *)
LEMMA ReadFailsStep ==
  ASSUME TypeOK, NEW t \in Callers, Path(t), At(t, "run"),
         Op(t, "query") \/ Op(t, "history"), ReadFails(t),
         UNCHANGED <<clusterVars, callVars, ran, logs, refused, wrote>>
  PROVE  Good(t)
<1>1. t \notin panicked /\ failed[t] = "none" /\ rels[t] = << >>
  BY DEF Path, OnTheWay, At
<1>2. UNCHANGED <<stored, pods, callVars, ran, logs, rels, seen, refused, wrote>>
  BY DEF ReadFails, clusterVars
<1>3. EndTypes' /\ OtherEnds(t) /\ pc'[t] = "idle" /\ code'[t] # "OK" /\ Settled(t)'
  BY <1>1, CausesAre, FailureEnds DEF ReadFails
<1>4. /\ stored' \subseteq Revisions /\ wrote' \subseteq Callers
      /\ rels' \in [Callers -> Lists] /\ seen' \in [Callers -> SUBSET Revisions]
  BY <1>2 DEF TypeOK
<1> QED
  BY <1>1, <1>2, <1>3, <1>4, EndsGood DEF Op

LEMMA Singleton == ASSUME NEW r \in Revisions PROVE << r >> \in Lists
<1>1. << r >> \in [1 .. 1 -> Revisions]
  OBVIOUS
<1>2. 1 \in 0 .. MaxRevision
  BY ReleaseAssumption DEF Revisions
<1>3. << r >> \in UNION {[1 .. n -> Revisions] : n \in 0 .. MaxRevision}
  BY <1>1, <1>2
<1>4. \A i, j \in DOMAIN << r >> : << r >>[i] = << r >>[j] => i = j
  OBVIOUS
<1> QED
  BY <1>3, <1>4 DEF Lists

LEMMA QueriesStep ==
  ASSUME TypeOK, NEW t \in Callers, Path(t), Queries(t)
  PROVE  Good(t)
<1>1. At(t, "run") /\ Op(t, "query") /\ t \notin panicked /\ failed[t] = "none"
  BY DEF Queries, Path, OnTheWay, At
<1>2. UNCHANGED <<clusterVars, callVars, ran, logs, refused, wrote>>
  BY DEF Queries
<1>3. CASE ReadFails(t)
  BY <1>1, <1>2, <1>3, ReadFailsStep
<1>4. ASSUME NEW r \in stored, rels' = [rels EXCEPT ![t] = << r >>],
             seen' = [seen EXCEPT ![t] = stored], Succeeds(t)
      PROVE  Good(t)
  <2>1. EndTypes' /\ OtherEnds(t) /\ pc'[t] = "idle" /\ Settled(t)'
    BY <1>1, <1>4, SucceedsIs
  <2>2. << r >> \in Lists /\ stored \in SUBSET Revisions
    BY Singleton DEF TypeOK
  <2>3. /\ rels' \in [Callers -> Lists] /\ seen' \in [Callers -> SUBSET Revisions]
        /\ \A u \in Callers \ {t} : rels'[u] = rels[u] /\ seen'[u] = seen[u]
    BY <1>4, <2>2 DEF TypeOK
  <2>4. UNCHANGED <<stored, pods, wrote>> /\ stored' \subseteq Revisions /\ wrote' \subseteq Callers
    BY <1>2 DEF clusterVars, TypeOK
  <2> QED
    BY <1>1, <1>2, <2>1, <2>3, <2>4, EndsGood DEF Op
<1> QED
  BY <1>3, <1>4 DEF Queries

LEMMA HistoryReadsStep ==
  ASSUME TypeOK, NEW t \in Callers, Path(t), HistoryReads(t)
  PROVE  Good(t)
<1>1. /\ At(t, "run") /\ Op(t, "history") /\ t \notin panicked /\ failed[t] = "none"
      /\ error[t] = NoError /\ t \notin pods /\ t \notin refused /\ logs[t] = "none"
  BY DEF HistoryReads, Path, OnTheWay, At
<1>2. UNCHANGED <<clusterVars, callVars, ran, logs, refused, wrote>>
  BY DEF HistoryReads
<1>3. CASE ReadFails(t)
  BY <1>1, <1>2, <1>3, ReadFailsStep
<1>4. ASSUME NEW s \in Lists, Elements(s) = stored, rels' = [rels EXCEPT ![t] = s],
             seen' = [seen EXCEPT ![t] = stored], Goes(t, "sort"),
             UNCHANGED <<error, failed, panicked>>
      PROVE  Good(t)
  <2>1. /\ pc' \in [Callers -> PC] /\ pc'[t] = "sort" /\ code' = code
        /\ \A u \in Callers \ {t} : pc'[u] = pc[u]
    BY <1>4 DEF Goes, TypeOK, PC
  <2>2. /\ rels' \in [Callers -> Lists] /\ seen' \in [Callers -> SUBSET Revisions]
        /\ rels'[t] = s /\ seen'[t] = stored
        /\ \A u \in Callers \ {t} : rels'[u] = rels[u] /\ seen'[u] = seen[u]
    BY <1>4 DEF TypeOK
  <2>3. UNCHANGED <<stored, pods, call, given, ran, logs, refused, wrote, error, failed, panicked>>
    BY <1>2, <1>4 DEF clusterVars, callVars
  <2>4. TypeOK'
    BY <2>1, <2>2, <2>3 DEF TypeOK
  <2>5. Path(t)'
    BY <1>1, <1>4, <2>1, <2>2, <2>3 DEF Path, OnTheWay, Testing, Asking, Given, At, Op
  <2>6. \A u \in Callers \ {t} : Keeps(u)
    BY <2>1, <2>2, <2>3 DEF Keeps
  <2> QED
    BY <2>4, <2>5, <2>6 DEF Good
<1> QED
  BY <1>3, <1>4 DEF HistoryReads

LEMMA HistorySortsStep ==
  ASSUME TypeOK, NEW t \in Callers, Path(t), HistorySorts(t)
  PROVE  Good(t)
<1>1. /\ At(t, "sort") /\ Op(t, "history") /\ Elements(rels[t]) = seen[t]
      /\ t \notin panicked /\ failed[t] = "none" /\ error[t] = NoError
      /\ t \notin pods /\ t \notin refused /\ logs[t] = "none"
  BY DEF HistorySorts, Path, OnTheWay, Asking, At
<1>2. PICK s \in Lists : Elements(s) = Elements(rels[t]) /\ Ascending(s)
                        /\ rels' = [rels EXCEPT ![t] = s]
  BY DEF HistorySorts
<1>3. UNCHANGED <<stored, pods, call, given, ran, logs, seen, error, failed, panicked, refused, wrote>>
  BY DEF HistorySorts, clusterVars, callVars
<1>4. /\ pc' \in [Callers -> PC] /\ pc'[t] = "cut" /\ code' = code
      /\ \A u \in Callers \ {t} : pc'[u] = pc[u]
  BY DEF HistorySorts, Goes, TypeOK, PC
<1>5. /\ rels' \in [Callers -> Lists] /\ rels'[t] = s
      /\ \A u \in Callers \ {t} : rels'[u] = rels[u]
  BY <1>2 DEF TypeOK
<1>6. TypeOK'
  BY <1>3, <1>4, <1>5 DEF TypeOK
<1>7. Path(t)'
  BY <1>1, <1>2, <1>3, <1>4, <1>5 DEF Path, OnTheWay, Testing, Asking, Given, At, Op
<1>8. \A u \in Callers \ {t} : Keeps(u)
  BY <1>3, <1>4, <1>5 DEF Keeps
<1> QED
  BY <1>6, <1>7, <1>8 DEF Good

(* The newest max of an ascending list are its last. *)
LEMMA CutIs ==
  ASSUME NEW s \in Lists, NEW max \in 0 .. MaxRevision, Ascending(s),
         NEW c, c = Newest(s, max)
  PROVE  /\ c \in Lists /\ Ascending(c) /\ Elements(c) \subseteq Elements(s)
         /\ \A r \in Elements(s) \ Elements(c) : \A q \in Elements(c) : r < q
         /\ max > 0 => Len(c) <= max
         /\ max = 0 \/ Len(c) < max => Elements(c) = Elements(s)
<1>1. PICK n \in 0 .. MaxRevision : s \in [1 .. n -> Revisions]
  BY DEF Lists
<1>2. n \in Nat /\ max \in Nat /\ MaxRevision \in Nat /\ Revisions \subseteq Int
  BY ReleaseAssumption DEF Revisions
<1>3. s \in Seq(Revisions) /\ Len(s) = n /\ DOMAIN s = 1 .. n
  BY <1>1, <1>2
<1>4. \A i, j \in 1 .. n : i < j => s[i] < s[j]
  BY <1>3 DEF Ascending
<1>5. CASE max > 0 /\ n > max
  <2> DEFINE k == n - max
  <2>1. k \in Nat /\ k + max = n /\ c = SubSeq(s, k + 1, n)
    BY <1>2, <1>3, <1>5 DEF Newest
  <2> HIDE DEF k
  <2>2. \A i \in 1 .. max : k + i \in 1 .. n
    BY <1>2, <2>1
  <2>3. c \in [1 .. max -> Revisions] /\ DOMAIN c = 1 .. max
    <3>1. c \in Seq(Revisions) /\ Len(c) = max
      BY <1>2, <1>3, <1>5, <2>1, SubSeqProperties
    <3> QED
      BY <3>1, LenProperties
  <2>4. \A i \in 1 .. max : k + i \in 1 .. n /\ c[i] = s[k + i]
    <3> SUFFICES ASSUME NEW i \in 1 .. max PROVE c[i] = s[k + i]
      BY <2>2
    <3>1. k + 1 \in 1 .. Len(s) + 1 /\ n \in (k + 1) - 1 .. Len(s)
      BY <1>2, <1>3, <2>1
    <3>2. i \in 1 .. n - (k + 1) + 1 /\ (k + 1) + i - 1 = k + i
      BY <1>2, <2>1
    <3>3. SubSeq(s, k + 1, n)[i] = s[(k + 1) + i - 1]
      BY <1>3, <3>1, <3>2, SubSeqProperties
    <3> QED
      BY <2>1, <3>2, <3>3
  <2>5. Ascending(c)
    <3> SUFFICES ASSUME NEW i \in 1 .. max, NEW j \in 1 .. max, i < j PROVE c[i] < c[j]
      BY <2>3 DEF Ascending
    <3>1. k + i \in 1 .. n /\ k + j \in 1 .. n /\ k + i < k + j
      BY <1>2, <2>1, <2>2
    <3> QED
      BY <1>4, <2>4, <3>1
  <2>6. \A i, j \in DOMAIN c : c[i] = c[j] => i = j
    <3> SUFFICES ASSUME NEW i \in 1 .. max, NEW j \in 1 .. max, c[i] = c[j], i # j
                 PROVE  FALSE
      BY <2>3
    <3>1. i < j \/ j < i
      BY <1>2
    <3>2. c[i] < c[j] \/ c[j] < c[i]
      BY <2>3, <2>5, <3>1 DEF Ascending
    <3>3. c[i] \in Int
      BY <1>2, <2>3
    <3> QED
      BY <3>2, <3>3
  <2>7. c \in Lists
    BY <1>2, <2>3, <2>6 DEF Lists
  <2>8. Elements(c) \subseteq Elements(s)
    BY <1>3, <2>3, <2>4 DEF Elements
  <2>9. ASSUME NEW r \in Elements(s) \ Elements(c), NEW q \in Elements(c)
        PROVE  r < q
    <3>1. PICK i \in 1 .. n : r = s[i]
      BY <1>3, <2>9 DEF Elements
    <3>2. PICK j \in 1 .. max : q = s[k + j] /\ k + j \in 1 .. n
      BY <2>3, <2>4, <2>9 DEF Elements
    <3>3. ~ (i > k)
      <4> SUFFICES ASSUME i > k PROVE FALSE
        OBVIOUS
      <4>1. i - k \in 1 .. max /\ k + (i - k) = i
        BY <1>2, <2>1
      <4>2. c[i - k] = s[i]
        BY <2>4, <4>1
      <4>3. r \in Elements(c)
        BY <2>3, <3>1, <4>1, <4>2 DEF Elements
      <4> QED
        BY <2>9, <4>3
    <3>4. i < k + j
      BY <1>2, <2>1, <3>3
    <3> QED
      BY <1>4, <3>1, <3>2, <3>4
  <2>10. Len(c) = max
    BY <1>2, <2>3
  <2> QED
    BY <1>2, <1>5, <2>5, <2>7, <2>8, <2>9, <2>10
<1>6. CASE ~ (max > 0 /\ n > max)
  BY <1>2, <1>3, <1>6 DEF Newest
<1> QED
  BY <1>5, <1>6

LEMMA HistoryCutsStep ==
  ASSUME TypeOK, NEW t \in Callers, Path(t), HistoryCuts(t)
  PROVE  Good(t)
<1> DEFINE s == rels[t]
           max == call[t].n
           c == Newest(s, max)
<1>1. /\ At(t, "cut") /\ Op(t, "history") /\ Elements(s) = seen[t] /\ Ascending(s)
      /\ t \notin panicked /\ failed[t] = "none" /\ t \notin pods
  BY DEF HistoryCuts, Path, OnTheWay, Asking, At
<1>2. s \in Lists /\ max \in 0 .. MaxRevision
  BY DEF TypeOK, Call
<1>3. rels' = [rels EXCEPT ![t] = c] /\ Succeeds(t)
  BY DEF HistoryCuts
<1>4. UNCHANGED <<stored, pods, call, given, ran, logs, seen, refused, wrote>>
  BY DEF HistoryCuts, clusterVars, callVars
<1>5. /\ c \in Lists /\ Ascending(c) /\ Elements(c) \subseteq seen[t]
      /\ \A r \in seen[t] \ Elements(c) : \A q \in Elements(c) : r < q
      /\ max > 0 => Len(c) <= max
      /\ max = 0 \/ Len(c) < max => Elements(c) = seen[t]
  <2> HIDE DEF s, max
  <2> QED
    BY <1>1, <1>2, CutIs
<1>6. EndTypes' /\ OtherEnds(t) /\ pc'[t] = "idle" /\ Settled(t)'
  BY <1>1, <1>3, SucceedsIs
<1> HIDE DEF c
<1>7. /\ rels' \in [Callers -> Lists] /\ rels'[t] = c
      /\ \A u \in Callers \ {t} : rels'[u] = rels[u]
  BY <1>3, <1>5 DEF TypeOK
<1>8. TypeOK'
  BY <1>4, <1>6, <1>7 DEF TypeOK, EndTypes
<1>9. Told(t)'
  BY <1>4, <1>5, <1>7 DEF Told
<1>10. Path(t)'
  BY <1>1, <1>4, <1>6, <1>9 DEF Path, Returned, Testing, Asking, Given, At, Op
<1>11. \A u \in Callers \ {t} : Keeps(u)
  BY <1>4, <1>6, <1>7 DEF Keeps, OtherEnds
<1> QED
  BY <1>8, <1>10, <1>11 DEF Good

-----------------------------------------------------------------------------
(* The steps of a test run. *)

LEMMA PassesIs ==
  ASSUME TypeOK, NEW t \in Callers, OnTheWay(t), NEW l \in PC, Passes(t, l)
  PROVE  /\ EndTypes' /\ OtherEnds(t) /\ OnTheWay(t)'
         /\ pc'[t] = l /\ failed'[t] = failed[t]
BY DEF Passes, Goes, EndTypes, OtherEnds, OnTheWay, TypeOK

LEMMA ContinuesIs ==
  ASSUME TypeOK, NEW t \in Callers, OnTheWay(t), NEW l \in PC,
         NEW x \in Cause \ {"none"}, NEW e \in Error, e # NoError, e.cause = x,
         Continues(t, l, x, e)
  PROVE  /\ EndTypes' /\ OtherEnds(t) /\ OnTheWay(t)'
         /\ pc'[t] = l /\ failed'[t] # "none"
<1> DEFINE kept == IF error[t] # NoError THEN error[t] ELSE e
<1>1. /\ failed' \in [Callers -> Cause]
      /\ failed'[t] = (IF failed[t] = "none" THEN x ELSE failed[t])
      /\ \A u \in Callers \ {t} : failed'[u] = failed[u]
  BY FailsIs DEF Continues
<1>2. kept \in Error
  BY DEF TypeOK
<1>3. error' = [error EXCEPT ![t] = kept]
  BY DEF Continues, FirstError
<1>4. kept # NoError /\ kept.cause = failed'[t]
  BY <1>1 DEF OnTheWay
<1> HIDE DEF kept
<1>5. /\ error' \in [Callers -> Error] /\ error'[t] = kept
      /\ \A u \in Callers \ {t} : error'[u] = error[u]
  BY <1>2, <1>3 DEF TypeOK
<1>6. /\ pc' \in [Callers -> PC] /\ pc'[t] = l /\ UNCHANGED <<code, panicked>>
      /\ \A u \in Callers \ {t} : pc'[u] = pc[u]
  BY DEF Continues, Goes, TypeOK
<1>7. failed'[t] # "none"
  BY <1>1
<1> QED
  BY <1>1, <1>4, <1>5, <1>6, <1>7 DEF EndTypes, OtherEnds, OnTheWay, TypeOK

(* A failure of the SDK in a step of a test run. *)
LEMMA SDKContinuesIs ==
  ASSUME TypeOK, NEW t \in Callers, OnTheWay(t), NEW l \in PC,
         \E x \in Causes : Continues(t, l, x, Plain(x))
  PROVE  /\ EndTypes' /\ OtherEnds(t) /\ OnTheWay(t)'
         /\ pc'[t] = l /\ failed'[t] # "none"
<1>1. PICK x \in Causes : Continues(t, l, x, Plain(x))
  OBVIOUS
<1>2. x \in Cause \ {"none"}
  BY CausesAre DEF Cause, SDKCause
<1>3. Plain(x) \in Error /\ Plain(x) # NoError /\ Plain(x).cause = x
  BY <1>2, PlainIs
<1> QED
  BY <1>1, <1>2, <1>3, ContinuesIs

LEMMA TestGood ==
  ASSUME TypeOK, NEW t \in Callers, Path(t), EndTypes', OtherEnds(t),
         UNCHANGED <<stored, callVars, rels, seen, wrote>>,
         pods' \subseteq Callers, refused' \subseteq Callers,
         ran' \in [Callers -> TestRun],
         logs' \in [Callers -> {"none", "empty", "whole"}],
         \A u \in Callers \ {t} :
           /\ ran'[u] = ran[u] /\ logs'[u] = logs[u]
           /\ u \in pods' <=> u \in pods
           /\ u \in refused' <=> u \in refused,
         \/ pc'[t] = "idle" /\ Returned(t)'
         \/ pc'[t] \in {"collect", "shutdown", "finish"} /\ OnTheWay(t)' /\ Testing(t)'
  PROVE  Good(t)
<1>1. UNCHANGED <<call, given>>
  BY DEF callVars
<1>2. TypeOK'
  BY <1>1 DEF TypeOK, EndTypes
<1>3. Given(t)'
  BY <1>1 DEF Path, Given, At
<1>4. Path(t)'
  BY <1>1, <1>3 DEF Path, Testing, Asking, At
<1>5. \A u \in Callers \ {t} : Keeps(u)
  BY <1>1 DEF Keeps, OtherEnds
<1> QED
  BY <1>2, <1>4, <1>5 DEF Good

(* A panic of the SDK ends a test run, with its pods left where they are. *)
LEMMA PanicReturns ==
  ASSUME TypeOK, NEW t \in Callers, Panics(t)
  PROVE  EndTypes' /\ OtherEnds(t) /\ pc'[t] = "idle" /\ Returned(t)'
<1>1. /\ EndTypes' /\ OtherEnds(t) /\ pc'[t] = "idle" /\ code'[t] = "Panic"
      /\ t \in panicked' /\ Settled(t)'
  BY PanicsIs
<1> QED
  BY <1>1 DEF Returned

LEMMA TestRunsStep ==
  ASSUME TypeOK, NEW t \in Callers, Path(t), TestRuns(t)
  PROVE  Good(t)
<1>1. /\ At(t, "run") /\ Op(t, "test") /\ OnTheWay(t) /\ failed[t] = "none"
      /\ error[t] = NoError /\ t \notin panicked
      /\ t \notin pods /\ t \notin refused /\ logs[t] = "none"
  BY DEF TestRuns, Path, OnTheWay, At
<1>2. UNCHANGED <<stored, callVars, logs, rels, seen, refused, wrote>>
  BY DEF TestRuns
<1>3. UNCHANGED call
  BY <1>2 DEF callVars
<1>4. ASSUME NEW run \in TestRun, RunReturns(t, run),
             pods' = pods \/ (run.shutdown # "none" /\ pods' = pods \cup {t}),
             \/ /\ UNCHANGED <<error, failed>>
                /\ run.shutdown \notin {"noop", "failed"}
                /\ run.hooks /\ call[t].live => pods' = pods \cup {t}
             \/ \E x \in Causes \cup {"not found"} : RunFails(t, x)
      PROVE  Good(t)
  <2>1. /\ ran' \in [Callers -> TestRun] /\ ran'[t] = run
        /\ \A u \in Callers \ {t} : ran'[u] = ran[u]
    BY <1>4 DEF TypeOK, RunReturns
  <2>2. /\ pods' \subseteq Callers
        /\ \A u \in Callers \ {t} : u \in pods' <=> u \in pods
        /\ t \in pods' => run.shutdown # "none"
    BY <1>1, <1>4 DEF TypeOK
  <2>3. /\ pc' \in [Callers -> PC] /\ pc'[t] = "collect" /\ UNCHANGED <<code, panicked>>
        /\ \A u \in Callers \ {t} : pc'[u] = pc[u]
    BY <1>4 DEF RunReturns, Goes, TypeOK, PC
  <2>4. /\ error' \in [Callers -> Error] /\ failed' \in [Callers -> Cause]
        /\ \A u \in Callers \ {t} : error'[u] = error[u] /\ failed'[u] = failed[u]
        /\ \/ /\ failed'[t] = "none" /\ error'[t] = NoError
              /\ run.shutdown \notin {"noop", "failed"}
              /\ run.hooks /\ call[t].live => pods' = pods \cup {t}
           \/ /\ failed'[t] # "none"
              /\ error'[t] # NoError /\ error'[t].cause = failed'[t]
    <3>1. CASE /\ UNCHANGED <<error, failed>>
               /\ run.shutdown \notin {"noop", "failed"}
               /\ run.hooks /\ call[t].live => pods' = pods \cup {t}
      BY <1>1, <3>1 DEF TypeOK
    <3>2. ASSUME NEW x \in Causes \cup {"not found"}, RunFails(t, x)
          PROVE  /\ error' \in [Callers -> Error] /\ failed' \in [Callers -> Cause]
                 /\ \A u \in Callers \ {t} : error'[u] = error[u] /\ failed'[u] = failed[u]
                 /\ failed'[t] # "none"
                 /\ error'[t] # NoError /\ error'[t].cause = failed'[t]
      <4>1. x \in Cause \ {"none"}
        BY CausesAre DEF Cause, SDKCause
      <4>2. Plain(x) \in Error /\ Plain(x) # NoError /\ Plain(x).cause = x
        BY <4>1, PlainIs
      <4>3. failed' \in [Callers -> Cause] /\ failed'[t] = x
            /\ \A u \in Callers \ {t} : failed'[u] = failed[u]
        BY <1>1, <3>2, <4>1, FailsIs DEF RunFails
      <4>4. /\ error' \in [Callers -> Error] /\ error'[t] = Plain(x)
            /\ \A u \in Callers \ {t} : error'[u] = error[u]
        BY <3>2, <4>2 DEF TypeOK, RunFails
      <4> QED
        BY <4>1, <4>2, <4>3, <4>4
    <3> QED
      BY <1>4, <3>1, <3>2
  <2>5. EndTypes' /\ OtherEnds(t)
    BY <2>3, <2>4 DEF EndTypes, OtherEnds, TypeOK
  <2>6. OnTheWay(t)'
    BY <1>1, <2>3, <2>4 DEF OnTheWay
  <2>7. Testing(t)'
    BY <1>1, <1>2, <1>3, <2>1, <2>2, <2>3, <2>4 DEF Testing, At, Op
  <2> QED
    BY <1>2, <2>1, <2>2, <2>3, <2>5, <2>6, <2>7, TestGood DEF TypeOK
<1>5. CASE Panics(t) /\ UNCHANGED <<pods, ran>>
  BY <1>2, <1>5, PanicReturns, TestGood DEF TypeOK
<1>6. CASE FailsEarly(t)
  <2>1. PICK h \in BOOLEAN, f \in {"none", "noop"} :
          RunReturns(t, [hooks |-> h, shutdown |-> f, keeps |-> FALSE])
    BY <1>6 DEF FailsEarly
  <2>2. [hooks |-> h, shutdown |-> f, keeps |-> FALSE] \in TestRun
    BY DEF TestRun, ShutdownFunc
  <2> QED
    BY <1>4, <1>6, <2>1, <2>2 DEF FailsEarly
<1>7. CASE HooksPass(t)
  <2>1. PICK h \in BOOLEAN, k \in BOOLEAN :
          /\ RunReturns(t, [hooks |-> h, shutdown |-> "succeeded", keeps |-> k])
          /\ pods' = IF h THEN PodsOf(t) ELSE pods
    BY <1>7 DEF HooksPass
  <2> DEFINE run == [hooks |-> h, shutdown |-> "succeeded", keeps |-> k]
  <2>2. run \in TestRun /\ run.shutdown = "succeeded" /\ run.hooks = h
    BY DEF TestRun, ShutdownFunc
  <2>3. /\ pods' = pods \/ pods' = pods \cup {t}
        /\ h /\ call[t].live => pods' = pods \cup {t}
    BY <2>1 DEF PodsOf
  <2>4. \/ UNCHANGED <<error, failed>>
        \/ \E x \in Causes \cup {"not found"} : RunFails(t, x)
    BY <1>7 DEF HooksPass
  <2>5. RunReturns(t, run)
    BY <2>1
  <2> HIDE DEF run
  <2> QED
    BY <1>4, <2>2, <2>3, <2>4, <2>5
<1>8. CASE HookFails(t)
  <2>1. PICK k \in BOOLEAN, f \in {"failed", "noop"} :
          /\ RunReturns(t, [hooks |-> TRUE, shutdown |-> f, keeps |-> k])
          /\ pods' \in {pods, PodsOf(t)}
    BY <1>8 DEF HookFails
  <2> DEFINE run == [hooks |-> TRUE, shutdown |-> f, keeps |-> k]
  <2>2. run \in TestRun /\ run.shutdown # "none"
    BY DEF TestRun, ShutdownFunc
  <2>3. pods' = pods \/ pods' = pods \cup {t}
    BY <2>1 DEF PodsOf
  <2>4. \E x \in Causes \cup {"not found"} : RunFails(t, x)
    BY <1>8 DEF HookFails
  <2>5. RunReturns(t, run)
    BY <2>1
  <2> HIDE DEF run
  <2> QED
    BY <1>4, <2>2, <2>3, <2>4, <2>5
<1> QED
  BY <1>5, <1>6, <1>7, <1>8 DEF TestRuns

LEMMA TestCollectsStep ==
  ASSUME TypeOK, NEW t \in Callers, Path(t), TestCollects(t)
  PROVE  Good(t)
<1>1. /\ At(t, "collect") /\ Op(t, "test") /\ OnTheWay(t)
      /\ t \notin refused /\ (t \in pods => ran[t].shutdown # "none") /\ logs[t] = "none"
      /\ ran[t].shutdown \in {"noop", "failed"} => failed[t] # "none"
      /\ failed[t] = "none" /\ ran[t].hooks /\ call[t].live => t \in pods
  BY DEF TestCollects, Path, Testing, At
<1>2. /\ UNCHANGED <<stored, pods, callVars, ran, rels, seen, refused, wrote>>
      /\ UNCHANGED call /\ CollectLogs(t, "shutdown")
  BY DEF TestCollects, clusterVars, callVars
<1>3. "shutdown" \in PC
  BY DEF PC
<1>4. ASSUME EndTypes', OtherEnds(t), OnTheWay(t)', pc'[t] = "shutdown",
             logs' \in [Callers -> {"none", "empty", "whole"}],
             \A u \in Callers \ {t} : logs'[u] = logs[u],
             failed[t] # "none" => failed'[t] # "none",
             failed'[t] = "none" => LogsTold(t)'
      PROVE  Good(t)
  <2>1. Testing(t)'
    BY <1>1, <1>2, <1>4 DEF Testing, At, Op
  <2> QED
    BY <1>2, <1>4, <2>1, TestGood DEF TypeOK
<1>5. CASE ~ (call[t].logs /\ ran[t].hooks) /\ Passes(t, "shutdown") /\ UNCHANGED logs
  <2>1. /\ EndTypes' /\ OtherEnds(t) /\ OnTheWay(t)' /\ pc'[t] = "shutdown"
        /\ failed'[t] = failed[t]
    BY <1>1, <1>3, <1>5, PassesIs
  <2>2. LogsTold(t)'
    BY <1>1, <1>2, <1>5 DEF LogsTold
  <2> QED
    BY <1>4, <1>5, <2>1, <2>2 DEF TypeOK
<1>6. CASE Continues(t, "shutdown", "other", Coded("Kube")) /\ UNCHANGED logs
  <2>1. "other" \in Cause \ {"none"} /\ Coded("Kube") \in Error
        /\ Coded("Kube") # NoError /\ Coded("Kube").cause = "other"
    BY CodedIs DEF Code, Cause, SDKCause
  <2>2. /\ EndTypes' /\ OtherEnds(t) /\ OnTheWay(t)' /\ pc'[t] = "shutdown"
        /\ failed'[t] # "none"
    BY <1>1, <1>3, <1>6, <2>1, ContinuesIs
  <2> QED
    BY <1>4, <1>6, <2>2 DEF TypeOK
<1>7. CASE /\ call[t].logs /\ ran[t].hooks /\ call[t].live
           /\ logs' = [logs EXCEPT ![t] = IF t \in pods THEN "whole" ELSE "empty"]
           /\ Passes(t, "shutdown")
  <2>1. /\ EndTypes' /\ OtherEnds(t) /\ OnTheWay(t)' /\ pc'[t] = "shutdown"
        /\ failed'[t] = failed[t]
    BY <1>1, <1>3, <1>7, PassesIs
  <2>2. /\ logs' \in [Callers -> {"none", "empty", "whole"}]
        /\ logs'[t] = IF t \in pods THEN "whole" ELSE "empty"
        /\ \A u \in Callers \ {t} : logs'[u] = logs[u]
    BY <1>7 DEF TypeOK
  <2>3. failed'[t] = "none" => LogsTold(t)'
    BY <1>1, <1>2, <1>7, <2>1, <2>2 DEF LogsTold
  <2> QED
    BY <1>4, <2>1, <2>2, <2>3
<1>8. CASE (\E x \in Causes : Continues(t, "shutdown", x, Plain(x))) /\ UNCHANGED logs
  <2>1. /\ EndTypes' /\ OtherEnds(t) /\ OnTheWay(t)' /\ pc'[t] = "shutdown"
        /\ failed'[t] # "none"
    BY <1>1, <1>3, <1>8, SDKContinuesIs
  <2> QED
    BY <1>4, <1>8, <2>1 DEF TypeOK
<1>9. CASE Panics(t) /\ UNCHANGED logs
  BY <1>2, <1>9, PanicReturns, TestGood DEF TypeOK
<1> QED
  BY <1>2, <1>5, <1>6, <1>7, <1>8, <1>9 DEF CollectLogs

LEMMA TestShutsDownStep ==
  ASSUME TypeOK, NEW t \in Callers, Path(t), TestShutsDown(t)
  PROVE  Good(t)
<1>1. /\ At(t, "shutdown") /\ Op(t, "test") /\ OnTheWay(t)
      /\ t \notin refused /\ (t \in pods => ran[t].shutdown # "none")
      /\ ran[t].shutdown \in {"noop", "failed"} => failed[t] # "none"
      /\ failed[t] = "none" => LogsTold(t)
  BY DEF TestShutsDown, Path, Testing, At
<1>2. /\ UNCHANGED <<stored, callVars, ran, logs, rels, seen, wrote>>
      /\ UNCHANGED call /\ Shutdown(t, "finish")
  BY DEF TestShutsDown, callVars, resultVars
<1>3. "finish" \in PC
  BY DEF PC
<1>4. failed[t] = "none" => LogsTold(t)'
  BY <1>1, <1>2 DEF LogsTold
(* The call comes to its end with no pod but those that may be left. *)
<1>5. ASSUME EndTypes', OtherEnds(t), OnTheWay(t)', pc'[t] = "finish",
             failed[t] # "none" => failed'[t] # "none", failed'[t] = "none" => LogsTold(t)',
             pods' \in {pods, pods \ {t}}, refused' \in {refused, refused \cup {t}},
             t \in pods' =>
               ran[t].keeps \/ t \in refused' \/ ran[t].shutdown \in {"none", "noop"},
             t \in refused' => failed'[t] # "none"
      PROVE  Good(t)
  <2>1. t \in pods' => ran[t].keeps \/ t \in refused' \/ ran[t].shutdown = "noop"
    BY <1>1, <1>5
  <2>2. Testing(t)'
    BY <1>1, <1>2, <1>5, <2>1 DEF Testing, At, Op
  <2> QED
    BY <1>2, <1>5, <2>2, TestGood DEF TypeOK
<1>6. CASE /\ ran[t].shutdown \in {"none", "noop"} \/ ran[t].keeps
           /\ Passes(t, "finish") /\ UNCHANGED <<pods, refused>>
  <2>1. /\ EndTypes' /\ OtherEnds(t) /\ OnTheWay(t)' /\ pc'[t] = "finish"
        /\ failed'[t] = failed[t]
    BY <1>1, <1>3, <1>6, PassesIs
  <2> QED
    BY <1>1, <1>4, <1>5, <1>6, <2>1
<1>7. CASE pods' = pods \ {t} /\ Passes(t, "finish") /\ UNCHANGED refused
  <2>1. /\ EndTypes' /\ OtherEnds(t) /\ OnTheWay(t)' /\ pc'[t] = "finish"
        /\ failed'[t] = failed[t]
    BY <1>1, <1>3, <1>7, PassesIs
  <2> QED
    BY <1>1, <1>4, <1>5, <1>7, <2>1
<1>8. CASE /\ \E x \in Causes : Continues(t, "finish", x, Plain(x))
           /\ refused' = refused \cup {t} /\ UNCHANGED pods
  <2>1. /\ EndTypes' /\ OtherEnds(t) /\ OnTheWay(t)' /\ pc'[t] = "finish"
        /\ failed'[t] # "none"
    BY <1>1, <1>3, <1>8, SDKContinuesIs
  <2> QED
    BY <1>5, <1>8, <2>1
<1>9. CASE /\ ran[t].shutdown = "failed" /\ Passes(t, "finish")
           /\ refused' = refused \cup {t} /\ UNCHANGED pods
  <2>1. /\ EndTypes' /\ OtherEnds(t) /\ OnTheWay(t)' /\ pc'[t] = "finish"
        /\ failed'[t] = failed[t]
    BY <1>1, <1>3, <1>9, PassesIs
  <2> QED
    BY <1>1, <1>4, <1>5, <1>9, <2>1
<1>10. CASE Panics(t) /\ UNCHANGED <<pods, refused>>
  BY <1>2, <1>10, PanicReturns, TestGood DEF TypeOK
<1> QED
  BY <1>2, <1>6, <1>7, <1>8, <1>9, <1>10 DEF Shutdown

LEMMA TestFinishesStep ==
  ASSUME TypeOK, NEW t \in Callers, Path(t), TestFinishes(t)
  PROVE  Good(t)
<1>1. /\ At(t, "finish") /\ Op(t, "test") /\ OnTheWay(t)
      /\ t \in pods => ran[t].keeps \/ t \in refused \/ ran[t].shutdown = "noop"
      /\ t \in refused \/ ran[t].shutdown = "noop" => failed[t] # "none"
      /\ failed[t] = "none" => LogsTold(t)
  BY DEF TestFinishes, Path, Testing, At
<1>2. UNCHANGED <<stored, pods, callVars, ran, logs, rels, seen, refused, wrote>>
      /\ UNCHANGED call
  BY DEF TestFinishes, clusterVars, callVars, resultVars
<1>3. CASE /\ error[t] # NoError
           /\ Return(t, WrapActionError(error[t], "Release"))
           /\ UNCHANGED <<failed, panicked>>
  <2> DEFINE w == WrapActionError(error[t], "Release")
  <2>1. w \in Error /\ w.cause = error[t].cause /\ FromError(w) \in Code \ {"OK", "Panic"}
    BY WrapIs DEF TypeOK
  <2> HIDE DEF w
  <2>2. /\ pc' \in [Callers -> PC] /\ pc'[t] = "idle"
        /\ error' \in [Callers -> Error] /\ error'[t] = w
        /\ code' \in [Callers -> Code] /\ code'[t] = FromError(w)
        /\ \A u \in Callers \ {t} :
             pc'[u] = pc[u] /\ error'[u] = error[u] /\ code'[u] = code[u]
    BY <1>3, <2>1, ReturnIs DEF w
  <2>3. EndTypes' /\ OtherEnds(t)
    BY <1>3, <2>2 DEF EndTypes, OtherEnds, TypeOK
  <2>4. Returned(t)'
    BY <1>1, <1>2, <1>3, <2>1, <2>2 DEF Returned, Settled, OnTheWay, Op
  <2> QED
    BY <1>2, <2>2, <2>3, <2>4, TestGood DEF TypeOK
<1>4. CASE error[t] = NoError /\ Summarized(t)
  <2>1. t \notin panicked /\ failed[t] = "none"
    BY <1>1, <1>4 DEF OnTheWay
  <2>2. EndTypes' /\ OtherEnds(t) /\ pc'[t] = "idle" /\ Settled(t)'
    BY <1>4, <2>1, SummarizedIs
  <2>3. Returned(t)'
    BY <1>1, <1>2, <2>1, <2>2 DEF Returned, LogsTold, Op
  <2> QED
    BY <1>2, <2>2, <2>3, TestGood DEF TypeOK
<1> QED
  BY <1>3, <1>4 DEF TestFinishes

-----------------------------------------------------------------------------
(* The invariant holds. *)

LEMMA InitInv == Init => TypeOK /\ Inv
<1> SUFFICES ASSUME Init PROVE TypeOK /\ Inv
  OBVIOUS
<1>1. TypeOK
  <2>1. /\ stored \subseteq Revisions /\ pods \subseteq Callers
        /\ pc \in [Callers -> PC] /\ code \in [Callers -> Code]
        /\ seen \in [Callers -> SUBSET Revisions] /\ failed \in [Callers -> Cause]
        /\ logs \in [Callers -> {"none", "empty", "whole"}]
        /\ panicked \subseteq Callers /\ refused \subseteq Callers /\ wrote \subseteq Callers
    BY DEF Init, PC, Code, Cause
  <2>2. error \in [Callers -> Error] /\ rels \in [Callers -> Lists]
    BY NoErrorIs, EmptyList DEF Init
  <2>3. ran \in [Callers -> TestRun]
    BY DEF Init, NothingRan, TestRun, ShutdownFunc
  <2>4. given \in [Callers ->
          [timeout : -Limit .. Limit - 1, dry : {"unset", "none", "client"}]]
    BY ReleaseAssumption DEF Init
  <2>5. call \in [Callers -> Call]
    BY ReleaseAssumption DEF Init, Call, Ops, DryRun
  <2> QED
    BY <2>1, <2>2, <2>3, <2>4, <2>5 DEF TypeOK
<1>2. ASSUME NEW t \in Callers PROVE Path(t)
  BY DEF Init, Path, Returned, Settled, Testing, Asking, Given, At, Op, Writing, NothingRan
<1> QED
  BY <1>1, <1>2 DEF Inv

LEMMA StepInv == TypeOK /\ Inv /\ [Next]_vars => (TypeOK /\ Inv)'
<1> SUFFICES ASSUME TypeOK, Inv, [Next]_vars PROVE (TypeOK /\ Inv)'
  OBVIOUS
<1>1. ASSUME NEW t \in Callers, Good(t) PROVE (TypeOK /\ Inv)'
  <2>1. \A u \in Callers \ {t} : Path(u)'
    BY <1>1, KeptInv DEF Good, Inv
  <2> QED
    BY <1>1, <2>1 DEF Good, Inv
<1>2. ASSUME NEW t \in Callers,
             \/ \E a \in Args : Start(t, a)
             \/ Prepare(t)
             \/ TestRuns(t) \/ TestCollects(t) \/ TestShutsDown(t) \/ TestFinishes(t)
             \/ Uninstalls(t) \/ RollsBack(t)
             \/ Queries(t) \/ HistoryReads(t) \/ HistorySorts(t) \/ HistoryCuts(t)
      PROVE  Good(t)
  <2>0. Path(t)
    BY DEF Inv
  <2>1. CASE \E a \in Args : Start(t, a)
    BY <2>1, StartStep
  <2>2. CASE Prepare(t)
    BY <2>0, <2>2, PrepareStep
  <2>3. CASE TestRuns(t)
    BY <2>0, <2>3, TestRunsStep
  <2>4. CASE TestCollects(t)
    BY <2>0, <2>4, TestCollectsStep
  <2>5. CASE TestShutsDown(t)
    BY <2>0, <2>5, TestShutsDownStep
  <2>6. CASE TestFinishes(t)
    BY <2>0, <2>6, TestFinishesStep
  <2>7. CASE Uninstalls(t)
    BY <2>0, <2>7, UninstallsStep
  <2>8. CASE RollsBack(t)
    BY <2>0, <2>8, RollsBackStep
  <2>9. CASE Queries(t)
    BY <2>0, <2>9, QueriesStep
  <2>10. CASE HistoryReads(t)
    BY <2>0, <2>10, HistoryReadsStep
  <2>11. CASE HistorySorts(t)
    BY <2>0, <2>11, HistorySortsStep
  <2>12. CASE HistoryCuts(t)
    BY <2>0, <2>12, HistoryCutsStep
  <2> QED
    BY <1>2, <2>1, <2>2, <2>3, <2>4, <2>5, <2>6, <2>7, <2>8, <2>9, <2>10, <2>11, <2>12
<1>3. CASE UNCHANGED vars
  <2>1. \A u \in Callers : Keeps(u)
    BY <1>3 DEF vars, clusterVars, callVars, resultVars, Keeps
  <2>2. TypeOK'
    BY <1>3 DEF vars, clusterVars, callVars, resultVars, TypeOK
  <2> QED
    BY <2>1, <2>2, KeptInv DEF Inv
<1>4. CASE Next
  BY <1>1, <1>2, <1>4 DEF Next
<1> QED
  BY <1>3, <1>4

LEMMA Invariance == Spec => [](TypeOK /\ Inv)
BY InitInv, StepInv, PTL DEF Spec

-----------------------------------------------------------------------------
(* Every variable of the calls on a release keeps its type, whatever the    *)
(* SDK and the cluster do; timeouts stay durations.                         *)
THEOREM ReleaseTypeCorrect == Spec => []TypeOK
BY Invariance, PTL

(* The code of a call (capi's recoverToCode and FromError over firstError   *)
(* and wrapActionError) is of the first thing that failed in it.            *)
THEOREM HostIsToldTheFirstFailure == Spec => []CodeTellsFirstFailure
<1>1. TypeOK /\ Inv => CodeTellsFirstFailure
  BY DEF Inv, Path, Returned, Settled, CodeTellsFirstFailure
<1> QED
  BY <1>1, Invariance, PTL

(* TestRelease leaves the pods a delete policy keeps. It leaves others only *)
(* after a panic of the SDK, a refusal of the cluster, or a hook that was   *)
(* never created, and then the host is told.                                *)
THEOREM TestPodsAreCleanedUp == Spec => []PodsCleanedUp
<1>1. TypeOK /\ Inv => PodsCleanedUp
  BY DEF Inv, Path, Returned, PodsCleanedUp
<1> QED
  BY <1>1, Invariance, PTL

(* TestRelease reads the logs it was asked for before the pods are gone.    *)
THEOREM LogsAreReadInTime == Spec => []LogsAreWhole
<1>1. TypeOK /\ Inv => LogsAreWhole
  BY DEF Inv, Path, Returned, LogsTold, LogsAreWhole
<1> QED
  BY <1>1, Invariance, PTL

(* HistoryRelease tells the newest revisions, in order, for any number of   *)
(* revisions and any max.                                                   *)
THEOREM HistoryTellsTheNewest == Spec => []NewestKept
<1>1. TypeOK /\ Inv => NewestKept
  BY DEF Inv, Path, Returned, Told, NewestKept
<1> QED
  BY <1>1, Invariance, PTL

(* The options reach the SDK as the host gave them, for any timeout that    *)
(* can be expressed in nanoseconds (runTargets.apply, parseDryRun).         *)
THEOREM SDKRunsAsAsked == Spec => []RunsAsAsked
<1>1. TypeOK /\ Inv => RunsAsAsked
  BY DEF Inv, Path, Given, RunsAsAsked
<1> QED
  BY <1>1, Invariance, PTL
=============================================================================
