---------------------------- MODULE ReleaseCalls ----------------------------
(***************************************************************************)
(* The calls on a release that exists: helm_test_run, helm_uninstall,      *)
(* helm_rollback, and the queries helm_history, helm_status and            *)
(* helm_get_... (pkg/wrapper/testing_action.go, release_actions.go, and    *)
(* the options they share in actions.go). Several host threads use one     *)
(* release; the host serializes the calls that write it (API.md:465), the  *)
(* queries run at any time.                                                *)
(*                                                                         *)
(* The SDK and the cluster are what may go wrong: any step of theirs fails *)
(* or panics. A test run has three such steps, and the SDK leaves the      *)
(* deletion of its pods to the last, so that their logs can be read; what  *)
(* is deleted then is up to the delete policies of the test hooks and to   *)
(* how the run ended.                                                      *)
(***************************************************************************)
EXTENDS ActionErrors, Integers

CONSTANTS
  Callers,      \* host threads
  Asks,         \* what each of them calls
  Causes,       \* the causes the SDK fails for, but for an absent release
  MaxRevision,  \* revisions there may be (a bound of the model)
  Seconds,      \* the values of timeout_seconds asked for
  Second,       \* time.Second
  Limit,        \* a time.Duration is in -Limit .. Limit - 1 (2^63 in the code)
  Default       \* the timeout the SDK's constructors set

Writing == {"test", "uninstall", "rollback"}

Ops == Writing \cup {"history", "query"}

ASSUME AsksAssumption ==
  Asks \in [Callers -> SUBSET Ops] /\ Causes \subseteq SDKCause \ {"not found"}

ASSUME ReleaseAssumption ==
  /\ MaxRevision \in Nat /\ Seconds \subseteq Int
  /\ Second \in Nat \ {0} /\ Limit \in Nat \ {0} /\ Default \in 1 .. Limit - 1

VARIABLES
  stored,    \* the revisions the cluster has a record of
  pods,      \* callers whose last test has pods in the cluster
  pc,        \* where in its call each caller is
  call,      \* the arguments of its call
  given,     \* what the SDK's action was given
  ran,       \* what the SDK's test run handed back: a release with test hooks
             \* (and not none, or one without), a shutdown function; and
             \* whether the policy of some hook keeps its pod after such a run
  logs,      \* the logs collected
  rels,      \* the revisions read, then told
  error,     \* the Go error so far, and that of the last call
  code,      \* the C code of the last call
  seen,      \* history: the revisions stored when the call read them
  failed,    \* history: the first thing that failed in the call
  panicked,  \* history: callers whose SDK panicked
  refused,   \* history: callers whose pods the cluster did not delete
  wrote      \* history: callers whose call changed the records

clusterVars == <<stored, pods>>
callVars    == <<call, given>>
resultVars  == <<ran, logs, rels, seen>>
vars        == <<clusterVars, callVars, resultVars, pc, error, code, failed,
                 panicked, refused, wrote>>

Revisions == 1 .. MaxRevision

(* Lists of revisions, each at most once. *)
Lists ==
  {s \in UNION {[1 .. n -> Revisions] : n \in 0 .. MaxRevision} :
     \A i, j \in DOMAIN s : s[i] = s[j] => i = j}

Elements(s) == {s[i] : i \in DOMAIN s}

Ascending(s) == \A i, j \in DOMAIN s : i < j => s[i] < s[j]

DryRun == {"none", "client", "mistyped"}

(* live: the config has a REST client; n: max of a history, the revision of *)
(* a query, 0 for all and for the latest; dry: dry_run as it is spelled.    *)
Call ==
  [op : Ops, n : 0 .. MaxRevision, dry : DryRun, logs : BOOLEAN, live : BOOLEAN,
   ignore : BOOLEAN, seconds : Seconds \cup {0}]

(* Each call has options of its own; dry_run of an uninstall is a Boolean.  *)
Args ==
  {a \in Call :
     /\ a.op \notin Writing => a.seconds = 0
     /\ a.op \in Writing => a.n = 0
     /\ a.op # "test" => ~ a.logs /\ a.live
     /\ a.op # "uninstall" => ~ a.ignore
     /\ a.dry # "none" => a.op = "rollback" \/ (a.op = "uninstall" /\ a.dry = "client")}

PC == {"idle", "prepare", "run", "collect", "shutdown", "finish", "sort", "cut"}

-----------------------------------------------------------------------------
At(t, l) == pc[t] = l

Op(t, op) == call[t].op = op

Goes(t, l) == pc' = [pc EXCEPT ![t] = l] /\ UNCHANGED code

(* The call returns with error e. *)
Return(t, e) ==
  /\ pc' = [pc EXCEPT ![t] = "idle"]
  /\ error' = [error EXCEPT ![t] = e]
  /\ code' = [code EXCEPT ![t] = FromError(e)]

(* Something failed for this cause. *)
Fails(t, cause) == failed' = [failed EXCEPT ![t] = IF @ = "none" THEN cause ELSE @]

(* A call of the SDK panics and recoverToCode makes it a code. *)
Panics(t) ==
  /\ panicked' = panicked \cup {t}
  /\ Return(t, Coded("Panic"))
  /\ UNCHANGED failed

(* helm-c's own code panics: on a nil it did not look for. *)
Crashes(t) ==
  /\ Return(t, Coded("Panic"))
  /\ UNCHANGED <<failed, panicked>>

Succeeds(t) == Return(t, NoError) /\ UNCHANGED <<failed, panicked>>

(* The SDK failed, and the action tells so. *)
FailsWith(t, cause) ==
  /\ Fails(t, cause)
  /\ Return(t, WrapActionError(Plain(cause), "Release"))
  /\ UNCHANGED panicked

(* summarizeRelease and summarizeReleases, then the end: the release may be *)
(* of a kind the SDK has no accessor for.                                   *)
Summarized(t) ==
  \/ Succeeds(t)
  \/ Fails(t, "other") /\ Return(t, Coded("Release")) /\ UNCHANGED panicked

(* The function the SDK returns to shut a test down: none, one that does    *)
(* nothing, or the one of a run in which a hook failed or none did.         *)
ShutdownFunc == {"none", "noop", "failed", "succeeded"}

TestRun == [hooks : BOOLEAN, shutdown : ShutdownFunc, keeps : BOOLEAN]

NothingRan == [hooks |-> FALSE, shutdown |-> "none", keeps |-> FALSE]

Start(t, a) ==
  /\ At(t, "idle") /\ a.op \in Asks[t]
  /\ a.op \in Writing =>
       \A u \in Callers \ {t} : At(u, "idle") \/ call[u].op \notin Writing
  /\ call' = [call EXCEPT ![t] = a]
  /\ given' = [given EXCEPT ![t] = [timeout |-> 0, dry |-> "unset"]]
  /\ ran' = [ran EXCEPT ![t] = NothingRan]
  /\ logs' = [logs EXCEPT ![t] = "none"]
  /\ rels' = [rels EXCEPT ![t] = << >>]
  /\ seen' = [seen EXCEPT ![t] = {}]
  /\ error' = [error EXCEPT ![t] = NoError]
  /\ failed' = [failed EXCEPT ![t] = "none"]
  /\ panicked' = panicked \ {t}
  /\ refused' = refused \ {t}
  /\ wrote' = wrote \ {t}
  /\ pods' = pods \ {t}
  /\ Goes(t, IF a.op \in Writing THEN "prepare" ELSE "run")
  /\ UNCHANGED stored

-----------------------------------------------------------------------------
(* The options. *)

(* Go's multiplication of a time.Duration. *)
Wrapped(n) == ((n + Limit) % (2 * Limit)) - Limit

(* Wrong variant of Timeout: a timeout of no seconds is one of none. *)
TimeoutUnguarded(seconds) ==
  IF seconds >= 0 THEN Wrapped(seconds * Second) ELSE Default

Timeout(seconds) ==
  IF seconds > 0 THEN Wrapped(seconds * Second) ELSE Default

(* Wrong variant of ParseDryRun: what is not a dry run is none. *)
ParseDryRunLenient(s) == IF s = "client" THEN s ELSE "none"

(* parseDryRun: the SDK would take any other spelling for a run against     *)
(* fakes; it is refused.                                                    *)
ParseDryRun(s) == IF s = "mistyped" THEN "invalid" ELSE s

(* The checks of each function and runTargets.apply. An uninstall may name  *)
(* an unknown deletion_propagation, a rollback a server_side_apply.         *)
Prepare(t) ==
  LET dry == ParseDryRun(call[t].dry)
  IN  /\ At(t, "prepare")
      /\ \/ /\ dry # "invalid"
            /\ given' = [given EXCEPT ![t] =
                 [timeout |-> Timeout(call[t].seconds), dry |-> dry]]
            /\ Goes(t, "run")
            /\ UNCHANGED <<error, failed>>
         \/ /\ dry = "invalid" \/ call[t].op \in {"uninstall", "rollback"}
            /\ Fails(t, "other")
            /\ Return(t, Coded("InvalidArg"))
            /\ UNCHANGED given
      /\ UNCHANGED <<clusterVars, call, resultVars, panicked, refused, wrote>>

-----------------------------------------------------------------------------
(* TestRelease. *)

(* The error of a run that failed. *)
RunFails(t, cause) == Fails(t, cause) /\ error' = [error EXCEPT ![t] = Plain(cause)]

RunReturns(t, run) == ran' = [ran EXCEPT ![t] = run] /\ Goes(t, "collect") /\ UNCHANGED panicked

(* The SDK's Run. It fails before there are pods, with or without a release. *)
FailsEarly(t) ==
  /\ \E h \in BOOLEAN, f \in {"none", "noop"} :
       RunReturns(t, [hooks |-> h, shutdown |-> f, keeps |-> FALSE])
  /\ \E cause \in Causes \cup {"not found"} : RunFails(t, cause)
  /\ UNCHANGED pods

(* A config without a REST client has no cluster to put pods in. *)
PodsOf(t) == IF call[t].live THEN pods \cup {t} ELSE pods

(* All test hooks pass, if there are any; the release may not be updated.  *)
HooksPass(t) ==
  /\ stored # {}
  /\ \E h, k \in BOOLEAN :
       /\ RunReturns(t, [hooks |-> h, shutdown |-> "succeeded", keeps |-> k])
       /\ pods' = IF h THEN PodsOf(t) ELSE pods
  /\ UNCHANGED <<error, failed>> \/ \E cause \in Causes : RunFails(t, cause)

(* A test hook fails, or one cannot be created while there are the pods of  *)
(* earlier ones, or none.                                                   *)
HookFails(t) ==
  /\ stored # {}
  /\ \E k \in BOOLEAN :
       \/ /\ RunReturns(t, [hooks |-> TRUE, shutdown |-> "failed", keeps |-> k])
          /\ pods' = PodsOf(t)
       \/ /\ RunReturns(t, [hooks |-> TRUE, shutdown |-> "noop", keeps |-> k])
          /\ pods' \in {pods, PodsOf(t)}
  /\ \E cause \in Causes : RunFails(t, cause)

TestRuns(t) ==
  /\ At(t, "run") /\ Op(t, "test")
  /\ \/ FailsEarly(t) \/ HooksPass(t) \/ HookFails(t)
     \/ Panics(t) /\ UNCHANGED <<pods, ran>>
  /\ UNCHANGED <<stored, callVars, logs, rels, seen, refused, wrote>>

(* Wrong variant of FirstError: the latest failure is kept. *)
LatestError(first, next) == IF next # NoError THEN next ELSE first

FirstError(first, next) == IF first # NoError THEN first ELSE next

(* Step s of a test run fails, for that cause and as that error. *)
Continues(t, l, cause, e) ==
  /\ Fails(t, cause)
  /\ error' = [error EXCEPT ![t] = FirstError(@, e)]
  /\ Goes(t, l)
  /\ UNCHANGED panicked

Passes(t, l) == Goes(t, l) /\ UNCHANGED <<error, failed, panicked>>

(* collectTestLogs: asked for, and a release with test hooks. Reading them  *)
(* needs the pods.                                                          *)
CollectLogs(t, next) ==
  \/ /\ ~ (call[t].logs /\ ran[t].hooks)
     /\ Passes(t, next)
     /\ UNCHANGED logs
  \/ /\ call[t].logs /\ ran[t].hooks
     /\ \/ /\ ~ call[t].live
           /\ Continues(t, next, "other", Coded("Kube"))
           /\ UNCHANGED logs
        \/ /\ call[t].live
           /\ \/ /\ logs' = [logs EXCEPT ![t] = IF t \in pods THEN "whole" ELSE "empty"]
                 /\ Passes(t, next)
              \/ /\ \E cause \in Causes : Continues(t, next, cause, Plain(cause))
                 /\ UNCHANGED logs
              \/ Panics(t) /\ UNCHANGED logs

(* The shutdown function the run returned, if it did. It deletes the pods   *)
(* that no policy keeps. A pod it cannot delete it reports after a run that *)
(* passed; after one in which a hook failed it returns the error of that    *)
(* hook again, whatever it could delete.                                    *)
Shutdown(t, next) ==
  \/ /\ ran[t].shutdown \in {"none", "noop"} \/ ran[t].keeps
     /\ Passes(t, next)
     /\ UNCHANGED <<pods, refused>>
  \/ /\ ran[t].shutdown \in {"failed", "succeeded"}
     /\ \/ ~ ran[t].keeps /\ pods' = pods \ {t} /\ Passes(t, next) /\ UNCHANGED refused
        \/ /\ IF ran[t].shutdown = "succeeded"
              THEN \E cause \in Causes : Continues(t, next, cause, Plain(cause))
              ELSE Passes(t, next)
           /\ refused' = refused \cup {t}
           /\ UNCHANGED pods
        \/ Panics(t) /\ UNCHANGED <<pods, refused>>

(* Wrong variant of TestCollects: the pods are gone when the logs are read. *)
TestCollectsLast(t) ==
  /\ At(t, "collect")
  /\ Shutdown(t, "shutdown")
  /\ UNCHANGED <<stored, callVars, ran, logs, rels, seen, wrote>>

TestCollects(t) ==
  /\ At(t, "collect")
  /\ CollectLogs(t, "shutdown")
  /\ UNCHANGED <<clusterVars, callVars, ran, rels, seen, refused, wrote>>

(* Wrong variant of TestShutsDown: a run that failed returns at once. *)
TestShutsDownOnSuccess(t) ==
  /\ At(t, "shutdown")
  /\ IF error[t] = NoError
     THEN Shutdown(t, "finish")
     ELSE Passes(t, "finish") /\ UNCHANGED <<pods, refused>>
  /\ UNCHANGED <<stored, callVars, resultVars, wrote>>

(* Wrong variant of TestShutsDown: it calls what may be nil. *)
TestShutsDownBlindly(t) ==
  /\ At(t, "shutdown")
  /\ IF ran[t].shutdown # "none"
     THEN Shutdown(t, "finish")
     ELSE Crashes(t) /\ UNCHANGED <<pods, refused>>
  /\ UNCHANGED <<stored, callVars, resultVars, wrote>>

TestShutsDown(t) ==
  /\ At(t, "shutdown")
  /\ Shutdown(t, "finish")
  /\ UNCHANGED <<stored, callVars, resultVars, wrote>>

TestFinishes(t) ==
  /\ At(t, "finish")
  /\ IF error[t] # NoError
     THEN Return(t, WrapActionError(error[t], "Release")) /\ UNCHANGED <<failed, panicked>>
     ELSE Summarized(t)
  /\ UNCHANGED <<clusterVars, callVars, resultVars, refused, wrote>>

-----------------------------------------------------------------------------
(* UninstallRelease and RollbackRelease. *)

Dry(t) == given[t].dry = "client"

(* The SDK changes the records to what is left and then ends as it may. *)
Writes(t, left) ==
  /\ stored' = left
  /\ wrote' = wrote \cup {t}

(* Wrong variant of NothingToRemove: the response is not looked at. *)
NothingToRemoveBlindly(t) == Crashes(t)

(* With ignore_not_found the SDK returns neither response nor error. *)
NothingToRemove(t) == Succeeds(t)

Uninstalls(t) ==
  /\ At(t, "run") /\ Op(t, "uninstall")
  /\ \/ /\ \/ stored = {} /\ call[t].ignore /\ NothingToRemove(t)
           \/ stored = {} /\ ~ call[t].ignore /\ FailsWith(t, "not found")
           \/ stored # {} /\ Dry(t) /\ Summarized(t)
           \/ \E cause \in Causes : FailsWith(t, cause)
           \/ Panics(t)
        /\ UNCHANGED <<stored, wrote>>
     \/ /\ stored # {} /\ ~ Dry(t)
        /\ \E left \in SUBSET stored :
             /\ Writes(t, left)
             /\ \/ left \in {{}, stored} /\ Summarized(t)
                \/ \E cause \in Causes : FailsWith(t, cause)
                \/ Panics(t)
  /\ UNCHANGED <<pods, callVars, resultVars, refused>>

(* A rollback adds a revision, also one that failed, and may prune others. *)
AddsRevision(t) ==
  \E new \in Revisions, pruned \in SUBSET stored :
    /\ \A r \in stored : r < new
    /\ Writes(t, (stored \ pruned) \cup {new})

RollsBack(t) ==
  /\ At(t, "run") /\ Op(t, "rollback")
  /\ \/ /\ \/ stored # {} /\ Dry(t) /\ Succeeds(t)
           \/ \E cause \in Causes \cup {"not found"} : FailsWith(t, cause)
           \/ Panics(t)
        /\ UNCHANGED <<stored, wrote>>
     \/ /\ stored # {} /\ ~ Dry(t)
        /\ AddsRevision(t)
        /\ \/ Succeeds(t)
           \/ \E cause \in Causes : FailsWith(t, cause)
           \/ Panics(t)
  /\ UNCHANGED <<pods, callVars, resultVars, refused>>

-----------------------------------------------------------------------------
(* HistoryRelease, and the queries of one revision: StatusRelease,          *)
(* GetRelease, GetReleaseMetadata, GetReleaseValues.                        *)

ReadFails(t) ==
  /\ \/ \E cause \in Causes \cup {"not found"} : FailsWith(t, cause)
     \/ Fails(t, "other") /\ Return(t, Coded("Release")) /\ UNCHANGED panicked
     \/ Panics(t)
  /\ UNCHANGED <<rels, seen>>

Queries(t) ==
  /\ At(t, "run") /\ Op(t, "query")
  /\ \/ ReadFails(t)
     \/ \E r \in stored :
          /\ r = call[t].n \/ (call[t].n = 0 /\ \A other \in stored : other <= r)
          /\ rels' = [rels EXCEPT ![t] = << r >>]
          /\ seen' = [seen EXCEPT ![t] = stored]
          /\ Succeeds(t)
  /\ UNCHANGED <<clusterVars, callVars, ran, logs, refused, wrote>>

(* The storage driver lists the revisions in an order of its own. *)
HistoryReads(t) ==
  /\ At(t, "run") /\ Op(t, "history")
  /\ \/ ReadFails(t)
     \/ /\ stored # {}
        /\ \E s \in Lists : Elements(s) = stored /\ rels' = [rels EXCEPT ![t] = s]
        /\ seen' = [seen EXCEPT ![t] = stored]
        /\ Goes(t, "sort")
        /\ UNCHANGED <<error, failed, panicked>>
  /\ UNCHANGED <<clusterVars, callVars, ran, logs, refused, wrote>>

(* Wrong variant of HistorySorts: the order of the driver is trusted. *)
HistorySortsNothing(t) ==
  /\ At(t, "sort")
  /\ Goes(t, "cut")
  /\ UNCHANGED <<clusterVars, callVars, resultVars, error, failed, panicked, refused, wrote>>

(* sort.Slice on the revision. *)
HistorySorts(t) ==
  /\ At(t, "sort")
  /\ \E s \in Lists :
       /\ Elements(s) = Elements(rels[t]) /\ Ascending(s)
       /\ rels' = [rels EXCEPT ![t] = s]
  /\ Goes(t, "cut")
  /\ UNCHANGED <<clusterVars, callVars, ran, logs, seen, error, failed, panicked, refused, wrote>>

Newest(s, max) ==
  IF max > 0 /\ Len(s) > max THEN SubSeq(s, Len(s) - max + 1, Len(s)) ELSE s

HistoryCuts(t) ==
  /\ At(t, "cut")
  /\ rels' = [rels EXCEPT ![t] = Newest(@, call[t].n)]
  /\ Succeeds(t)
  /\ UNCHANGED <<clusterVars, callVars, ran, logs, seen, refused, wrote>>

-----------------------------------------------------------------------------
Init ==
  /\ stored \in SUBSET Revisions /\ pods = {}
  /\ pc = [t \in Callers |-> "idle"]
  /\ call = [t \in Callers |->
       [op |-> "query", n |-> 0, dry |-> "none", logs |-> FALSE, live |-> TRUE,
        ignore |-> FALSE, seconds |-> 0]]
  /\ given = [t \in Callers |-> [timeout |-> 0, dry |-> "unset"]]
  /\ ran = [t \in Callers |-> NothingRan]
  /\ logs = [t \in Callers |-> "none"]
  /\ rels = [t \in Callers |-> << >>]
  /\ seen = [t \in Callers |-> {}]
  /\ error = [t \in Callers |-> NoError]
  /\ code = [t \in Callers |-> "OK"]
  /\ failed = [t \in Callers |-> "none"]
  /\ panicked = {} /\ refused = {} /\ wrote = {}

Next ==
  \E t \in Callers :
    \/ \E a \in Args : Start(t, a)
    \/ Prepare(t)
    \/ TestRuns(t) \/ TestCollects(t) \/ TestShutsDown(t) \/ TestFinishes(t)
    \/ Uninstalls(t) \/ RollsBack(t)
    \/ Queries(t) \/ HistoryReads(t) \/ HistorySorts(t) \/ HistoryCuts(t)

Spec == Init /\ [][Next]_vars

-----------------------------------------------------------------------------
(* Every variable keeps its type. *)
TypeOK ==
  /\ stored \subseteq Revisions /\ pods \subseteq Callers
  /\ pc \in [Callers -> PC]
  /\ call \in [Callers -> Call]
  /\ given \in [Callers ->
       [timeout : -Limit .. Limit - 1, dry : {"unset", "none", "client"}]]
  /\ ran \in [Callers -> TestRun]
  /\ logs \in [Callers -> {"none", "empty", "whole"}]
  /\ rels \in [Callers -> Lists]
  /\ error \in [Callers -> Error]
  /\ code \in [Callers -> Code]
  /\ seen \in [Callers -> SUBSET Revisions]
  /\ failed \in [Callers -> Cause]
  /\ panicked \subseteq Callers /\ refused \subseteq Callers /\ wrote \subseteq Callers

(* The host is told of the first thing that went wrong, of no other and of  *)
(* none that did not: a test that failed is not hidden by its logs or by    *)
(* the deletion of its pods (firstError), and helm-c dereferences nothing   *)
(* the SDK did not return, be it a shutdown function, the response of an    *)
(* uninstall (release_actions.go:59-62) or a release.                       *)
CodeTellsFirstFailure ==
  \A t \in Callers :
    At(t, "idle") =>
      /\ code[t] = "Panic" <=> t \in panicked
      /\ t \notin panicked =>
           IF failed[t] = "none"
           THEN code[t] = "OK"
           ELSE code[t] # "OK" /\ error[t].cause = failed[t]

(* Test pods that no delete policy keeps are gone when the call returns,    *)
(* whatever failed before (API.md:997-998, testing_action.go:37-43). They   *)
(* are left, and the host is told of a failure, by a panic of the SDK only, *)
(* which skips the shutdown since nothing defers it, by a cluster that does *)
(* not delete them, and by a run in which a later hook was never created.   *)
PodsCleanedUp ==
  \A t \in Callers :
    At(t, "idle") /\ t \in pods =>
      \/ ran[t].keeps
      \/ code[t] # "OK" /\ (t \in panicked \cup refused \/ ran[t].shutdown = "noop")

(* A test run that succeeds has read the logs asked for while the pods were *)
(* there (testing_action.go:43-44).                                         *)
LogsAreWhole ==
  \A t \in Callers :
    At(t, "idle") /\ Op(t, "test") /\ code[t] = "OK"
      => logs[t] = (IF call[t].logs /\ ran[t].hooks THEN "whole" ELSE "none")

(* helm_history tells the newest max revisions there were when it read      *)
(* them, in ascending order, in whatever order the driver listed them and   *)
(* whatever is written meanwhile (API.md:622-623).                          *)
NewestKept ==
  \A t \in Callers :
    At(t, "idle") /\ Op(t, "history") /\ code[t] = "OK" /\ rels[t] # << >> =>
      LET told == Elements(rels[t])
          max == call[t].n
      IN  /\ Ascending(rels[t])
          /\ told \subseteq seen[t]
          /\ \A r \in seen[t] \ told : \A q \in told : r < q
          /\ max > 0 => Len(rels[t]) <= max
          /\ max = 0 \/ Len(rels[t]) < max => told = seen[t]

(* What the SDK does is what the host asked for: records change only if no  *)
(* dry run was asked for and dry_run was spelled right (actions.go:93-97),  *)
(* and the timeout is the one asked for, the default for none, as long as   *)
(* it can be expressed in nanoseconds at all.                               *)
RunsAsAsked ==
  \A t \in Callers :
    /\ t \in wrote => call[t].dry = "none"
    /\ given[t].dry # "unset" =>
         LET s == call[t].seconds
         IN  /\ s <= 0 => given[t].timeout = Default
             /\ s > 0 /\ s * Second < Limit => given[t].timeout = s * Second
=============================================================================
