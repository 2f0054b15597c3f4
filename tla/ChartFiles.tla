----------------------------- MODULE ChartFiles -----------------------------
(***************************************************************************)
(* The calls that write files for the host: helm_package_run,              *)
(* helm_chart_sign, helm_repo_index_generate, helm_pull, and the update or *)
(* build of a chart's dependencies; with them helm_show and                *)
(* helm_repo_index_download, which write scratch files only                *)
(* (pkg/wrapper/package.go, repo.go, distribution.go, dependency.go,       *)
(* chart.go). Host threads call them on directories they may share.        *)
(*                                                                         *)
(* An archive is written in place, its signature and the two index files   *)
(* in steps after what they are about was read. Nothing locks a directory, *)
(* so what a call promises of its files it promises to a call that was     *)
(* alone in the directory.                                                 *)
(***************************************************************************)
EXTENDS ActionErrors

CONSTANTS
  Callers,   \* host threads
  Asks,      \* what each of them calls
  Charts,    \* chart directories; each packages into a file of its own name
  Dests,     \* directories of archives
  Contents,  \* what a chart, and so its archive, may be
  None,      \* no file, or no entry
  Partial    \* a file cut short, or one that two calls wrote at once

Filing == {"package", "sign", "index", "pull"}

Ops == Filing \cup {"update", "show", "download"}

ASSUME FilesAssumption ==
  /\ Asks \in [Callers -> SUBSET Ops]
  /\ None \notin Contents /\ Partial \notin Contents /\ None # Partial

VARIABLES
  source,    \* the content of each chart directory, with charts/ and Chart.lock
  archive,   \* the archives of each directory,
  prov,      \* and the contents their .prov files sign
  yaml,      \* what index.yaml lists of each directory,
  json,      \* and what index.json lists
  pc,        \* where in its call each caller is
  call,      \* the arguments of its call
  scratch,   \* its scratch files
  held,      \* the content it has read to package or to sign
  list,      \* the index it has built
  code,      \* the C code of its last call
  former,    \* history: the entries of the index that was merged
  alone      \* history: callers with their directory to themselves

destVars  == <<archive, prov, yaml, json>>
localVars == <<held, list, former>>
vars      == <<source, destVars, localVars, pc, call, scratch, code, alone>>

File == Contents \cup {None, Partial}

Entries == [Charts -> Contents \cup {None}]

(* Whether a package is to update dependencies, and an index to merge       *)
(* another, is looked at once and chosen there.                             *)
Call == [op : Ops, chart : Charts, dest : Dests, sign : BOOLEAN, json : BOOLEAN]

Args == {a \in Call : (a.sign => a.op = "package") /\ (a.json => a.op = "index")}

Scratch == {"deps", "passphrase", "pull", "show", "chart", "repo"}

ByHand == {"deps", "show"}

PC == {"idle", "manage", "manager", "update", "save", "write", "check", "clearsign", "prov",
       "index", "merge", "yaml", "json", "pull", "download", "find", "refer",
       "fetch", "remote", "load", "resave", "show", "repo", "get"}

-----------------------------------------------------------------------------
At(t, l) == pc[t] = l

Moves(t, l, files) ==
  /\ pc' = [pc EXCEPT ![t] = l]
  /\ scratch' = [scratch EXCEPT ![t] = files]
  /\ UNCHANGED code

Go(t, l, files) == Moves(t, l, files) /\ UNCHANGED localVars

Leave(t, c, files) ==
  /\ pc' = [pc EXCEPT ![t] = "idle"]
  /\ scratch' = [scratch EXCEPT ![t] = files]
  /\ code' = [code EXCEPT ![t] = c]

Gets(t, x) == held' = [held EXCEPT ![t] = x]

Builds(t, l) == list' = [list EXCEPT ![t] = l]

Mixes(t, l) == former' = [former EXCEPT ![t] = l]

NoEntries == [c \in Charts |-> None]

Forgets(t) == Gets(t, None) /\ Builds(t, NoEntries) /\ Mixes(t, NoEntries)

(* Every function on the stack has removed what it made. *)
Succeeds(t) == Leave(t, "OK", {}) /\ UNCHANGED localVars

Fails(t, codes) == \E c \in codes : Leave(t, c, {}) /\ Forgets(t)

(* The archive of the call, and the file that signs it. *)
Archive(t) == archive[call[t].dest][call[t].chart]

Prov(t) == prov[call[t].dest][call[t].chart]

Archives(t, x) == archive' = [archive EXCEPT ![call[t].dest][call[t].chart] = x]

Signs(t, x) == prov' = [prov EXCEPT ![call[t].dest][call[t].chart] = x]

Together(t, a) ==
  ~ At(t, "idle") /\ call[t].op \in Filing /\ a.op \in Filing /\ call[t].dest = a.dest

FirstSteps(op) ==
  CASE op = "package" -> {"manage", "save"}
    [] op = "sign" -> {"check"}
    [] op = "index" -> {"index"}
    [] op = "pull" -> {"pull"}
    [] op = "update" -> {"manage"}
    [] op = "show" -> {"find"}
    [] op = "download" -> {"repo"}

Start(t, a) ==
  /\ At(t, "idle") /\ a.op \in Asks[t]
  /\ call' = [call EXCEPT ![t] = a]
  /\ \E l \in FirstSteps(a.op) : pc' = [pc EXCEPT ![t] = l]
  /\ scratch' = [scratch EXCEPT ![t] = {}]
  /\ Forgets(t)
  /\ alone' =
       {u \in alone \ {t} : a.op \in Filing => call[u].dest # a.dest}
         \cup {u \in {t} : \A other \in Callers \ {t} : ~ Together(other, a)}
  /\ code' = [code EXCEPT ![t] = "OK"]
  /\ UNCHANGED <<source, destVars>>

(* The host edits a chart. *)
Edits(c, x) ==
  /\ source' = [source EXCEPT ![c] = x]
  /\ UNCHANGED <<destVars, localVars, pc, call, scratch, code, alone>>

(* The host withdraws an archive. *)
Withdraws(d, c) ==
  /\ archive' = [archive EXCEPT ![d][c] = None]
  /\ alone' = {t \in alone : call[t].dest # d}
  /\ UNCHANGED <<source, prov, yaml, json, localVars, pc, call, scratch, code>>

-----------------------------------------------------------------------------
(* DependencyUpdate and DependencyBuild, for themselves or for a package.   *)

DependencyDir(t) ==
  /\ At(t, "manage")
  /\ \/ Go(t, "manager", {"deps"})
     \/ Fails(t, {"IO"} \cup (IF call[t].op = "update" THEN {"InvalidArg"} ELSE {}))
  /\ UNCHANGED <<source, destVars, call, alone>>

(* The rest of dependencyManager. Nothing is deferred yet: where it fails   *)
(* it removes the directory itself.                                         *)
DependencyManager(t) ==
  /\ At(t, "manager")
  /\ Go(t, "update", {"deps"}) \/ Fails(t, {"IO", "ChartLoad", "Registry"})
  /\ UNCHANGED <<source, destVars, call, alone>>

(* The SDK's Update and Build fill charts/, and may fail before or after.   *)
DependencyUpdate(t) ==
  /\ At(t, "update")
  /\ \E x \in Contents : source' = [source EXCEPT ![call[t].chart] = x]
  /\ \/ IF call[t].op = "package" THEN Go(t, "save", {}) ELSE Succeeds(t)
     \/ Fails(t, {"Repo"})
  /\ UNCHANGED <<destVars, call, alone>>

-----------------------------------------------------------------------------
(* PackageChart and SignChart. *)

(* The SDK's Package.Run loads the chart, refuses it if it is invalid or    *)
(* lacks a dependency, and creates the archive in place.                    *)
PackageSaves(t) ==
  /\ At(t, "save")
  /\ \/ Fails(t, {"ChartInvalid"}) /\ UNCHANGED archive
     \/ /\ Gets(t, source[call[t].chart])
        /\ Archives(t, Partial)
        /\ Moves(t, "write", {})
        /\ UNCHANGED <<list, former>>
  /\ UNCHANGED <<source, prov, yaml, json, call, alone>>

Crossed(t) ==
  \E u \in Callers \ {t} :
    At(u, "write") /\ call[u].dest = call[t].dest /\ call[u].chart = call[t].chart

(* Wrong variant of PackageWrites: the archive is signed by the next call. *)
PackageWritesUnsigned(t) ==
  /\ At(t, "write")
  /\ Archives(t, held[t])
  /\ Succeeds(t)
  /\ UNCHANGED <<source, prov, yaml, json, call, alone>>

(* It writes it, or fails and removes it. Of two that write one file        *)
(* neither sees the other.                                                  *)
PackageWrites(t) ==
  /\ At(t, "write")
  /\ \/ /\ \E x \in {held[t]} \cup (IF Crossed(t) THEN {Partial} ELSE {}) : Archives(t, x)
        /\ IF call[t].sign THEN Go(t, "check", {}) ELSE Succeeds(t)
     \/ /\ Archives(t, None)
        /\ Fails(t, {"ChartInvalid"})
  /\ UNCHANGED <<source, prov, yaml, json, call, alone>>

(* The key ring and the key have to be named, the archive has to be there,  *)
(* and with no passphrase file an empty one is made.                        *)
SignChecks(t) ==
  /\ At(t, "check")
  /\ \/ Fails(t, {"InvalidArg", "IO"})
     \/ /\ Archive(t) # None
        /\ \E files \in {{}, {"passphrase"}} : Go(t, "clearsign", files)
  /\ UNCHANGED <<source, destVars, call, alone>>

(* Clearsign reads what it signs, *)
SignReads(t) ==
  /\ At(t, "clearsign")
  /\ \/ Fails(t, {"ChartInvalid"})
     \/ /\ Archive(t) \in Contents
        /\ Gets(t, Archive(t))
        /\ Moves(t, "prov", scratch[t])
        /\ UNCHANGED <<list, former>>
  /\ UNCHANGED <<source, destVars, call, alone>>

(* and writes the .prov file, in place too. *)
SignWrites(t) ==
  /\ At(t, "prov")
  /\ \/ Signs(t, held[t]) /\ Succeeds(t)
     \/ \E x \in {Prov(t), Partial} : Signs(t, x) /\ Fails(t, {"ChartInvalid"})
  /\ UNCHANGED <<source, archive, yaml, json, call, alone>>

-----------------------------------------------------------------------------
(* GenerateRepoIndex. *)

(* IndexDirectory skips a file it cannot load. *)
IndexReads(t) ==
  /\ At(t, "index")
  /\ \/ Fails(t, {"Repo"})
     \/ /\ Builds(t, [c \in Charts |->
             LET x == archive[call[t].dest][c] IN IF x \in Contents THEN x ELSE None])
        /\ Moves(t, "merge", {}) \/ Moves(t, "yaml", {})
        /\ UNCHANGED <<held, former>>
  /\ UNCHANGED <<source, destVars, call, alone>>

(* Wrong variant of Merged: the older entry wins. *)
MergedOverriding(l, older) == [c \in Charts |-> IF older[c] = None THEN l[c] ELSE older[c]]

Merged(l, older) == [c \in Charts |-> IF l[c] = None THEN older[c] ELSE l[c]]

(* Any index may be named; IndexFile.Merge adds the versions l has not. *)
IndexMerges(t) ==
  /\ At(t, "merge")
  /\ \/ Fails(t, {"Repo"})
     \/ \E d \in Dests :
          /\ Builds(t, Merged(list[t], yaml[d]))
          /\ Mixes(t, yaml[d])
          /\ Moves(t, "yaml", {})
          /\ UNCHANGED held
  /\ UNCHANGED <<source, destVars, call, alone>>

(* The SDK replaces an index file atomically. *)
IndexWritesYAML(t) ==
  /\ At(t, "yaml")
  /\ \/ /\ yaml' = [yaml EXCEPT ![call[t].dest] = list[t]]
        /\ IF call[t].json THEN Go(t, "json", {}) ELSE Succeeds(t)
     \/ Fails(t, {"IO"}) /\ UNCHANGED yaml
  /\ UNCHANGED <<source, archive, prov, json, call, alone>>

IndexWritesJSON(t) ==
  /\ At(t, "json")
  /\ \/ json' = [json EXCEPT ![call[t].dest] = list[t]] /\ Succeeds(t)
     \/ Fails(t, {"IO"}) /\ UNCHANGED json
  /\ UNCHANGED <<source, archive, prov, yaml, call, alone>>

-----------------------------------------------------------------------------
(* PullChart, DownloadRepoIndex and ShowChart. *)

PullDir(t) ==
  /\ At(t, "pull")
  /\ Go(t, "download", {"pull"}) \/ Fails(t, {"Registry", "IO"})
  /\ UNCHANGED <<source, destVars, call, alone>>

(* The SDK's Pull saves the archive before it verifies it, and a .prov      *)
(* file only where it was to verify now or later.                           *)
PullSaves(t) ==
  /\ At(t, "download")
  /\ \/ /\ \E x \in Contents : Archives(t, x)
        /\ \E x \in Contents \cup {Prov(t)} : Signs(t, x)
        /\ Succeeds(t) \/ Fails(t, {"Repo"})
     \/ Fails(t, {"Repo"}) /\ UNCHANGED <<archive, prov>>
  /\ UNCHANGED <<source, yaml, json, call, alone>>

RepoDir(t) ==
  /\ At(t, "repo")
  /\ Go(t, "get", {"repo"}) \/ Fails(t, {"Repo", "IO"})
  /\ UNCHANGED <<source, destVars, call, alone>>

RepoGets(t) ==
  /\ At(t, "get")
  /\ Succeeds(t) \/ Fails(t, {"Repo"})
  /\ UNCHANGED <<source, destVars, call, alone>>

(* A local path is shown as it is. *)
ShowFinds(t) ==
  /\ At(t, "find")
  /\ Go(t, "show", {}) \/ Go(t, "refer", {"show"}) \/ Fails(t, {"InvalidArg", "Registry", "IO"})
  /\ UNCHANGED <<source, destVars, call, alone>>

(* Another one is pulled into a directory of pullChartRef by PullChart,     *)
(* which has its own, loaded from there,                                    *)
ShowPulls(t) ==
  /\ \/ At(t, "refer") /\ (Go(t, "fetch", {"show", "chart"}) \/ Fails(t, {"ChartLoad", "IO"}))
     \/ At(t, "fetch") /\ (Go(t, "remote", {"show", "chart", "pull"}) \/ Fails(t, {"ChartLoad"}))
     \/ At(t, "remote") /\ (Go(t, "load", {"show", "chart"}) \/ Fails(t, {"ChartLoad"}))
     \/ At(t, "load") /\ (Go(t, "resave", {"show"}) \/ Fails(t, {"ChartLoad"}))
  /\ UNCHANGED <<source, destVars, call, alone>>

(* Wrong variant of ShowSaves: where it fails the directory stays. *)
ShowSavesKeeping(t) ==
  /\ At(t, "resave")
  /\ Go(t, "show", {"show"}) \/ (Leave(t, "IO", scratch[t]) /\ Forgets(t))
  /\ UNCHANGED <<source, destVars, call, alone>>

(* and saved again for the SDK. *)
ShowSaves(t) ==
  /\ At(t, "resave")
  /\ Go(t, "show", {"show"}) \/ Fails(t, {"IO"})
  /\ UNCHANGED <<source, destVars, call, alone>>

ShowRuns(t) ==
  /\ At(t, "show")
  /\ Succeeds(t) \/ Fails(t, {"ChartLoad"})
  /\ UNCHANGED <<source, destVars, call, alone>>

(* The SDK panics. The directories that are not yet removed by a deferred   *)
(* function stay: that of dependencyManager, and that of localChartPath.    *)
Panics(t) ==
  /\ ~ At(t, "idle")
  /\ Leave(t, "Panic",
       IF pc[t] \in {"manager", "refer", "fetch", "remote", "load", "resave"}
       THEN scratch[t] \cap ByHand ELSE {})
  /\ Forgets(t)
  /\ UNCHANGED <<source, destVars, call, alone>>

-----------------------------------------------------------------------------
Init ==
  /\ source \in [Charts -> Contents]
  /\ archive = [d \in Dests |-> NoEntries]
  /\ prov = archive /\ yaml = archive /\ json = archive
  /\ pc = [t \in Callers |-> "idle"]
  /\ call \in [Callers -> {a \in Args : a.op = "show"}]
  /\ scratch = [t \in Callers |-> {}]
  /\ held = [t \in Callers |-> None]
  /\ list = [t \in Callers |-> NoEntries]
  /\ former = list
  /\ code = [t \in Callers |-> "OK"]
  /\ alone = {}

Works(t) ==
  \/ DependencyDir(t) \/ DependencyManager(t) \/ DependencyUpdate(t)
  \/ PackageSaves(t) \/ PackageWrites(t)
  \/ SignChecks(t) \/ SignReads(t) \/ SignWrites(t)
  \/ IndexReads(t) \/ IndexMerges(t) \/ IndexWritesYAML(t) \/ IndexWritesJSON(t)
  \/ PullDir(t) \/ PullSaves(t) \/ RepoDir(t) \/ RepoGets(t)
  \/ ShowFinds(t) \/ ShowPulls(t) \/ ShowSaves(t) \/ ShowRuns(t)
  \/ Panics(t)

Next ==
  \/ \E t \in Callers : (\E a \in Args : Start(t, a)) \/ Works(t)
  \/ \E c \in Charts, x \in Contents : Edits(c, x)
  \/ \E d \in Dests, c \in Charts : Withdraws(d, c)

Spec == Init /\ [][Next]_vars

-----------------------------------------------------------------------------
(* Every variable keeps its type. *)
TypeOK ==
  /\ source \in [Charts -> Contents]
  /\ archive \in [Dests -> [Charts -> File]] /\ prov \in [Dests -> [Charts -> File]]
  /\ yaml \in [Dests -> Entries] /\ json \in [Dests -> Entries]
  /\ pc \in [Callers -> PC]
  /\ call \in [Callers -> Args]
  /\ scratch \in [Callers -> SUBSET Scratch]
  /\ held \in [Callers -> Contents \cup {None}]
  /\ list \in [Callers -> Entries] /\ former \in [Callers -> Entries]
  /\ code \in [Callers -> Code]
  /\ alone \subseteq Callers

Done(t, op) == At(t, "idle") /\ call[t].op = op /\ code[t] = "OK" /\ t \in alone

(* What VerifyChart looks for: a signature over the bytes that are there. *)
Verifies(t) == Archive(t) \in Contents /\ Prov(t) = Archive(t)

(* The archive that helm_package_run and helm_chart_sign say they signed    *)
(* verifies, and it is of the chart as it was when it was packaged, as long *)
(* as no other call was at work in the directory; edits of the chart in     *)
(* between do not matter, nor do failures of signing, which are told.       *)
SignedVerifies ==
  \A t \in Callers :
    /\ Done(t, "sign") => Verifies(t)
    /\ Done(t, "package") =>
         /\ Archive(t) = held[t] /\ held[t] \in Contents
         /\ call[t].sign => Verifies(t)

(* helm_repo_index_generate: the index lists every archive there is with    *)
(* its present digest, and of the index merged what the directory no longer *)
(* holds (repo.go:80-81); index.json says the same. Again of a call that    *)
(* was alone in the directory, however many steps apart it read and wrote.  *)
IndexIsTrue ==
  \A t \in Callers :
    Done(t, "index") =>
      LET d == call[t].dest
      IN  /\ \A c \in Charts :
               yaml[d][c] = (IF archive[d][c] \in Contents THEN archive[d][c] ELSE former[t][c])
          /\ call[t].json => json[d] = yaml[d]

Scratches ==
  INSTANCE ScratchContract WITH
    Calls <- Callers, Kinds <- Scratch, ByHand <- ByHand,
    active <- {t \in Callers : ~ At(t, "idle")}, dirs <- scratch,
    handed <- {}, panicked <- {t \in Callers : code[t] = "Panic"}

(* No scratch file outlives its call, but for the two directories that are  *)
(* removed by hand, after a panic.                                          *)
ImplementsScratch == Scratches!Spec
=============================================================================
