-------------------------- MODULE ChartFilesProofs --------------------------
(***************************************************************************)
(* Theorems about the calls that write files, for any number of callers,   *)
(* charts and directories. The invariant says of a caller that has its     *)
(* directory to itself how far the files are along, step by step; that a   *)
(* step of another changes nothing there is Apart.                         *)
(***************************************************************************)
EXTENDS ChartFiles, TLAPS

-----------------------------------------------------------------------------
(* The invariant. *)

(* The steps of each operation. *)
Belongs(t) ==
  /\ pc[t] \in {"save", "write"} => call[t].op = "package"
  /\ pc[t] \in {"check", "clearsign", "prov"} => call[t].op \in {"package", "sign"}
  /\ pc[t] \in {"index", "merge", "yaml", "json"} => call[t].op = "index"
  /\ pc[t] \in {"pull", "download"} => call[t].op = "pull"
  /\ pc[t] \in {"manage", "manager", "update"} => call[t].op \in {"package", "update"}
  /\ pc[t] \in {"find", "refer", "fetch", "remote", "load", "resave", "show"}
       => call[t].op = "show"
  /\ pc[t] \in {"repo", "get"} => call[t].op = "download"

(* The archive is what the call read. *)
Kept(t) == Archive(t) = held[t] /\ held[t] \in Contents

(* The index the call has built is that of its directory. *)
Listed(t) ==
  \A c \in Charts :
    list[t][c] =
      (IF archive[call[t].dest][c] \in Contents THEN archive[call[t].dest][c] ELSE former[t][c])

(* How far the files of a call are along. *)
Intact(t) ==
  /\ At(t, "write") => held[t] \in Contents
  /\ pc[t] \in {"check", "clearsign"} /\ call[t].op = "package" => Kept(t)
  /\ At(t, "prov") => Kept(t)
  /\ pc[t] \in {"index", "merge"} => former[t] = NoEntries
  /\ pc[t] \in {"merge", "yaml", "json"} => Listed(t)
  /\ At(t, "json") => yaml[call[t].dest] = list[t]
  /\ At(t, "idle") /\ code[t] = "OK" =>
       /\ call[t].op = "sign" => Verifies(t)
       /\ call[t].op = "package" => Kept(t) /\ (call[t].sign => Verifies(t))
       /\ call[t].op = "index" =>
            /\ Listed(t) /\ yaml[call[t].dest] = list[t]
            /\ call[t].json => json[call[t].dest] = list[t]

(* No other call is at work where a call is alone. *)
Apart(t) ==
  \A u \in Callers \ {t} :
    call[t].op \in Filing /\ call[u].op \in Filing /\ ~ At(u, "idle")
      => call[u].dest # call[t].dest

Path(t) == Belongs(t) /\ (t \in alone => Apart(t) /\ (call[t].op \in Filing => Intact(t)))

Inv == \A t \in Callers : Path(t)

-----------------------------------------------------------------------------
(* What a step of caller t changes. *)

LocalTypes ==
  /\ pc \in [Callers -> PC]
  /\ scratch \in [Callers -> SUBSET Scratch]
  /\ held \in [Callers -> Contents \cup {None}]
  /\ list \in [Callers -> Entries] /\ former \in [Callers -> Entries]
  /\ code \in [Callers -> Code]

FileTypes ==
  /\ archive \in [Dests -> [Charts -> File]] /\ prov \in [Dests -> [Charts -> File]]
  /\ yaml \in [Dests -> Entries] /\ json \in [Dests -> Entries]

OthersKeep(t) ==
  \A u \in Callers \ {t} :
    /\ pc'[u] = pc[u] /\ scratch'[u] = scratch[u] /\ code'[u] = code[u]
    /\ held'[u] = held[u] /\ list'[u] = list[u] /\ former'[u] = former[u]

Same(d) ==
  archive'[d] = archive[d] /\ prov'[d] = prov[d] /\ yaml'[d] = yaml[d] /\ json'[d] = json[d]

OnlyThere(t) == \A d \in Dests : Same(d) \/ (call[t].op \in Filing /\ d = call[t].dest)

(* How a step moves a call that runs, with its scratch files. *)
Way(t) ==
  \/ pc'[t] # "idle" /\ code'[t] = code[t]
  \/ pc'[t] = "idle" /\ code'[t] # "Panic" /\ scratch'[t] = {}
  \/ pc'[t] = "idle" /\ code'[t] = "Panic" /\ scratch'[t] \in SUBSET (ByHand \cap scratch[t])

Good(t) ==
  /\ ~ At(t, "idle")
  /\ TypeOK' /\ UNCHANGED <<call, alone>>
  /\ OthersKeep(t) /\ OnlyThere(t) /\ Way(t)
  /\ Belongs(t)' /\ (t \in alone /\ call[t].op \in Filing => Intact(t)')

LEMMA NoEntriesIs == NoEntries \in Entries
BY DEF NoEntries, Entries

LEMMA MovesIs ==
  ASSUME TypeOK, NEW t \in Callers, NEW l \in PC \ {"idle"}, NEW fs \in SUBSET Scratch,
         Moves(t, l, fs)
  PROVE  /\ pc' \in [Callers -> PC] /\ pc'[t] = l
         /\ scratch' \in [Callers -> SUBSET Scratch] /\ scratch'[t] = fs
         /\ code' = code /\ code' \in [Callers -> Code]
         /\ \A u \in Callers \ {t} : pc'[u] = pc[u] /\ scratch'[u] = scratch[u]
BY DEF Moves, TypeOK

LEMMA GoIs ==
  ASSUME TypeOK, NEW t \in Callers, NEW l \in PC \ {"idle"}, NEW fs \in SUBSET Scratch,
         Go(t, l, fs)
  PROVE  /\ LocalTypes' /\ OthersKeep(t) /\ Way(t) /\ UNCHANGED localVars
         /\ pc'[t] = l /\ code'[t] = code[t]
<1>1. Moves(t, l, fs) /\ UNCHANGED <<held, list, former>>
  BY DEF Go, localVars
<1> QED
  BY <1>1, MovesIs DEF LocalTypes, OthersKeep, Way, TypeOK, localVars

LEMMA LeaveIs ==
  ASSUME TypeOK, NEW t \in Callers, NEW c \in Code, NEW fs \in SUBSET Scratch,
         Leave(t, c, fs)
  PROVE  /\ pc' \in [Callers -> PC] /\ pc'[t] = "idle"
         /\ scratch' \in [Callers -> SUBSET Scratch] /\ scratch'[t] = fs
         /\ code' \in [Callers -> Code] /\ code'[t] = c
         /\ \A u \in Callers \ {t} :
              pc'[u] = pc[u] /\ scratch'[u] = scratch[u] /\ code'[u] = code[u]
BY DEF Leave, TypeOK, PC

LEMMA SucceedsIs ==
  ASSUME TypeOK, NEW t \in Callers, Succeeds(t)
  PROVE  /\ LocalTypes' /\ OthersKeep(t) /\ Way(t) /\ UNCHANGED localVars
         /\ pc'[t] = "idle" /\ code'[t] = "OK"
<1>1. Leave(t, "OK", {}) /\ UNCHANGED <<held, list, former>> /\ "OK" \in Code
  BY DEF Succeeds, localVars, Code
<1>2. {} \in SUBSET Scratch
  OBVIOUS
<1> QED
  BY <1>1, <1>2, LeaveIs DEF LocalTypes, OthersKeep, Way, TypeOK, localVars

LEMMA ForgetsIs ==
  ASSUME TypeOK, NEW t \in Callers, Forgets(t)
  PROVE  /\ held' \in [Callers -> Contents \cup {None}]
         /\ list' \in [Callers -> Entries] /\ former' \in [Callers -> Entries]
         /\ former'[t] = NoEntries
         /\ \A u \in Callers \ {t} :
              held'[u] = held[u] /\ list'[u] = list[u] /\ former'[u] = former[u]
BY NoEntriesIs DEF Forgets, Gets, Builds, Mixes, TypeOK

LEMMA FailsIs ==
  ASSUME TypeOK, NEW t \in Callers, NEW cs \in SUBSET (Code \ {"OK", "Panic"}), Fails(t, cs)
  PROVE  /\ LocalTypes' /\ OthersKeep(t) /\ Way(t)
         /\ pc'[t] = "idle" /\ code'[t] # "OK"
<1>1. PICK c \in cs : Leave(t, c, {}) /\ Forgets(t)
  BY DEF Fails
<1>2. c \in Code \ {"OK", "Panic"} /\ {} \in SUBSET Scratch
  OBVIOUS
<1> QED
  BY <1>1, <1>2, LeaveIs, ForgetsIs DEF LocalTypes, OthersKeep, Way

LEMMA ArchivesIs ==
  ASSUME TypeOK, NEW t \in Callers, NEW x \in File, Archives(t, x)
  PROVE  /\ archive' \in [Dests -> [Charts -> File]]
         /\ archive'[call[t].dest][call[t].chart] = x
         /\ \A d \in Dests \ {call[t].dest} : archive'[d] = archive[d]
<1>1. call[t].dest \in Dests /\ call[t].chart \in Charts
  BY DEF TypeOK, Args, Call
<1> QED
  BY <1>1 DEF Archives, TypeOK

LEMMA SignsIs ==
  ASSUME TypeOK, NEW t \in Callers, NEW x \in File, Signs(t, x)
  PROVE  /\ prov' \in [Dests -> [Charts -> File]]
         /\ prov'[call[t].dest][call[t].chart] = x
         /\ \A d \in Dests \ {call[t].dest} : prov'[d] = prov[d]
<1>1. call[t].dest \in Dests /\ call[t].chart \in Charts
  BY DEF TypeOK, Args, Call
<1> QED
  BY <1>1 DEF Signs, TypeOK

LEMMA FileIs ==
  ASSUME TypeOK, NEW t \in Callers
  PROVE  /\ Archive(t) \in File /\ Prov(t) \in File /\ held[t] \in File
         /\ Partial \in File /\ None \in File /\ Contents \subseteq File
BY DEF TypeOK, Args, Call, Archive, Prov, File

(* A step that fails. *)
LEMMA FailureGood ==
  ASSUME TypeOK, NEW t \in Callers, ~ At(t, "idle"),
         NEW cs \in SUBSET (Code \ {"OK", "Panic"}), Fails(t, cs),
         source' \in [Charts -> Contents], FileTypes', OnlyThere(t), UNCHANGED <<call, alone>>
  PROVE  Good(t)
<1>1. /\ LocalTypes' /\ OthersKeep(t) /\ Way(t)
      /\ pc'[t] = "idle" /\ code'[t] # "OK"
  BY FailsIs
<1>2. TypeOK'
  BY <1>1 DEF TypeOK, LocalTypes, FileTypes
<1>3. Belongs(t)' /\ Intact(t)'
  BY <1>1 DEF Belongs, Intact, At
<1> QED
  BY <1>1, <1>2, <1>3 DEF Good

(* A step that changes no file and goes on. *)
LEMMA Unchanged ==
  ASSUME TypeOK, NEW t \in Callers, UNCHANGED <<source, destVars>>
  PROVE  /\ source' \in [Charts -> Contents] /\ FileTypes' /\ OnlyThere(t)
         /\ UNCHANGED <<source, archive, prov, yaml, json>>
BY DEF TypeOK, FileTypes, OnlyThere, Same, destVars

-----------------------------------------------------------------------------
(* The steps that touch no file of the host. *)

(* A call elsewhere than at the steps of Intact, that goes on or ends. *)
LEMMA QuietGood ==
  ASSUME TypeOK, NEW t \in Callers, ~ At(t, "idle"), LocalTypes', OthersKeep(t), Way(t),
         source' \in [Charts -> Contents], FileTypes', OnlyThere(t), UNCHANGED <<call, alone>>,
         Belongs(t)',
         \/ call[t].op \notin Filing
         \/ pc'[t] \in {"manage", "manager", "update", "save", "pull", "download"}
         \/ pc'[t] = "idle" /\ (code'[t] # "OK" \/ call[t].op = "pull")
  PROVE  Good(t)
<1>1. TypeOK'
  BY DEF TypeOK, LocalTypes, FileTypes
<1>2. call[t].op \in Filing => Intact(t)'
  BY DEF Intact, At
<1> QED
  BY <1>1, <1>2 DEF Good

LEMMA DependencySteps ==
  ASSUME TypeOK, NEW t \in Callers, Path(t),
         DependencyDir(t) \/ DependencyManager(t) \/ DependencyUpdate(t)
  PROVE  Good(t)
<1>1. call[t].op \in {"package", "update"} /\ ~ At(t, "idle") /\ "update" \notin Filing
  BY DEF Path, Belongs, DependencyDir, DependencyManager, DependencyUpdate, At, Filing
<1>2. {"manager", "update", "save"} \subseteq PC \ {"idle"}
  BY DEF PC
<1>3. /\ {"deps"} \in SUBSET Scratch /\ {} \in SUBSET Scratch
      /\ {"IO"} \in SUBSET (Code \ {"OK", "Panic"})
      /\ {"IO"} \cup {"InvalidArg"} \in SUBSET (Code \ {"OK", "Panic"})
      /\ {"IO", "ChartLoad", "Registry"} \in SUBSET (Code \ {"OK", "Panic"})
      /\ {"Repo"} \in SUBSET (Code \ {"OK", "Panic"})
  BY DEF Scratch, Code
<1>4. CASE DependencyDir(t)
  <2>1. UNCHANGED <<source, destVars>> /\ UNCHANGED <<call, alone>>
    BY <1>4 DEF DependencyDir
  <2>2. CASE Go(t, "manager", {"deps"})
    <3>1. LocalTypes' /\ OthersKeep(t) /\ Way(t) /\ pc'[t] = "manager"
      BY <1>2, <1>3, <2>2, GoIs
    <3>2. Belongs(t)'
      BY <1>1, <2>1, <3>1 DEF Belongs
    <3> QED
      BY <1>1, <2>1, <3>1, <3>2, Unchanged, QuietGood
  <2>3. CASE Fails(t, {"IO"} \cup (IF call[t].op = "update" THEN {"InvalidArg"} ELSE {}))
    <3>1. {"IO"} \cup (IF call[t].op = "update" THEN {"InvalidArg"} ELSE {})
            \in SUBSET (Code \ {"OK", "Panic"})
      BY <1>3
    <3> QED
      BY <1>1, <2>1, <2>3, <3>1, Unchanged, FailureGood
  <2> QED
    BY <1>4, <2>2, <2>3 DEF DependencyDir
<1>5. CASE DependencyManager(t)
  <2>1. UNCHANGED <<source, destVars>> /\ UNCHANGED <<call, alone>>
    BY <1>5 DEF DependencyManager
  <2>2. CASE Go(t, "update", {"deps"})
    <3>1. LocalTypes' /\ OthersKeep(t) /\ Way(t) /\ pc'[t] = "update"
      BY <1>2, <1>3, <2>2, GoIs
    <3>2. Belongs(t)'
      BY <1>1, <2>1, <3>1 DEF Belongs
    <3> QED
      BY <1>1, <2>1, <3>1, <3>2, Unchanged, QuietGood
  <2>3. CASE Fails(t, {"IO", "ChartLoad", "Registry"})
    BY <1>1, <1>3, <2>1, <2>3, Unchanged, FailureGood
  <2> QED
    BY <1>5, <2>2, <2>3 DEF DependencyManager
<1>6. CASE DependencyUpdate(t)
  <2>1. UNCHANGED destVars /\ UNCHANGED <<call, alone>>
    BY <1>6 DEF DependencyUpdate
  <2>2. source' \in [Charts -> Contents]
    BY <1>6 DEF DependencyUpdate, TypeOK
  <2>3. FileTypes' /\ OnlyThere(t)
    BY <2>1 DEF TypeOK, FileTypes, OnlyThere, Same, destVars
  <2>4. CASE call[t].op = "package" /\ Go(t, "save", {})
    <3>1. LocalTypes' /\ OthersKeep(t) /\ Way(t) /\ pc'[t] = "save"
      BY <1>2, <1>3, <2>4, GoIs
    <3>2. Belongs(t)'
      BY <2>1, <2>4, <3>1 DEF Belongs
    <3> QED
      BY <1>1, <2>1, <2>2, <2>3, <3>1, <3>2, QuietGood
  <2>5. CASE call[t].op # "package" /\ Succeeds(t)
    <3>1. LocalTypes' /\ OthersKeep(t) /\ Way(t) /\ pc'[t] = "idle"
      BY <2>5, SucceedsIs
    <3>2. Belongs(t)' /\ call[t].op \notin Filing
      BY <1>1, <2>5, <3>1 DEF Belongs
    <3> QED
      BY <1>1, <2>1, <2>2, <2>3, <3>1, <3>2, QuietGood
  <2>6. CASE Fails(t, {"Repo"})
    BY <1>1, <1>3, <2>1, <2>2, <2>3, <2>6, FailureGood
  <2> QED
    BY <1>6, <2>4, <2>5, <2>6 DEF DependencyUpdate
<1> QED
  BY <1>4, <1>5, <1>6

-----------------------------------------------------------------------------
(* Packaging and signing. *)

(* Where a call is alone no other writes its archive. *)
LEMMA NotCrossed ==
  ASSUME NEW t \in Callers, Inv, t \in alone, call[t].op = "package"
  PROVE  ~ Crossed(t)
<1> SUFFICES ASSUME NEW u \in Callers \ {t}, At(u, "write"), call[u].dest = call[t].dest
             PROVE  FALSE
  BY DEF Crossed
<1>1. call[u].op = "package"
  BY DEF Inv, Path, Belongs, At
<1>2. Apart(t)
  BY DEF Inv, Path
<1> QED
  BY <1>1, <1>2 DEF Apart, Filing, At

(* The same call at a step of PackageRun or SignChart. *)
LEMMA FilingGood ==
  ASSUME TypeOK, NEW t \in Callers, ~ At(t, "idle"), LocalTypes', OthersKeep(t), Way(t),
         source' \in [Charts -> Contents], FileTypes', OnlyThere(t), UNCHANGED <<call, alone>>,
         Belongs(t)', t \in alone => Intact(t)'
  PROVE  Good(t)
BY DEF Good, TypeOK, LocalTypes, FileTypes

LEMMA PackageSavesStep ==
  ASSUME TypeOK, Inv, NEW t \in Callers, PackageSaves(t)
  PROVE  Good(t)
<1>1. At(t, "save") /\ call[t].op = "package" /\ ~ At(t, "idle")
  BY DEF Inv, Path, Belongs, PackageSaves, At
<1>2. UNCHANGED <<source, prov, yaml, json, call, alone>>
  BY DEF PackageSaves
<1>3. source' \in [Charts -> Contents] /\ "package" \in Filing
  BY <1>2 DEF TypeOK, Filing
<1>4. CASE Fails(t, {"ChartInvalid"}) /\ UNCHANGED archive
  <2>1. {"ChartInvalid"} \in SUBSET (Code \ {"OK", "Panic"})
    BY DEF Code
  <2>2. UNCHANGED <<source, destVars>>
    BY <1>2, <1>4 DEF destVars
  <2> QED
    BY <1>1, <1>2, <1>4, <2>1, <2>2, Unchanged, FailureGood
<1>5. CASE /\ Gets(t, source[call[t].chart]) /\ Archives(t, Partial)
           /\ Moves(t, "write", {}) /\ UNCHANGED <<list, former>>
  <2>1. source[call[t].chart] \in Contents
    BY DEF TypeOK, Args, Call
  <2>2. /\ held' \in [Callers -> Contents \cup {None}] /\ held'[t] \in Contents
        /\ \A u \in Callers \ {t} : held'[u] = held[u]
    BY <1>5, <2>1 DEF Gets, TypeOK
  <2>3. "write" \in PC \ {"idle"} /\ {} \in SUBSET Scratch /\ Partial \in File
    BY DEF PC, File
  <2>4. /\ pc' \in [Callers -> PC] /\ pc'[t] = "write"
        /\ scratch' \in [Callers -> SUBSET Scratch]
        /\ code' = code /\ code' \in [Callers -> Code]
        /\ \A u \in Callers \ {t} : pc'[u] = pc[u] /\ scratch'[u] = scratch[u]
    BY <1>5, <2>3, MovesIs
  <2>5. LocalTypes' /\ OthersKeep(t) /\ Way(t)
    BY <1>5, <2>2, <2>4 DEF LocalTypes, OthersKeep, Way, TypeOK
  <2>6. /\ archive' \in [Dests -> [Charts -> File]]
        /\ \A d \in Dests \ {call[t].dest} : archive'[d] = archive[d]
    BY <1>5, <2>3, ArchivesIs
  <2>7. FileTypes' /\ OnlyThere(t)
    BY <1>1, <1>2, <1>3, <2>6 DEF FileTypes, OnlyThere, Same, TypeOK
  <2>8. Belongs(t)' /\ Intact(t)'
    BY <1>1, <1>2, <2>2, <2>4 DEF Belongs, Intact, At
  <2> QED
    BY <1>1, <1>2, <1>3, <2>5, <2>7, <2>8, FilingGood
<1> QED
  BY <1>4, <1>5 DEF PackageSaves

LEMMA PackageWritesStep ==
  ASSUME TypeOK, Inv, NEW t \in Callers, PackageWrites(t)
  PROVE  Good(t)
<1>1. /\ At(t, "write") /\ call[t].op = "package" /\ ~ At(t, "idle")
      /\ t \in alone => held[t] \in Contents /\ ~ Crossed(t)
  <2>1. At(t, "write") /\ call[t].op = "package" /\ ~ At(t, "idle")
    BY DEF Inv, Path, Belongs, PackageWrites, At
  <2>2. t \in alone => held[t] \in Contents
    BY <2>1 DEF Inv, Path, Intact, Filing
  <2> QED
    BY <2>1, <2>2, NotCrossed
<1>2. UNCHANGED <<source, prov, yaml, json, call, alone>>
  BY DEF PackageWrites
<1>3. source' \in [Charts -> Contents] /\ "package" \in Filing
  BY <1>2 DEF TypeOK, Filing
<1>4. ASSUME NEW x \in File, Archives(t, x)
      PROVE  /\ FileTypes' /\ OnlyThere(t) /\ Archive(t)' = x
  <2>1. /\ archive' \in [Dests -> [Charts -> File]]
        /\ archive'[call[t].dest][call[t].chart] = x
        /\ \A d \in Dests \ {call[t].dest} : archive'[d] = archive[d]
    BY <1>4, ArchivesIs
  <2>2. FileTypes' /\ OnlyThere(t)
    BY <1>1, <1>2, <1>3, <2>1 DEF FileTypes, OnlyThere, Same, TypeOK
  <2> QED
    BY <1>2, <2>1, <2>2 DEF Archive
<1>5. ASSUME NEW x \in File, Archives(t, x), t \in alone => x = held[t],
             \/ call[t].sign /\ Go(t, "check", {})
             \/ ~ call[t].sign /\ Succeeds(t)
      PROVE  Good(t)
  <2>1. FileTypes' /\ OnlyThere(t) /\ Archive(t)' = x
    BY <1>4, <1>5
  <2>2. "check" \in PC \ {"idle"} /\ {} \in SUBSET Scratch
    BY DEF PC
  <2>3. /\ LocalTypes' /\ OthersKeep(t) /\ Way(t) /\ UNCHANGED localVars
        /\ pc'[t] = "check" \/ (pc'[t] = "idle" /\ ~ call[t].sign)
    BY <1>5, <2>2, GoIs, SucceedsIs
  <2>4. UNCHANGED held
    BY <2>3 DEF localVars
  <2>5. t \in alone => Kept(t)'
    BY <1>1, <1>5, <2>1, <2>4 DEF Kept
  <2>6. Belongs(t)' /\ (t \in alone => Intact(t)')
    BY <1>1, <1>2, <2>3, <2>5 DEF Belongs, Intact, At
  <2> QED
    BY <1>1, <1>2, <1>3, <2>1, <2>3, <2>6, FilingGood
<1>6. CASE /\ \E x \in {held[t]} \cup (IF Crossed(t) THEN {Partial} ELSE {}) : Archives(t, x)
           /\ IF call[t].sign THEN Go(t, "check", {}) ELSE Succeeds(t)
  <2>1. PICK x \in {held[t]} \cup (IF Crossed(t) THEN {Partial} ELSE {}) : Archives(t, x)
    BY <1>6
  <2>2. x \in File /\ (t \in alone => x = held[t])
    BY <1>1, FileIs
  <2> QED
    BY <1>5, <1>6, <2>1, <2>2
<1>7. CASE Archives(t, None) /\ Fails(t, {"ChartInvalid"})
  <2>1. {"ChartInvalid"} \in SUBSET (Code \ {"OK", "Panic"}) /\ None \in File
    BY DEF Code, File
  <2> QED
    BY <1>1, <1>2, <1>3, <1>4, <1>7, <2>1, FailureGood
<1> QED
  BY <1>6, <1>7 DEF PackageWrites

LEMMA SignChecksStep ==
  ASSUME TypeOK, Inv, NEW t \in Callers, SignChecks(t)
  PROVE  Good(t)
<1>1. /\ At(t, "check") /\ call[t].op \in {"package", "sign"} /\ ~ At(t, "idle")
      /\ t \in alone => (call[t].op = "package" => Kept(t))
  BY DEF Inv, Path, Belongs, Intact, SignChecks, At, Filing
<1>2. UNCHANGED <<source, destVars>> /\ UNCHANGED <<call, alone>>
  BY DEF SignChecks
<1>3. CASE Fails(t, {"InvalidArg", "IO"})
  <2>1. {"InvalidArg", "IO"} \in SUBSET (Code \ {"OK", "Panic"})
    BY DEF Code
  <2> QED
    BY <1>1, <1>2, <1>3, <2>1, Unchanged, FailureGood
<1>4. ASSUME NEW fs \in {{}, {"passphrase"}}, Go(t, "clearsign", fs)
      PROVE  Good(t)
  <2>1. "clearsign" \in PC \ {"idle"} /\ fs \in SUBSET Scratch
    BY DEF PC, Scratch
  <2>2. /\ LocalTypes' /\ OthersKeep(t) /\ Way(t) /\ UNCHANGED held
        /\ pc'[t] = "clearsign"
    BY <1>4, <2>1, GoIs DEF localVars
  <2>3. UNCHANGED <<source, archive, prov, yaml, json>>
    BY <1>2, Unchanged
  <2>4. t \in alone => (call[t].op = "package" => Kept(t)')
    BY <1>1, <1>2, <2>2, <2>3 DEF Kept, Archive
  <2>5. Belongs(t)' /\ (t \in alone => Intact(t)')
    BY <1>1, <1>2, <2>2, <2>4 DEF Belongs, Intact, At
  <2> QED
    BY <1>1, <1>2, <2>2, <2>5, Unchanged, FilingGood
<1> QED
  BY <1>3, <1>4 DEF SignChecks

LEMMA SignReadsStep ==
  ASSUME TypeOK, Inv, NEW t \in Callers, SignReads(t)
  PROVE  Good(t)
<1>1. At(t, "clearsign") /\ call[t].op \in {"package", "sign"} /\ ~ At(t, "idle")
  BY DEF Inv, Path, Belongs, SignReads, At
<1>2. UNCHANGED <<source, destVars>> /\ UNCHANGED <<call, alone>>
  BY DEF SignReads
<1>3. CASE Fails(t, {"ChartInvalid"})
  <2>1. {"ChartInvalid"} \in SUBSET (Code \ {"OK", "Panic"})
    BY DEF Code
  <2> QED
    BY <1>1, <1>2, <1>3, <2>1, Unchanged, FailureGood
<1>4. CASE /\ Archive(t) \in Contents /\ Gets(t, Archive(t))
           /\ Moves(t, "prov", scratch[t]) /\ UNCHANGED <<list, former>>
  <2>1. "prov" \in PC \ {"idle"} /\ scratch[t] \in SUBSET Scratch
    BY DEF PC, TypeOK
  <2>2. /\ pc' \in [Callers -> PC] /\ pc'[t] = "prov"
        /\ scratch' \in [Callers -> SUBSET Scratch]
        /\ code' = code /\ code' \in [Callers -> Code]
        /\ \A u \in Callers \ {t} : pc'[u] = pc[u] /\ scratch'[u] = scratch[u]
    BY <1>4, <2>1, MovesIs
  <2>3. /\ held' \in [Callers -> Contents \cup {None}] /\ held'[t] = Archive(t)
        /\ \A u \in Callers \ {t} : held'[u] = held[u]
    BY <1>4 DEF Gets, TypeOK
  <2>4. LocalTypes' /\ OthersKeep(t) /\ Way(t)
    BY <1>4, <2>2, <2>3 DEF LocalTypes, OthersKeep, Way, TypeOK
  <2>5. UNCHANGED <<source, archive, prov, yaml, json>>
    BY <1>2, Unchanged
  <2>6. Kept(t)'
    BY <1>2, <1>4, <2>3, <2>5 DEF Kept, Archive
  <2>7. Belongs(t)' /\ Intact(t)'
    BY <1>1, <1>2, <2>2, <2>6 DEF Belongs, Intact, At
  <2> QED
    BY <1>1, <1>2, <2>4, <2>7, Unchanged, FilingGood
<1> QED
  BY <1>3, <1>4 DEF SignReads

LEMMA SignWritesStep ==
  ASSUME TypeOK, Inv, NEW t \in Callers, SignWrites(t)
  PROVE  Good(t)
<1>1. /\ At(t, "prov") /\ call[t].op \in {"package", "sign"} /\ ~ At(t, "idle")
      /\ t \in alone => Kept(t)
  BY DEF Inv, Path, Belongs, Intact, SignWrites, At, Filing
<1>2. UNCHANGED <<source, archive, yaml, json, call, alone>>
  BY DEF SignWrites
<1>3. source' \in [Charts -> Contents] /\ call[t].op \in Filing
  BY <1>1, <1>2 DEF TypeOK, Filing
<1>4. ASSUME NEW x \in File, Signs(t, x)
      PROVE  FileTypes' /\ OnlyThere(t) /\ Prov(t)' = x
  <2>1. /\ prov' \in [Dests -> [Charts -> File]]
        /\ prov'[call[t].dest][call[t].chart] = x
        /\ \A d \in Dests \ {call[t].dest} : prov'[d] = prov[d]
    BY <1>4, SignsIs
  <2>2. FileTypes' /\ OnlyThere(t)
    BY <1>2, <1>3, <2>1 DEF FileTypes, OnlyThere, Same, TypeOK
  <2> QED
    BY <1>2, <2>1, <2>2 DEF Prov
<1>5. CASE Signs(t, held[t]) /\ Succeeds(t)
  <2>1. FileTypes' /\ OnlyThere(t) /\ Prov(t)' = held[t]
    BY <1>4, <1>5, FileIs
  <2>2. /\ LocalTypes' /\ OthersKeep(t) /\ Way(t) /\ UNCHANGED held /\ pc'[t] = "idle"
    BY <1>5, SucceedsIs DEF localVars
  <2>3. t \in alone => Kept(t)' /\ Verifies(t)'
    BY <1>1, <1>2, <2>1, <2>2 DEF Kept, Verifies, Archive
  <2>4. Belongs(t)' /\ (t \in alone => Intact(t)')
    BY <1>1, <1>2, <2>2, <2>3 DEF Belongs, Intact, At
  <2> QED
    BY <1>1, <1>2, <1>3, <2>1, <2>2, <2>4, FilingGood
<1>6. CASE \E x \in {Prov(t), Partial} : Signs(t, x) /\ Fails(t, {"ChartInvalid"})
  <2>1. PICK x \in {Prov(t), Partial} : Signs(t, x) /\ Fails(t, {"ChartInvalid"})
    BY <1>6
  <2>2. {"ChartInvalid"} \in SUBSET (Code \ {"OK", "Panic"}) /\ x \in File
    BY FileIs DEF Code
  <2> QED
    BY <1>1, <1>2, <1>3, <1>4, <2>1, <2>2, FailureGood
<1> QED
  BY <1>5, <1>6 DEF SignWrites

-----------------------------------------------------------------------------
(* The index. *)

LEMMA IndexReadsStep ==
  ASSUME TypeOK, Inv, NEW t \in Callers, IndexReads(t)
  PROVE  Good(t)
<1>1. /\ At(t, "index") /\ call[t].op = "index" /\ ~ At(t, "idle")
      /\ t \in alone => former[t] = NoEntries
  BY DEF Inv, Path, Belongs, Intact, IndexReads, At, Filing
<1>2. UNCHANGED <<source, destVars>> /\ UNCHANGED <<call, alone>>
  BY DEF IndexReads
<1>3. CASE Fails(t, {"Repo"})
  <2>1. {"Repo"} \in SUBSET (Code \ {"OK", "Panic"})
    BY DEF Code
  <2> QED
    BY <1>1, <1>2, <1>3, <2>1, Unchanged, FailureGood
<1> DEFINE now == [c \in Charts |->
             LET x == archive[call[t].dest][c] IN IF x \in Contents THEN x ELSE None]
<1>4. CASE /\ Builds(t, now)
           /\ Moves(t, "merge", {}) \/ Moves(t, "yaml", {})
           /\ UNCHANGED <<held, former>>
  <2>1. {"merge", "yaml"} \subseteq PC \ {"idle"} /\ {} \in SUBSET Scratch
    BY DEF PC
  <2>2. /\ pc' \in [Callers -> PC] /\ pc'[t] \in {"merge", "yaml"}
        /\ scratch' \in [Callers -> SUBSET Scratch]
        /\ code' = code /\ code' \in [Callers -> Code]
        /\ \A u \in Callers \ {t} : pc'[u] = pc[u] /\ scratch'[u] = scratch[u]
    BY <1>4, <2>1, MovesIs
  <2>3. now \in Entries
    BY DEF Entries
  <2>4. /\ list' \in [Callers -> Entries] /\ list'[t] = now
        /\ \A u \in Callers \ {t} : list'[u] = list[u]
    BY <1>4, <2>3 DEF Builds, TypeOK
  <2>5. LocalTypes' /\ OthersKeep(t) /\ Way(t)
    BY <1>4, <2>2, <2>4 DEF LocalTypes, OthersKeep, Way, TypeOK
  <2>6. UNCHANGED <<source, archive, prov, yaml, json>>
    BY <1>2, Unchanged
  <2>7. t \in alone => Listed(t)'
    BY <1>1, <1>2, <1>4, <2>4, <2>6 DEF Listed, NoEntries
  <2>8. Belongs(t)' /\ (t \in alone => Intact(t)')
    BY <1>1, <1>2, <1>4, <2>2, <2>7 DEF Belongs, Intact, At, NoEntries
  <2> QED
    BY <1>1, <1>2, <2>5, <2>8, Unchanged, FilingGood
<1> QED
  BY <1>3, <1>4 DEF IndexReads

(* The entries added are those that are missing. *)
LEMMA MergedIs ==
  ASSUME NEW l \in Entries, NEW older \in Entries
  PROVE  /\ Merged(l, older) \in Entries
         /\ \A c \in Charts : Merged(l, older)[c] = IF l[c] = None THEN older[c] ELSE l[c]
BY DEF Merged, Entries

LEMMA IndexMergesStep ==
  ASSUME TypeOK, Inv, NEW t \in Callers, IndexMerges(t)
  PROVE  Good(t)
<1>1. /\ At(t, "merge") /\ call[t].op = "index" /\ ~ At(t, "idle")
      /\ t \in alone => former[t] = NoEntries /\ Listed(t)
  BY DEF Inv, Path, Belongs, Intact, IndexMerges, At, Filing
<1>2. UNCHANGED <<source, destVars>> /\ UNCHANGED <<call, alone>>
  BY DEF IndexMerges
<1>3. CASE Fails(t, {"Repo"})
  <2>1. {"Repo"} \in SUBSET (Code \ {"OK", "Panic"})
    BY DEF Code
  <2> QED
    BY <1>1, <1>2, <1>3, <2>1, Unchanged, FailureGood
<1>4. ASSUME NEW d \in Dests, Builds(t, Merged(list[t], yaml[d])), Mixes(t, yaml[d]),
             Moves(t, "yaml", {}), UNCHANGED held
      PROVE  Good(t)
  <2>1. "yaml" \in PC \ {"idle"} /\ {} \in SUBSET Scratch
    BY DEF PC
  <2>2. /\ pc' \in [Callers -> PC] /\ pc'[t] = "yaml"
        /\ scratch' \in [Callers -> SUBSET Scratch]
        /\ code' = code /\ code' \in [Callers -> Code]
        /\ \A u \in Callers \ {t} : pc'[u] = pc[u] /\ scratch'[u] = scratch[u]
    BY <1>4, <2>1, MovesIs
  <2>3. list[t] \in Entries /\ yaml[d] \in Entries
    BY DEF TypeOK
  <2>4. /\ Merged(list[t], yaml[d]) \in Entries
        /\ \A c \in Charts : Merged(list[t], yaml[d])[c] =
             IF list[t][c] = None THEN yaml[d][c] ELSE list[t][c]
    BY <2>3, MergedIs
  <2>5. /\ list' \in [Callers -> Entries] /\ list'[t] = Merged(list[t], yaml[d])
        /\ former' \in [Callers -> Entries] /\ former'[t] = yaml[d]
        /\ \A u \in Callers \ {t} : list'[u] = list[u] /\ former'[u] = former[u]
    BY <1>4, <2>3, <2>4 DEF Builds, Mixes, TypeOK
  <2>6. LocalTypes' /\ OthersKeep(t) /\ Way(t)
    BY <1>4, <2>2, <2>5 DEF LocalTypes, OthersKeep, Way, TypeOK
  <2>7. UNCHANGED <<source, archive, prov, yaml, json>>
    BY <1>2, Unchanged
  <2>8. ASSUME t \in alone, NEW c \in Charts
        PROVE  list'[t][c] = (IF archive'[call'[t].dest][c] \in Contents
                              THEN archive'[call'[t].dest][c] ELSE former'[t][c])
    <3> DEFINE a == archive[call[t].dest][c]
    <3>1. list[t][c] = (IF a \in Contents THEN a ELSE None)
      BY <1>1, <2>8 DEF Listed, NoEntries
    <3>2. list'[t][c] = (IF list[t][c] = None THEN yaml[d][c] ELSE list[t][c])
      BY <2>4, <2>5
    <3>3. list'[t][c] = (IF a \in Contents THEN a ELSE yaml[d][c])
      BY <3>1, <3>2, FilesAssumption
    <3> QED
      BY <1>2, <2>5, <2>7, <3>3
  <2>9. t \in alone => Listed(t)'
    BY <2>8 DEF Listed
  <2>10. Belongs(t)' /\ (t \in alone => Intact(t)')
    BY <1>1, <1>2, <2>2, <2>9 DEF Belongs, Intact, At
  <2> QED
    BY <1>1, <1>2, <2>6, <2>10, Unchanged, FilingGood
<1> QED
  BY <1>3, <1>4 DEF IndexMerges

LEMMA IndexWritesYAMLStep ==
  ASSUME TypeOK, Inv, NEW t \in Callers, IndexWritesYAML(t)
  PROVE  Good(t)
<1>1. /\ At(t, "yaml") /\ call[t].op = "index" /\ ~ At(t, "idle")
      /\ t \in alone => Listed(t)
  BY DEF Inv, Path, Belongs, Intact, IndexWritesYAML, At, Filing
<1>2. UNCHANGED <<source, archive, prov, json, call, alone>>
  BY DEF IndexWritesYAML
<1>3. source' \in [Charts -> Contents] /\ "index" \in Filing
  BY <1>2 DEF TypeOK, Filing
<1>4. CASE Fails(t, {"IO"}) /\ UNCHANGED yaml
  <2>1. {"IO"} \in SUBSET (Code \ {"OK", "Panic"})
    BY DEF Code
  <2>2. UNCHANGED <<source, destVars>>
    BY <1>2, <1>4 DEF destVars
  <2> QED
    BY <1>1, <1>2, <1>4, <2>1, <2>2, Unchanged, FailureGood
<1>5. ASSUME yaml' = [yaml EXCEPT ![call[t].dest] = list[t]],
             \/ call[t].json /\ Go(t, "json", {})
             \/ ~ call[t].json /\ Succeeds(t)
      PROVE  Good(t)
  <2>1. /\ yaml' \in [Dests -> Entries] /\ yaml'[call[t].dest] = list[t]
        /\ \A d \in Dests \ {call[t].dest} : yaml'[d] = yaml[d]
    BY <1>5 DEF TypeOK, Args, Call
  <2>2. FileTypes' /\ OnlyThere(t)
    BY <1>1, <1>2, <1>3, <2>1 DEF FileTypes, OnlyThere, Same, TypeOK
  <2>3. "json" \in PC \ {"idle"} /\ {} \in SUBSET Scratch
    BY DEF PC
  <2>4. /\ LocalTypes' /\ OthersKeep(t) /\ Way(t) /\ UNCHANGED localVars
        /\ pc'[t] = "json" \/ (pc'[t] = "idle" /\ ~ call[t].json)
    BY <1>5, <2>3, GoIs, SucceedsIs
  <2>5. UNCHANGED <<list, former>>
    BY <2>4 DEF localVars
  <2>6. t \in alone => Listed(t)'
    BY <1>1, <1>2, <2>5 DEF Listed
  <2>7. Belongs(t)' /\ (t \in alone => Intact(t)')
    BY <1>1, <1>2, <2>1, <2>4, <2>5, <2>6 DEF Belongs, Intact, At
  <2> QED
    BY <1>1, <1>2, <1>3, <2>2, <2>4, <2>7, FilingGood
<1> QED
  BY <1>4, <1>5 DEF IndexWritesYAML

LEMMA IndexWritesJSONStep ==
  ASSUME TypeOK, Inv, NEW t \in Callers, IndexWritesJSON(t)
  PROVE  Good(t)
<1>1. /\ At(t, "json") /\ call[t].op = "index" /\ ~ At(t, "idle")
      /\ t \in alone => Listed(t) /\ yaml[call[t].dest] = list[t]
  BY DEF Inv, Path, Belongs, Intact, IndexWritesJSON, At, Filing
<1>2. UNCHANGED <<source, archive, prov, yaml, call, alone>>
  BY DEF IndexWritesJSON
<1>3. source' \in [Charts -> Contents] /\ "index" \in Filing
  BY <1>2 DEF TypeOK, Filing
<1>4. CASE Fails(t, {"IO"}) /\ UNCHANGED json
  <2>1. {"IO"} \in SUBSET (Code \ {"OK", "Panic"})
    BY DEF Code
  <2>2. UNCHANGED <<source, destVars>>
    BY <1>2, <1>4 DEF destVars
  <2> QED
    BY <1>1, <1>2, <1>4, <2>1, <2>2, Unchanged, FailureGood
<1>5. CASE json' = [json EXCEPT ![call[t].dest] = list[t]] /\ Succeeds(t)
  <2>1. /\ json' \in [Dests -> Entries] /\ json'[call[t].dest] = list[t]
        /\ \A d \in Dests \ {call[t].dest} : json'[d] = json[d]
    BY <1>5 DEF TypeOK, Args, Call
  <2>2. FileTypes' /\ OnlyThere(t)
    BY <1>1, <1>2, <1>3, <2>1 DEF FileTypes, OnlyThere, Same, TypeOK
  <2>3. /\ LocalTypes' /\ OthersKeep(t) /\ Way(t) /\ UNCHANGED localVars
        /\ pc'[t] = "idle"
    BY <1>5, SucceedsIs
  <2>4. UNCHANGED <<list, former>>
    BY <2>3 DEF localVars
  <2>5. t \in alone => Listed(t)'
    BY <1>1, <1>2, <2>4 DEF Listed
  <2>6. Belongs(t)' /\ (t \in alone => Intact(t)')
    BY <1>1, <1>2, <2>1, <2>3, <2>4, <2>5 DEF Belongs, Intact, At
  <2> QED
    BY <1>1, <1>2, <1>3, <2>2, <2>3, <2>6, FilingGood
<1> QED
  BY <1>4, <1>5 DEF IndexWritesJSON

-----------------------------------------------------------------------------
(* The steps of the other calls, and a panic of any. *)

(* A call that is not about the files of a directory, goes on. *)
LEMMA GoesOn ==
  ASSUME TypeOK, NEW t \in Callers, ~ At(t, "idle"), UNCHANGED <<source, destVars>>,
         UNCHANGED <<call, alone>>, NEW l \in PC \ {"idle"}, NEW fs \in SUBSET Scratch,
         Go(t, l, fs),
         \/ call[t].op = "pull" /\ l = "download"
         \/ call[t].op = "download" /\ l = "get"
         \/ call[t].op = "show" /\ l \in {"refer", "fetch", "remote", "load", "resave", "show"}
  PROVE  Good(t)
<1>1. LocalTypes' /\ OthersKeep(t) /\ Way(t) /\ pc'[t] = l
  BY GoIs
<1>2. Belongs(t)' /\ (call[t].op \in Filing => l = "download")
  BY <1>1 DEF Belongs, Filing
<1> QED
  BY <1>1, <1>2, Unchanged, QuietGood

(* Or it succeeds. *)
LEMMA SuccessGood ==
  ASSUME TypeOK, NEW t \in Callers, ~ At(t, "idle"), UNCHANGED source, FileTypes', OnlyThere(t),
         UNCHANGED <<call, alone>>, Succeeds(t), call[t].op \in {"pull", "download", "show"}
  PROVE  Good(t)
<1>1. LocalTypes' /\ OthersKeep(t) /\ Way(t) /\ pc'[t] = "idle"
  BY SucceedsIs
<1>2. Belongs(t)' /\ (call[t].op \in Filing => call[t].op = "pull") /\ source' \in [Charts -> Contents]
  BY <1>1 DEF Belongs, Filing, TypeOK
<1> QED
  BY <1>1, <1>2, QuietGood

LEMMA PullSteps ==
  ASSUME TypeOK, Inv, NEW t \in Callers, PullDir(t) \/ PullSaves(t)
  PROVE  Good(t)
<1>1. call[t].op = "pull" /\ ~ At(t, "idle") /\ call[t].op \in Filing
  BY DEF Inv, Path, Belongs, PullDir, PullSaves, At, Filing
<1>2. /\ {"Registry", "IO"} \in SUBSET (Code \ {"OK", "Panic"})
      /\ {"Repo"} \in SUBSET (Code \ {"OK", "Panic"})
      /\ "download" \in PC \ {"idle"} /\ {"pull"} \in SUBSET Scratch
  BY DEF Code, PC, Scratch
<1>3. CASE PullDir(t)
  <2>1. UNCHANGED <<source, destVars>> /\ UNCHANGED <<call, alone>>
    BY <1>3 DEF PullDir
  <2>2. CASE Go(t, "download", {"pull"})
    BY <1>1, <1>2, <2>1, <2>2, GoesOn
  <2>3. CASE Fails(t, {"Registry", "IO"})
    BY <1>1, <1>2, <2>1, <2>3, Unchanged, FailureGood
  <2> QED
    BY <1>3, <2>2, <2>3 DEF PullDir
<1>4. CASE PullSaves(t)
  <2>1. UNCHANGED <<source, yaml, json, call, alone>> /\ source' \in [Charts -> Contents]
    BY <1>4 DEF PullSaves, TypeOK
  <2>2. CASE /\ \E x \in Contents : Archives(t, x)
             /\ \E x \in Contents \cup {Prov(t)} : Signs(t, x)
             /\ Succeeds(t) \/ Fails(t, {"Repo"})
    <3>1. PICK x \in Contents : Archives(t, x)
      BY <2>2
    <3>2. PICK y \in Contents \cup {Prov(t)} : Signs(t, y)
      BY <2>2
    <3>3. x \in File /\ y \in File
      BY FileIs
    <3>4. /\ archive' \in [Dests -> [Charts -> File]]
          /\ \A d \in Dests \ {call[t].dest} : archive'[d] = archive[d]
      BY <3>1, <3>3, ArchivesIs
    <3>5. /\ prov' \in [Dests -> [Charts -> File]]
          /\ \A d \in Dests \ {call[t].dest} : prov'[d] = prov[d]
      BY <3>2, <3>3, SignsIs
    <3>6. FileTypes' /\ OnlyThere(t)
      BY <1>1, <2>1, <3>4, <3>5 DEF FileTypes, OnlyThere, Same, TypeOK
    <3> QED
      BY <1>1, <1>2, <2>1, <2>2, <3>6, SuccessGood, FailureGood
  <2>3. CASE Fails(t, {"Repo"}) /\ UNCHANGED <<archive, prov>>
    <3>1. UNCHANGED <<source, destVars>>
      BY <2>1, <2>3 DEF destVars
    <3> QED
      BY <1>1, <1>2, <2>1, <2>3, <3>1, Unchanged, FailureGood
  <2> QED
    BY <1>4, <2>2, <2>3 DEF PullSaves
<1> QED
  BY <1>3, <1>4

LEMMA RepoSteps ==
  ASSUME TypeOK, Inv, NEW t \in Callers, RepoDir(t) \/ RepoGets(t)
  PROVE  Good(t)
<1>1. call[t].op = "download" /\ ~ At(t, "idle")
  BY DEF Inv, Path, Belongs, RepoDir, RepoGets, At
<1>2. UNCHANGED <<source, destVars>> /\ UNCHANGED <<call, alone>>
  BY DEF RepoDir, RepoGets
<1>3. /\ {"Repo", "IO"} \in SUBSET (Code \ {"OK", "Panic"})
      /\ {"Repo"} \in SUBSET (Code \ {"OK", "Panic"})
      /\ "get" \in PC \ {"idle"} /\ {"repo"} \in SUBSET Scratch
  BY DEF Code, PC, Scratch
<1>4. Go(t, "get", {"repo"}) \/ Succeeds(t) \/ Fails(t, {"Repo", "IO"}) \/ Fails(t, {"Repo"})
  BY DEF RepoDir, RepoGets
<1> QED
  BY <1>1, <1>2, <1>3, <1>4, Unchanged, GoesOn, SuccessGood, FailureGood

LEMMA ShowSteps ==
  ASSUME TypeOK, Inv, NEW t \in Callers,
         ShowFinds(t) \/ ShowPulls(t) \/ ShowSaves(t) \/ ShowRuns(t)
  PROVE  Good(t)
<1>1. call[t].op = "show" /\ ~ At(t, "idle")
  BY DEF Inv, Path, Belongs, ShowFinds, ShowPulls, ShowSaves, ShowRuns, At
<1>2. UNCHANGED <<source, destVars>> /\ UNCHANGED <<call, alone>>
  BY DEF ShowFinds, ShowPulls, ShowSaves, ShowRuns
<1> DEFINE next == {"refer", "fetch", "remote", "load", "resave", "show"}
           ways == {{}, {"show"}, {"show", "chart"}, {"show", "chart", "pull"}}
           sets == {{"InvalidArg", "Registry", "IO"}, {"ChartLoad", "IO"}, {"ChartLoad"}, {"IO"}}
<1>3. /\ next \subseteq PC \ {"idle"}
      /\ \A fs \in ways : fs \in SUBSET Scratch
      /\ \A cs \in sets : cs \in SUBSET (Code \ {"OK", "Panic"})
  BY DEF Code, PC, Scratch
<1>4. \/ \E l \in next, fs \in ways : Go(t, l, fs)
      \/ Succeeds(t)
      \/ \E cs \in sets : Fails(t, cs)
  <2>1. CASE ShowPulls(t)
    BY <2>1 DEF ShowPulls
  <2>2. CASE ShowFinds(t) \/ ShowSaves(t) \/ ShowRuns(t)
    BY <2>2 DEF ShowFinds, ShowSaves, ShowRuns
  <2> QED
    BY <2>1, <2>2
<1>5. ASSUME NEW l \in next, NEW fs \in ways, Go(t, l, fs)
      PROVE  Good(t)
  <2>1. l \in PC \ {"idle"} /\ fs \in SUBSET Scratch
    BY <1>3
  <2> QED
    BY <1>1, <1>2, <1>5, <2>1, GoesOn
<1>6. ASSUME NEW cs \in sets, Fails(t, cs)
      PROVE  Good(t)
  <2>1. cs \in SUBSET (Code \ {"OK", "Panic"})
    BY <1>3
  <2> QED
    BY <1>1, <1>2, <1>6, <2>1, Unchanged, FailureGood
<1>7. CASE Succeeds(t)
  BY <1>1, <1>2, <1>7, Unchanged, SuccessGood
<1> QED
  BY <1>4, <1>5, <1>6, <1>7

LEMMA PanicsStep ==
  ASSUME TypeOK, NEW t \in Callers, Panics(t)
  PROVE  Good(t)
<1>1. ~ At(t, "idle") /\ UNCHANGED <<source, destVars>> /\ UNCHANGED <<call, alone>>
  BY DEF Panics
<1>2. PICK fs \in SUBSET (ByHand \cap scratch[t]) : Leave(t, "Panic", fs) /\ Forgets(t)
  BY DEF Panics
<1>3. fs \in SUBSET Scratch /\ "Panic" \in Code
  BY DEF ByHand, Scratch, Code
<1>4. /\ LocalTypes' /\ OthersKeep(t)
      /\ pc'[t] = "idle" /\ code'[t] = "Panic" /\ scratch'[t] = fs
  BY <1>2, <1>3, LeaveIs, ForgetsIs DEF LocalTypes, OthersKeep
<1>5. Way(t) /\ Belongs(t)' /\ Intact(t)'
  BY <1>2, <1>4 DEF Way, Belongs, Intact, At
<1> QED
  BY <1>1, <1>4, <1>5, Unchanged, FilingGood

LEMMA WorksGood ==
  ASSUME TypeOK, Inv, NEW t \in Callers, Works(t)
  PROVE  Good(t)
<1>1. Path(t)
  BY DEF Inv
<1> QED
  BY <1>1, DependencySteps, PackageSavesStep, PackageWritesStep, SignChecksStep, SignReadsStep,
     SignWritesStep, IndexReadsStep, IndexMergesStep, IndexWritesYAMLStep, IndexWritesJSONStep,
     PullSteps, RepoSteps, ShowSteps, PanicsStep DEF Works

-----------------------------------------------------------------------------
(* The invariant holds. *)

(* A call that has not moved, its directory as it was. *)
LEMMA StandsStill ==
  ASSUME NEW u \in Callers, Path(u),
         pc'[u] = pc[u], code'[u] = code[u], held'[u] = held[u],
         list'[u] = list[u], former'[u] = former[u], call'[u] = call[u],
         u \in alone' => u \in alone /\ Apart(u)',
         u \in alone' /\ call[u].op \in Filing => Same(call[u].dest)
  PROVE  Path(u)'
<1>1. Belongs(u)'
  BY DEF Path, Belongs
<1>2. ASSUME u \in alone', call'[u].op \in Filing
      PROVE  Intact(u)'
  <2>1. Intact(u) /\ Same(call[u].dest)
    BY <1>2 DEF Path
  <2>2. /\ Archive(u)' = Archive(u) /\ Prov(u)' = Prov(u)
        /\ (Listed(u) => Listed(u)')
    BY <2>1 DEF Same, Archive, Prov, Listed
  <2>3. (Kept(u) => Kept(u)') /\ (Verifies(u) => Verifies(u)')
    BY <2>2 DEF Kept, Verifies
  <2> QED
    BY <2>1, <2>2, <2>3 DEF Intact, At, Same
<1> QED
  BY <1>1, <1>2 DEF Path

LEMMA GoodKeepsInv ==
  ASSUME TypeOK, Inv, NEW t \in Callers, Good(t)
  PROVE  Inv'
<1> SUFFICES ASSUME NEW u \in Callers
             PROVE  Path(u)'
  BY DEF Inv
<1>1. /\ ~ At(t, "idle") /\ UNCHANGED <<call, alone>>
      /\ OthersKeep(t) /\ OnlyThere(t) /\ Path(u) /\ Path(t)
  BY DEF Good, Inv
<1>2. ASSUME u \in alone
      PROVE  Apart(u)'
  <2>1. Apart(u)
    BY <1>1, <1>2 DEF Path
  <2>2. \A v \in Callers : ~ At(v, "idle")' => ~ At(v, "idle")
    BY <1>1 DEF OthersKeep, At
  <2> QED
    BY <1>1, <2>1, <2>2 DEF Apart
<1>3. CASE u = t
  BY <1>1, <1>2, <1>3 DEF Good, Path
<1>4. CASE u # t
  <2>1. ASSUME u \in alone, call[u].op \in Filing
        PROVE  Same(call[u].dest)
    <3>1. Apart(u) /\ call[u].dest \in Dests
      BY <1>1, <2>1 DEF Path, TypeOK, Args, Call
    <3>2. ~ (call[t].op \in Filing /\ call[u].dest = call[t].dest)
      BY <1>1, <1>4, <2>1, <3>1 DEF Apart
    <3> QED
      BY <1>1, <3>1, <3>2 DEF OnlyThere
  <2> QED
    BY <1>1, <1>2, <1>4, <2>1, StandsStill DEF OthersKeep
<1> QED
  BY <1>3, <1>4

LEMMA StartStep ==
  ASSUME TypeOK, Inv, NEW t \in Callers, NEW a \in Args, Start(t, a)
  PROVE  /\ TypeOK' /\ Inv'
         /\ pc[t] = "idle" /\ pc'[t] # "idle" /\ scratch'[t] = {} /\ code'[t] = "OK"
         /\ \A u \in Callers \ {t} :
              pc'[u] = pc[u] /\ scratch'[u] = scratch[u] /\ code'[u] = code[u]
<1>1. PICK l \in FirstSteps(a.op) : pc' = [pc EXCEPT ![t] = l]
  BY DEF Start
<1>2. /\ pc[t] = "idle" /\ call' = [call EXCEPT ![t] = a]
      /\ scratch' = [scratch EXCEPT ![t] = {}] /\ Forgets(t)
      /\ code' = [code EXCEPT ![t] = "OK"]
      /\ UNCHANGED <<source, archive, prov, yaml, json>>
      /\ alone' = {u \in alone \ {t} : a.op \in Filing => call[u].dest # a.dest}
                    \cup {u \in {t} : \A other \in Callers \ {t} : ~ Together(other, a)}
  BY DEF Start, At, destVars
<1>3. a.op \in Ops
  BY DEF Args, Call
<1>4. /\ l \in PC \ {"idle"}
      /\ a.op = "package" => l \in {"manage", "save"}
      /\ a.op = "sign" => l = "check"
      /\ a.op = "index" => l = "index"
      /\ a.op = "pull" => l = "pull"
      /\ a.op = "update" => l = "manage"
      /\ a.op = "show" => l = "find"
      /\ a.op = "download" => l = "repo"
  BY <1>1, <1>3 DEF FirstSteps, Ops, Filing, PC
<1>5. /\ held' \in [Callers -> Contents \cup {None}]
      /\ list' \in [Callers -> Entries] /\ former' \in [Callers -> Entries]
      /\ former'[t] = NoEntries
      /\ \A u \in Callers \ {t} :
           held'[u] = held[u] /\ list'[u] = list[u] /\ former'[u] = former[u]
  BY <1>2, ForgetsIs
<1>6. /\ pc' \in [Callers -> PC] /\ pc'[t] = l
      /\ scratch' \in [Callers -> SUBSET Scratch] /\ scratch'[t] = {}
      /\ code' \in [Callers -> Code] /\ code'[t] = "OK"
      /\ call' \in [Callers -> Args] /\ call'[t] = a
      /\ \A u \in Callers \ {t} :
           /\ pc'[u] = pc[u] /\ scratch'[u] = scratch[u] /\ code'[u] = code[u]
           /\ call'[u] = call[u]
  BY <1>1, <1>2, <1>4 DEF TypeOK, Code
<1>7. TypeOK'
  BY <1>2, <1>5, <1>6 DEF TypeOK
<1>8. ASSUME NEW u \in Callers, u \in alone'
      PROVE  Apart(u)'
  <2>1. CASE u = t
    BY <1>2, <1>6, <1>8, <2>1 DEF Apart, Together, At
  <2>2. CASE u # t
    <3>1. Apart(u) /\ (a.op \in Filing => call[u].dest # a.dest)
      BY <1>2, <1>8, <2>2 DEF Inv, Path
    <3> QED
      BY <1>6, <2>2, <3>1 DEF Apart, At
  <2> QED
    BY <2>1, <2>2
<1>9. ASSUME NEW u \in Callers
      PROVE  Path(u)'
  <2>1. CASE u = t
    <3>1. Belongs(t)' /\ Intact(t)'
      BY <1>3, <1>4, <1>5, <1>6 DEF Belongs, Intact, At, Ops, Filing
    <3> QED
      BY <1>8, <2>1, <3>1 DEF Path
  <2>2. CASE u # t
    <3>1. Path(u) /\ Same(call[u].dest) /\ (u \in alone' => u \in alone)
      BY <1>2, <2>2 DEF Inv, Same
    <3> QED
      BY <1>5, <1>6, <1>8, <2>2, <3>1, StandsStill
  <2> QED
    BY <2>1, <2>2
<1> QED
  BY <1>2, <1>4, <1>6, <1>7, <1>9 DEF Inv

LEMMA EditsStep ==
  ASSUME TypeOK, Inv, NEW c \in Charts, NEW x \in Contents, Edits(c, x)
  PROVE  TypeOK' /\ Inv' /\ UNCHANGED <<pc, scratch, code>>
<1>1. /\ UNCHANGED <<archive, prov, yaml, json, held, list, former>>
      /\ UNCHANGED <<pc, call, scratch, code, alone>>
      /\ source' \in [Charts -> Contents]
  BY DEF Edits, destVars, localVars, TypeOK
<1>2. TypeOK'
  BY <1>1 DEF TypeOK
<1>3. ASSUME NEW u \in Callers
      PROVE  Path(u)'
  <2>1. Path(u) /\ Same(call[u].dest) /\ (Apart(u) => Apart(u)')
    BY <1>1 DEF Inv, Same, Apart, At
  <2> QED
    BY <1>1, <2>1, StandsStill DEF Path
<1> QED
  BY <1>1, <1>2, <1>3 DEF Inv

LEMMA WithdrawsStep ==
  ASSUME TypeOK, Inv, NEW d \in Dests, NEW c \in Charts, Withdraws(d, c)
  PROVE  TypeOK' /\ Inv' /\ UNCHANGED <<pc, scratch, code>>
<1>1. /\ UNCHANGED <<source, prov, yaml, json, held, list, former>>
      /\ UNCHANGED <<pc, call, scratch, code>>
      /\ alone' = {t \in alone : call[t].dest # d}
  BY DEF Withdraws, localVars
<1>2. /\ archive' \in [Dests -> [Charts -> File]]
      /\ \A e \in Dests \ {d} : archive'[e] = archive[e]
  BY DEF Withdraws, TypeOK, File
<1>3. TypeOK'
  BY <1>1, <1>2 DEF TypeOK
<1>4. ASSUME NEW u \in Callers
      PROVE  Path(u)'
  <2>1. Path(u) /\ (Apart(u) => Apart(u)') /\ call[u].dest \in Dests
    BY <1>1 DEF Inv, Apart, At, TypeOK, Args, Call
  <2>2. u \in alone' => u \in alone /\ Same(call[u].dest)
    BY <1>1, <1>2, <2>1 DEF Same
  <2> QED
    BY <1>1, <2>1, <2>2, StandsStill DEF Path
<1> QED
  BY <1>1, <1>3, <1>4 DEF Inv

LEMMA InitInv == Init => TypeOK /\ Inv
<1> SUFFICES ASSUME Init
             PROVE  TypeOK /\ Inv
  OBVIOUS
<1>1. /\ archive \in [Dests -> [Charts -> File]] /\ archive \in [Dests -> Entries]
      /\ list \in [Callers -> Entries]
  BY NoEntriesIs DEF Init, NoEntries, File
<1>2. TypeOK
  <2>1. prov = archive /\ yaml = archive /\ json = archive /\ former = list /\ alone = {}
    BY DEF Init
  <2>2. /\ source \in [Charts -> Contents] /\ pc \in [Callers -> PC]
        /\ call \in [Callers -> Args] /\ scratch \in [Callers -> SUBSET Scratch]
        /\ held \in [Callers -> Contents \cup {None}] /\ code \in [Callers -> Code]
    BY DEF Init, PC, Code
  <2> QED
    BY <1>1, <2>1, <2>2 DEF TypeOK
<1>3. Inv
  BY DEF Init, Inv, Path, Belongs
<1> QED
  BY <1>2, <1>3

LEMMA StepInv == TypeOK /\ Inv /\ [Next]_vars => TypeOK' /\ Inv'
<1> SUFFICES ASSUME TypeOK, Inv, [Next]_vars
             PROVE  TypeOK' /\ Inv'
  OBVIOUS
<1>1. ASSUME NEW t \in Callers, Works(t)
      PROVE  TypeOK' /\ Inv'
  <2>1. Good(t)
    BY <1>1, WorksGood
  <2> QED
    BY <2>1, GoodKeepsInv DEF Good
<1>2. CASE UNCHANGED vars
  BY <1>2 DEF vars, destVars, localVars, TypeOK, Inv, Path, Belongs, Intact, Apart, At, Kept,
              Listed, Verifies, Archive, Prov
<1> QED
  BY <1>1, <1>2, StartStep, EditsStep, WithdrawsStep DEF Next

LEMMA Invariance == Spec => [](TypeOK /\ Inv)
BY InitInv, StepInv, PTL DEF Spec

-----------------------------------------------------------------------------
(* The theorems. *)

(* Every variable keeps its type. *)
THEOREM FilesTypeCorrect == Spec => []TypeOK
BY Invariance, PTL

(* What helm_package_run and helm_chart_sign return OK for verifies: the    *)
(* archive is that of the chart when it was read, and the signature is over *)
(* the archive that is there, whatever failed before and whatever became of *)
(* the chart since (PackageChart, SignChart).                               *)
THEOREM SignedArchivesVerify == Spec => []SignedVerifies
<1>1. TypeOK /\ Inv => SignedVerifies
  BY DEF Inv, Path, Intact, SignedVerifies, Done, Kept, At, Filing
<1> QED
  BY <1>1, Invariance, PTL

(* What GenerateRepoIndex writes in three steps is what its directory holds *)
(* and, of the index merged, what the directory does not.                   *)
THEOREM IndexTellsTheTruth == Spec => []IndexIsTrue
<1>1. TypeOK /\ Inv => IndexIsTrue
  BY DEF Inv, Path, Intact, IndexIsTrue, Done, Listed, At, Filing
<1> QED
  BY <1>1, Invariance, PTL

(* What the contract sees of the state. *)
Active == {t \in Callers : ~ At(t, "idle")}
Panicked == {t \in Callers : code[t] = "Panic"}

(* A step of caller t is a step of the contract. *)
LEMMA WorkKeepsScratch ==
  ASSUME TypeOK, NEW t \in Callers, Good(t)
  PROVE  Scratches!Next
<1>1. \A u \in Callers \ {t} :
        pc'[u] = pc[u] /\ scratch'[u] = scratch[u] /\ code'[u] = code[u]
  BY DEF Good, OthersKeep
<1>2. scratch' = [scratch EXCEPT ![t] = scratch'[t]] /\ scratch'[t] \in SUBSET Scratch
  BY <1>1 DEF TypeOK, Good
<1>3. t \in Active /\ Way(t)
  BY DEF Good, Active
<1>4. CASE pc'[t] # "idle" /\ code'[t] = code[t]
  <2>1. Active' = Active /\ Panicked' = Panicked
    BY <1>1, <1>3, <1>4 DEF Active, Panicked, At
  <2>2. Scratches!Work(t)
    BY <1>2, <1>3, <2>1 DEF Scratches!Work, Scratches!Leaves, Active, Panicked
  <2> QED
    BY <2>2 DEF Scratches!Next
<1>5. CASE pc'[t] = "idle" /\ code'[t] # "Panic" /\ scratch'[t] = {}
  <2>1. Active' = Active \ {t} /\ Panicked' = Panicked \ {t}
    BY <1>1, <1>3, <1>5 DEF Active, Panicked, At
  <2>2. Scratches!Return(t)
    BY <1>2, <1>3, <1>5, <2>1 DEF Scratches!Return, Scratches!Leaves, Active, Panicked
  <2> QED
    BY <2>2 DEF Scratches!Next
<1>6. CASE /\ pc'[t] = "idle" /\ code'[t] = "Panic"
           /\ scratch'[t] \in SUBSET (ByHand \cap scratch[t])
  <2>1. Active' = Active \ {t} /\ Panicked' = Panicked \cup {t}
    BY <1>1, <1>3, <1>6 DEF Active, Panicked, At
  <2>2. Scratches!Panic(t)
    BY <1>2, <1>3, <1>6, <2>1 DEF Scratches!Panic, Scratches!Leaves, Active, Panicked
  <2> QED
    BY <2>2 DEF Scratches!Next
<1> QED
  BY <1>3, <1>4, <1>5, <1>6 DEF Way

LEMMA StartKeepsScratch ==
  ASSUME TypeOK, Inv, NEW t \in Callers, NEW a \in Args, Start(t, a)
  PROVE  Scratches!Next
<1>1. /\ pc[t] = "idle" /\ pc'[t] # "idle" /\ scratch'[t] = {} /\ code'[t] = "OK"
      /\ \A u \in Callers \ {t} :
           pc'[u] = pc[u] /\ scratch'[u] = scratch[u] /\ code'[u] = code[u]
  BY StartStep
<1>2. scratch' = [scratch EXCEPT ![t] = {}]
  BY DEF Start
<1>3. /\ t \notin Active /\ Active' = Active \cup {t}
      /\ Panicked' = Panicked \ {t}
  BY <1>1 DEF Active, Panicked, At
<1>4. Scratches!Begin(t)
  BY <1>2, <1>3 DEF Scratches!Begin, Scratches!Leaves, Active, Panicked
<1> QED
  BY <1>4 DEF Scratches!Next

(* Every call that writes files keeps the promise of ScratchContract,       *)
(* however deep it had gone when it failed or panicked (PullChart,          *)
(* pullChartRef, localChartPath, dependencyManager, DownloadRepoIndex).     *)
THEOREM FilesKeepScratchContract == Spec => ImplementsScratch
<1>1. Init => Scratches!Init
  BY DEF Init, Scratches!Init, At
<1>2. TypeOK /\ Inv /\ [Next]_vars => Scratches!Next \/ UNCHANGED <<Active, scratch, Panicked>>
  <2> SUFFICES ASSUME TypeOK, Inv, [Next]_vars
               PROVE  Scratches!Next \/ UNCHANGED <<Active, scratch, Panicked>>
    OBVIOUS
  <2>1. ASSUME NEW t \in Callers, Works(t)
        PROVE  Scratches!Next
    BY <2>1, WorksGood, WorkKeepsScratch
  <2>2. CASE UNCHANGED <<pc, scratch, code>>
    BY <2>2 DEF Active, Panicked, At
  <2>3. CASE UNCHANGED vars
    BY <2>2, <2>3 DEF vars
  <2> QED
    BY <2>1, <2>2, <2>3, StartKeepsScratch, EditsStep, WithdrawsStep DEF Next
<1>3. TypeOK /\ Inv /\ [Next]_vars => [Scratches!Next]_Scratches!vars
  BY <1>2 DEF Scratches!vars, Active, Panicked
<1> QED
  BY <1>1, <1>3, Invariance, PTL DEF Spec, ImplementsScratch, Scratches!Spec

(* To the host: no scratch directory or file is there once its call has     *)
(* returned, but for those a panic leaves of the ones removed by hand.      *)
THEOREM NoScratchFileStays == Spec => []Scratches!NothingOutlives
<1>1. Scratches!Init => Scratches!Tidy
  BY DEF Scratches!Init, Scratches!Tidy, Scratches!NothingOutlives
<1>2. Scratches!Tidy /\ [Scratches!Next]_(Scratches!vars) => Scratches!Tidy'
  <2> SUFFICES ASSUME Scratches!Tidy, [Scratches!Next]_(Scratches!vars)
               PROVE  Scratches!Tidy'
    OBVIOUS
  <2>. USE DEF Scratches!Tidy, Scratches!NothingOutlives, Scratches!Leaves
  <2>1. ASSUME NEW c \in Callers, Scratches!Begin(c)
        PROVE  Scratches!Tidy'
    BY <2>1 DEF Scratches!Begin
  <2>2. ASSUME NEW c \in Callers, Scratches!Work(c)
        PROVE  Scratches!Tidy'
    BY <2>2 DEF Scratches!Work
  <2>3. ASSUME NEW c \in Callers, Scratches!HandOver(c)
        PROVE  Scratches!Tidy'
    BY <2>3 DEF Scratches!HandOver
  <2>4. ASSUME NEW c \in Callers, Scratches!Return(c)
        PROVE  Scratches!Tidy'
    BY <2>4 DEF Scratches!Return
  <2>5. ASSUME NEW c \in Callers, Scratches!Panic(c)
        PROVE  Scratches!Tidy'
    <3>1. PICK ds \in SUBSET (ByHand \cap scratch[c]) : scratch' = [scratch EXCEPT ![c] = ds]
      BY <2>5 DEF Scratches!Panic
    <3>2. Active' = Active \ {c} /\ Panicked' = Panicked \cup {c}
      BY <2>5 DEF Scratches!Panic, Active, Panicked
    <3>3. scratch' \in [Callers -> SUBSET Scratch]
      BY <3>1
    <3>4. ASSUME NEW u \in Callers
          PROVE  u \notin Active' => scratch'[u] \subseteq (IF u \in Panicked' THEN ByHand ELSE {})
      BY <3>1, <3>2 DEF Active, Panicked
    <3> QED
      BY <3>3, <3>4 DEF Active, Panicked
  <2>6. CASE UNCHANGED Scratches!vars
    BY <2>6 DEF Scratches!vars
  <2> QED
    BY <2>1, <2>2, <2>3, <2>4, <2>5, <2>6 DEF Scratches!Next
<1>3. Scratches!Tidy => Scratches!NothingOutlives
  BY DEF Scratches!Tidy
<1> QED
  BY <1>1, <1>2, <1>3, FilesKeepScratchContract, PTL DEF ImplementsScratch, Scratches!Spec
=============================================================================
