-------------------------- MODULE DependencyStatus --------------------------
(***************************************************************************)
(* helm_dependency_list (pkg/wrapper/dependency.go): the status of every   *)
(* dependency that Chart.yaml declares. The statuses are computed a second *)
(* time from what action.CheckDependencies and the SDK look at when the    *)
(* chart is installed, half from the chart as it was loaded and half from  *)
(* its charts/ directory as it is a moment later, which another call may   *)
(* be filling.                                                             *)
(***************************************************************************)
EXTENDS FiniteSets, Naturals

CONSTANTS
  Names,      \* names of charts
  Deps,       \* those that Chart.yaml declares
  Longer,     \* of each, the names that begin with it and a dash
  Versions,   \* versions of charts
  Archives,   \* file names in charts/: a base, and what is between it and .tgz
  Dirs,       \* directories in charts/
  Loose,      \* a file name's rest that is no strict version
  Declared,   \* what Chart.yaml may say of a dependency
  None,       \* no such entry
  Broken,     \* an entry that cannot be loaded
  Invalid,    \* a requirement that is no version constraint
  MaxEdits    \* bound on the changes of charts/ in one call

Status == {"ok", "missing", "unpacked", "wrong version", "invalid version", "corrupt",
           "misnamed", "too many matches", "bad pattern"}

(* Whether the name makes a glob pattern, the version that the requirement  *)
(* is spelled like, and the versions that satisfy it.                       *)
Declaration ==
  [glob : BOOLEAN, text : Versions \cup {None}, by : SUBSET Versions \cup {Invalid}]

ASSUME StatusAssumption ==
  /\ Deps \subseteq Names
  /\ Longer \in [Deps -> SUBSET Names] /\ \A d \in Deps : d \notin Longer[d]
  /\ Archives \subseteq [base : Names, rest : Versions \cup {Loose}]
  /\ Declared \subseteq Declaration
  /\ Archives \cap Dirs = {} /\ Loose \notin Versions
  /\ None \notin Status /\ None \notin Versions
  /\ MaxEdits \in Nat

VARIABLES
  charts,   \* what each entry of charts/ is
  want,     \* what Chart.yaml says of each dependency
  pc,       \* where in DependencyList the caller is
  loaded,   \* the subcharts that were loaded with the chart
  dep,      \* the dependency it is at
  found,    \* the archive it looks at
  status,   \* the statuses it has computed
  edits     \* changes of charts/ since it began

vars == <<charts, want, pc, loaded, dep, found, status, edits>>

Chart == [name : Names, version : Versions]

Content == Chart \cup {None, Broken}

Entry == Archives \cup Dirs

PC == {"idle", "load", "glob", "stat", "open"}

-----------------------------------------------------------------------------
There == {e \in Entry : charts[e] # None}

(* What the SDK loads of charts/, unless an entry is broken. *)
Subcharts == {charts[e] : e \in There}

(* action.CheckDependencies, before an install or an upgrade: by name only. *)
Accepted(subs) == \A d \in Deps : \E c \in subs : c.name = d

(* A version equal to the requirement satisfies it, whatever that is. *)
Suits(version, d) ==
  version = want[d].text \/ (want[d].by # Invalid /\ version \in want[d].by)

(* versionStatus, of a chart that was loaded and so has a version. *)
VersionStatus(c, d, otherwise) ==
  IF Suits(c.version, d) THEN otherwise
  ELSE IF want[d].by = Invalid THEN "invalid version" ELSE "wrong version"

(* The last of the subcharts of that name counts. The SDK collects them     *)
(* from a map, in any order.                                                *)
UnpackedStatuses(d) ==
  LET subs == {c \in loaded : c.name = d}
  IN  IF subs = {} THEN {"missing"} ELSE {VersionStatus(c, d, "unpacked") : c \in subs}

(* The pattern dep-*.tgz, *)
Globbed(d) == {a \in Archives \cap There : a.base \in {d} \cup Longer[d]}

(* of whose matches, if they are several, the versioned ones count. *)
Versioned(as, d) == {a \in as : a.base = d /\ a.rest \in Versions}

Candidates(d) == IF Cardinality(Globbed(d)) > 1 THEN Versioned(Globbed(d), d) ELSE Globbed(d)

(* Wrong variant of ArchiveStatus: the archive is taken for what it is named. *)
ArchiveStatusByFile(x, d) ==
  IF x \notin Chart THEN "corrupt" ELSE VersionStatus(x, d, "ok")

ArchiveStatus(x, d) ==
  IF x \notin Chart THEN "corrupt"
  ELSE IF x.name # d THEN "misnamed" ELSE VersionStatus(x, d, "ok")

-----------------------------------------------------------------------------
Unlisted == {d \in Deps : status[d] = None}

(* The loop goes on with another dependency, or the call returns. *)
Notes(s) ==
  /\ status' = [status EXCEPT ![dep] = s]
  /\ found' = None
  /\ IF Unlisted = {dep} THEN pc' = "idle" /\ UNCHANGED dep
     ELSE pc' = "glob" /\ dep' \in Unlisted \ {dep}

Begin ==
  /\ pc = "idle"
  /\ pc' = "load"
  /\ status' = [d \in Deps |-> None] /\ loaded' = {} /\ edits' = 0
  /\ UNCHANGED <<charts, want, dep, found>>

(* The chart is loaded with its subcharts. One that is broken fails it. *)
Loads ==
  /\ pc = "load"
  /\ IF \E e \in Entry : charts[e] = Broken
     THEN pc' = "idle" /\ UNCHANGED <<loaded, dep>>
     ELSE pc' = "glob" /\ loaded' = Subcharts /\ dep' \in Deps
  /\ UNCHANGED <<charts, want, found, status, edits>>

(* packagedStatus. *)
Globs ==
  /\ pc = "glob"
  /\ \/ ~ want[dep].glob /\ Notes("bad pattern")
     \/ /\ want[dep].glob /\ Cardinality(Candidates(dep)) > 1
        /\ Notes("too many matches")
     \/ /\ want[dep].glob /\ Candidates(dep) = {}
        /\ \E s \in UnpackedStatuses(dep) : Notes(s)
     \/ \E a \in Archives :
          /\ want[dep].glob /\ Candidates(dep) = {a}
          /\ found' = a /\ pc' = "stat"
          /\ UNCHANGED <<status, dep>>
  /\ UNCHANGED <<charts, want, loaded, edits>>

(* Wrong variant of Stats: the open question is listed. *)
StatsEmpty ==
  /\ pc = "stat"
  /\ IF charts[found] = None THEN Notes("")
     ELSE pc' = "open" /\ UNCHANGED <<status, found, dep>>
  /\ UNCHANGED <<charts, want, loaded, edits>>

(* archiveStatus: an archive that has gone leaves the question open, *)
Stats ==
  /\ pc = "stat"
  /\ IF charts[found] = None
     THEN \E s \in UnpackedStatuses(dep) : Notes(s)
     ELSE pc' = "open" /\ UNCHANGED <<status, found, dep>>
  /\ UNCHANGED <<charts, want, loaded, edits>>

(* and one that is there is loaded. *)
Opens ==
  /\ pc = "open"
  /\ Notes(ArchiveStatus(charts[found], dep))
  /\ UNCHANGED <<charts, want, loaded, edits>>

(* Another call changes charts/, an update of the dependencies say. *)
Edits(e, x) ==
  /\ edits < MaxEdits
  /\ charts' = [charts EXCEPT ![e] = x]
  /\ edits' = edits + 1
  /\ UNCHANGED <<want, pc, loaded, dep, found, status>>

Init ==
  /\ charts \in [Entry -> Content]
  /\ want \in [Deps -> Declared]
  /\ pc = "idle" /\ loaded = {} /\ found = None /\ edits = 0
  /\ dep \in Deps
  /\ status = [d \in Deps |-> None]

Next ==
  \/ Begin \/ Loads \/ Globs \/ Stats \/ Opens
  \/ \E e \in Entry, x \in Content : Edits(e, x)

Spec == Init /\ [][Next]_vars

-----------------------------------------------------------------------------
(* Every variable keeps its type; a status is one of those API.md:929-930   *)
(* names or, for a name that is no glob pattern, one more.                  *)
TypeOK ==
  /\ charts \in [Entry -> Content]
  /\ want \in [Deps -> Declared]
  /\ pc \in PC
  /\ loaded \subseteq Chart
  /\ dep \in Deps
  /\ found \in Archives \cup {None}
  /\ status \in [Deps -> Status \cup {None}]
  /\ edits \in 0..MaxEdits

Listed == pc = "idle" /\ \A d \in Deps : status[d] # None

Satisfied(d) == \E c \in Subcharts : c.name = d /\ Suits(c.version, d)

(* If charts/ has not changed since, the statuses of helm_dependency_list   *)
(* tell what an install will do. It is given every dependency said to be ok *)
(* or unpacked in a version that satisfies Chart.yaml; it is refused by the *)
(* pre-flight of ensureDependencies if one is said to be missing, and only  *)
(* if one is missing or misnamed, there are too many, or it is looked for   *)
(* by a bad pattern; and nothing is said to be corrupt, as the chart itself *)
(* would not have been loaded.                                              *)
ListingIsTrue ==
  Listed /\ edits = 0 =>
    /\ \A d \in Deps :
         /\ status[d] \in {"ok", "unpacked"} => Satisfied(d)
         /\ status[d] = "missing" => ~ Accepted(Subcharts)
         /\ status[d] # "corrupt"
    /\ ~ Accepted(Subcharts) =>
         \E d \in Deps :
           status[d] \in {"missing", "misnamed", "too many matches", "bad pattern"}
=============================================================================
