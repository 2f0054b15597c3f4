----------------------- MODULE DependencyStatusProofs -----------------------
(***************************************************************************)
(* Theorems about helm_dependency_list: for any charts, any content of     *)
(* charts/ and any number of changes to it. That the listing is true needs *)
(* what a single status stands for while the list is being made: as long   *)
(* as charts/ has not changed, the subcharts that were loaded are those    *)
(* that are there, and the archive being looked at still is.               *)
(***************************************************************************)
EXTENDS DependencyStatus, TLAPS

-----------------------------------------------------------------------------
(* Lemmas about operators. *)

LEMMA VersionStatusIs ==
  ASSUME NEW c, NEW d, NEW otherwise \in {"ok", "unpacked"}
  PROVE  /\ VersionStatus(c, d, otherwise) \in {"invalid version", "wrong version", otherwise}
         /\ VersionStatus(c, d, otherwise) = otherwise =>
              Suits(c.version, d)
BY DEF VersionStatus

LEMMA UnpackedStatusIs ==
  ASSUME NEW d, NEW s \in UnpackedStatuses(d)
  PROVE  /\ s \in {"missing", "unpacked", "invalid version", "wrong version"}
         /\ s = "missing" <=> ~ \E c \in loaded : c.name = d
         /\ s = "unpacked" =>
              \E c \in loaded : c.name = d /\ Suits(c.version, d)
<1>1. CASE {c \in loaded : c.name = d} = {}
  BY <1>1 DEF UnpackedStatuses
<1>2. CASE {c \in loaded : c.name = d} # {}
  <2>1. PICK c \in loaded : c.name = d /\ s = VersionStatus(c, d, "unpacked")
    BY <1>2 DEF UnpackedStatuses
  <2> QED
    BY <2>1, VersionStatusIs
<1> QED
  BY <1>1, <1>2

LEMMA ArchiveStatusIs ==
  ASSUME NEW x, NEW d
  PROVE  /\ ArchiveStatus(x, d) \in
              Status \ {"missing", "unpacked", "too many matches", "bad pattern"}
         /\ ArchiveStatus(x, d) = "corrupt" <=> x \notin Chart
         /\ x \in Chart => (ArchiveStatus(x, d) = "misnamed" <=> x.name # d)
         /\ ArchiveStatus(x, d) = "ok" =>
              x \in Chart /\ x.name = d /\ Suits(x.version, d)
BY VersionStatusIs DEF ArchiveStatus, Status

(* What the loader takes of a charts/ directory without broken entries. *)
LEMMA SubchartsType ==
  ASSUME TypeOK, \A e \in Entry : charts[e] # Broken
  PROVE  Subcharts \subseteq Chart
BY DEF TypeOK, Subcharts, There, Content

(* An archive that a glob leaves as the only candidate was there. *)
LEMMA CandidateIsThere ==
  ASSUME NEW d, NEW a \in Candidates(d)
  PROVE  a \in Archives /\ charts[a] # None
<1>1. Globbed(d) \subseteq Archives \cap There
  BY DEF Globbed
<1>2. Candidates(d) \subseteq Globbed(d)
  BY DEF Candidates, Versioned
<1> QED
  BY <1>1, <1>2 DEF There

(* A note: the status of the dependency at hand, and on to the next one. *)
LEMMA NotesIs ==
  ASSUME TypeOK, NEW s \in Status, Notes(s)
  PROVE  /\ status' = [status EXCEPT ![dep] = s] /\ status' \in [Deps -> Status \cup {None}]
         /\ found' = None /\ dep' \in Deps
         /\ \/ pc' = "idle"
            \/ pc' = "glob"
<1>1. Unlisted \subseteq Deps
  BY DEF Unlisted
<1> QED
  BY <1>1 DEF Notes, TypeOK

-----------------------------------------------------------------------------
LEMMA InitType == Init => TypeOK
BY StatusAssumption DEF Init, TypeOK, PC

LEMMA LoadsType ==
  ASSUME TypeOK, Loads
  PROVE  TypeOK'
<1>1. CASE \E e \in Entry : charts[e] = Broken
  BY <1>1 DEF Loads, TypeOK, PC
<1>2. CASE \A e \in Entry : charts[e] # Broken
  BY <1>2, SubchartsType DEF Loads, TypeOK, PC
<1> QED
  BY <1>1, <1>2

(* What a glob, a stat or a load ends in: a note, or a look at one archive. *)
LEMMA NoteType ==
  ASSUME TypeOK, NEW s \in Status, Notes(s), UNCHANGED <<charts, want, loaded, edits>>
  PROVE  TypeOK'
BY NotesIs DEF TypeOK, PC

LEMMA UnpackedType ==
  ASSUME NEW d, NEW s \in UnpackedStatuses(d)
  PROVE  s \in Status
BY UnpackedStatusIs DEF Status

LEMMA LooksType ==
  ASSUME TypeOK, Globs \/ Stats \/ Opens
  PROVE  TypeOK'
<1>1. CASE Globs
  <2>0. UNCHANGED <<charts, want, loaded, edits>>
    BY <1>1 DEF Globs
  <2>1. CASE Notes("too many matches") \/ Notes("bad pattern")
    BY <2>0, <2>1, NoteType DEF Status
  <2>2. ASSUME NEW s \in UnpackedStatuses(dep), Notes(s) PROVE TypeOK'
    BY <2>0, <2>2, NoteType, UnpackedType
  <2>3. ASSUME NEW a \in Archives, found' = a, pc' = "stat", UNCHANGED <<status, dep>>
        PROVE  TypeOK'
    BY <2>0, <2>3 DEF TypeOK, PC
  <2> QED
    BY <1>1, <2>1, <2>2, <2>3 DEF Globs
<1>2. CASE Stats
  <2>0. UNCHANGED <<charts, want, loaded, edits>>
    BY <1>2 DEF Stats
  <2>1. ASSUME NEW s \in UnpackedStatuses(dep), Notes(s) PROVE TypeOK'
    BY <2>0, <2>1, NoteType, UnpackedType
  <2>2. CASE pc' = "open" /\ UNCHANGED <<status, found, dep>>
    BY <2>0, <2>2 DEF TypeOK, PC
  <2> QED
    BY <1>2, <2>1, <2>2 DEF Stats
<1>3. CASE Opens
  BY <1>3, NoteType, ArchiveStatusIs DEF Opens
<1> QED
  BY <1>1, <1>2, <1>3

LEMMA StepType == TypeOK /\ [Next]_vars => TypeOK'
<1> SUFFICES ASSUME TypeOK, [Next]_vars
             PROVE  TypeOK'
  OBVIOUS
<1>1. CASE Begin
  BY <1>1, StatusAssumption DEF Begin, TypeOK, PC
<1>2. CASE Loads
  BY <1>2, LoadsType
<1>3. CASE Globs \/ Stats \/ Opens
  BY <1>3, LooksType
<1>4. ASSUME NEW e \in Entry, NEW x \in Content, Edits(e, x)
      PROVE  TypeOK'
  BY <1>4, StatusAssumption DEF Edits, TypeOK
<1>5. CASE UNCHANGED vars
  BY <1>5 DEF vars, TypeOK
<1> QED
  BY <1>1, <1>2, <1>3, <1>4, <1>5 DEF Next

(* Every variable keeps its type, and a status that is listed is one of    *)
(* those API.md names or, for a name that is no glob pattern, one more,     *)
(* whatever charts/ holds and becomes.                                      *)
THEOREM StatusTypeCorrect == Spec => []TypeOK
BY InitType, StepType, PTL DEF Spec

-----------------------------------------------------------------------------
(* The inductive invariant: what holds while charts/ has not changed since  *)
(* the call began.                                                          *)

(* The chart as it was loaded is what is there, and nothing is broken. *)
Snapshot ==
  pc \in {"glob", "stat", "open"} \/ Listed =>
    loaded = Subcharts /\ \A e \in Entry : charts[e] # Broken

(* The archive that is looked at is there. *)
Looking == pc \in {"stat", "open"} => found \in Archives /\ charts[found] # None

Provided(d) == \E c \in Subcharts : c.name = d

(* A status tells whether an install would find the dependency. *)
Told(d) ==
  status[d] # None =>
    /\ status[d] \in {"ok", "unpacked"} => Satisfied(d)
    /\ status[d] = "missing" => ~ Provided(d)
    /\ status[d] # "corrupt"
    /\ ~ Provided(d) =>
         status[d] \in {"missing", "misnamed", "too many matches", "bad pattern"}

Truth == Snapshot /\ Looking /\ \A d \in Deps : Told(d)

Inv ==
  /\ pc = "load" => \A d \in Deps : status[d] = None
  /\ edits = 0 => Truth

(* A loaded archive of charts/ is a subchart. *)
LEMMA ArchiveIsSubchart ==
  ASSUME NEW a \in Archives, charts[a] # None
  PROVE  charts[a] \in Subcharts
BY DEF Subcharts, There, Entry

LEMMA NoteTruth ==
  ASSUME TypeOK, Truth, pc \in {"glob", "stat", "open"}, NEW s \in Status, Notes(s),
         UNCHANGED <<charts, want, loaded>>,
         s \in {"ok", "unpacked"} => Satisfied(dep),
         s = "missing" => ~ Provided(dep),
         s # "corrupt",
         ~ Provided(dep) => s \in {"missing", "misnamed", "too many matches", "bad pattern"}
  PROVE  Truth'
<1>1. UNCHANGED <<Subcharts, loaded, charts, want>>
  BY DEF Subcharts, There
<1>2. Snapshot'
  BY <1>1 DEF Truth, Snapshot
<1>3. Looking'
  BY NotesIs DEF Looking
<1>4. ASSUME NEW d \in Deps PROVE Told(d)'
  <2>1. Provided(d)' = Provided(d) /\ Satisfied(d)' = Satisfied(d)
    BY <1>1 DEF Provided, Satisfied, Suits
  <2>2. CASE d = dep
    <3>1. status'[d] = s
      BY <2>2, NotesIs DEF TypeOK
    <3> QED
      BY <2>1, <2>2, <3>1 DEF Told
  <2>3. CASE d # dep
    <3>1. status'[d] = status[d]
      BY <2>3, NotesIs DEF TypeOK
    <3> QED
      BY <2>1, <3>1 DEF Truth, Told
  <2> QED
    BY <2>2, <2>3
<1> QED
  BY <1>2, <1>3, <1>4 DEF Truth

(* The statuses of what was loaded are true while that is what is there. *)
LEMMA UnpackedTruth ==
  ASSUME TypeOK, Truth, pc \in {"glob", "stat", "open"}, NEW s \in UnpackedStatuses(dep),
         Notes(s), UNCHANGED <<charts, want, loaded>>
  PROVE  Truth'
<1>1. loaded = Subcharts
  BY DEF Truth, Snapshot
<1>2. s \in Status
  BY UnpackedType
<1>3. s = "unpacked" => Satisfied(dep)
  BY <1>1, UnpackedStatusIs DEF Satisfied
<1>4. s = "missing" <=> ~ Provided(dep)
  BY <1>1, UnpackedStatusIs DEF Provided
<1>5. s \notin {"ok", "corrupt"}
  BY UnpackedStatusIs
<1> QED
  BY <1>2, <1>3, <1>4, <1>5, NoteTruth

LEMMA GlobsTruth ==
  ASSUME TypeOK, Truth, Globs
  PROVE  Truth'
<1>0. pc = "glob" /\ UNCHANGED <<charts, want, loaded>>
  BY DEF Globs
<1>1. CASE Notes("too many matches") \/ Notes("bad pattern")
  BY <1>0, <1>1, NoteTruth DEF Status
<1>2. ASSUME NEW s \in UnpackedStatuses(dep), Notes(s) PROVE Truth'
  BY <1>0, <1>2, UnpackedTruth
<1>3. ASSUME NEW a \in Archives, Candidates(dep) = {a}, found' = a, pc' = "stat",
             UNCHANGED <<status, dep>>
      PROVE  Truth'
  <2>1. UNCHANGED <<Subcharts, loaded, charts, want>>
    BY <1>0 DEF Subcharts, There
  <2>2. Snapshot'
    BY <1>0, <2>1 DEF Truth, Snapshot
  <2>3. charts[a] # None
    BY <1>3, CandidateIsThere
  <2>4. Looking'
    BY <1>3, <2>1, <2>3 DEF Looking
  <2>5. ASSUME NEW d \in Deps PROVE Told(d)'
    BY <1>3, <2>1 DEF Truth, Told, Provided, Satisfied, Suits
  <2> QED
    BY <2>2, <2>4, <2>5 DEF Truth
<1> QED
  BY <1>1, <1>2, <1>3 DEF Globs

LEMMA StatsTruth ==
  ASSUME TypeOK, Truth, Stats
  PROVE  Truth'
<1>0. pc = "stat" /\ UNCHANGED <<charts, want, loaded>>
  BY DEF Stats
<1>1. pc' = "open" /\ UNCHANGED <<status, found, dep>>
  BY <1>0 DEF Stats, Truth, Looking
<1>2. UNCHANGED <<Subcharts, loaded, charts, want>>
  BY <1>0 DEF Subcharts, There
<1>3. Snapshot'
  BY <1>0, <1>1, <1>2 DEF Truth, Snapshot
<1>4. Looking'
  BY <1>0, <1>1 DEF Truth, Looking
<1>5. ASSUME NEW d \in Deps PROVE Told(d)'
  BY <1>1, <1>2 DEF Truth, Told, Provided, Satisfied, Suits
<1> QED
  BY <1>3, <1>4, <1>5 DEF Truth

(* The archive at hand is a chart, as the whole chart was loaded with it; it *)
(* is misnamed if no subchart has the name.                                 *)
LEMMA OpensTruth ==
  ASSUME TypeOK, Truth, Opens
  PROVE  Truth'
<1> DEFINE s == ArchiveStatus(charts[found], dep)
<1>1. /\ pc = "open" /\ Notes(s) /\ UNCHANGED <<charts, want, loaded>>
      /\ found \in Archives /\ charts[found] # None
  BY DEF Opens, Truth, Looking
<1>2. charts[found] \in Subcharts /\ Subcharts \subseteq Chart
  BY <1>1, ArchiveIsSubchart, SubchartsType DEF Truth, Snapshot
<1>3. s \in Status /\ s \notin {"missing", "corrupt", "unpacked"}
  BY <1>2, ArchiveStatusIs
<1>4. s = "ok" => Satisfied(dep)
  BY <1>2, ArchiveStatusIs DEF Satisfied
<1>5. ~ Provided(dep) => s = "misnamed"
  BY <1>2, ArchiveStatusIs DEF Provided
<1> HIDE DEF s
<1> QED
  BY <1>1, <1>3, <1>4, <1>5, NoteTruth

LEMMA LoadsTruth ==
  ASSUME TypeOK, Inv, Loads, edits = 0
  PROVE  Truth'
<1>1. pc = "load" /\ status' = status /\ UNCHANGED <<charts, want>> /\ dep \in Deps
      /\ \A d \in Deps : status[d] = None
  BY DEF Loads, Inv, TypeOK
<1>2. \A d \in Deps : Told(d)'
  BY <1>1 DEF Told
<1>3. ~ Listed'
  BY <1>1 DEF Listed
<1>4. Looking'
  BY DEF Loads, Looking
<1>5. Snapshot'
  <2>1. CASE \E e \in Entry : charts[e] = Broken
    BY <1>3, <2>1 DEF Loads, Snapshot
  <2>2. CASE \A e \in Entry : charts[e] # Broken
    BY <1>1, <2>2 DEF Loads, Snapshot, Subcharts, There
  <2> QED
    BY <2>1, <2>2
<1> QED
  BY <1>2, <1>4, <1>5 DEF Truth

LEMMA StepInv == TypeOK /\ Inv /\ [Next]_vars => Inv'
<1> SUFFICES ASSUME TypeOK, Inv, [Next]_vars
             PROVE  Inv'
  OBVIOUS
<1>1. CASE Begin
  <2>1. /\ pc' = "load" /\ dep' \in Deps
        /\ \A d \in Deps : status'[d] = None
    BY <1>1 DEF Begin, TypeOK
  <2>2. Truth'
    BY <2>1 DEF Truth, Snapshot, Looking, Told, Listed
  <2> QED
    BY <2>1, <2>2 DEF Inv
<1>2. CASE Loads
  <2>1. edits' = edits /\ pc' # "load"
    BY <1>2 DEF Loads
  <2> QED
    BY <1>2, <2>1, LoadsTruth DEF Inv
<1>3. CASE Globs \/ Stats \/ Opens
  <2>1. edits' = edits /\ pc' # "load"
    BY <1>3 DEF Globs, Stats, Opens, Notes
  <2>2. edits = 0 => Truth'
    BY <1>3, GlobsTruth, StatsTruth, OpensTruth DEF Inv
  <2> QED
    BY <2>1, <2>2 DEF Inv
<1>4. ASSUME NEW e \in Entry, NEW x \in Content, Edits(e, x)
      PROVE  Inv'
  BY <1>4, StatusAssumption DEF Edits, Inv, TypeOK
<1>5. CASE UNCHANGED vars
  <2>1. UNCHANGED <<charts, want, pc, loaded, found, status, edits>>
    BY <1>5 DEF vars
  <2>2. UNCHANGED <<Subcharts, Listed>>
    BY <2>1 DEF Subcharts, There, Listed
  <2>3. Snapshot' = Snapshot /\ Looking' = Looking
    BY <2>1, <2>2 DEF Snapshot, Looking
  <2>4. \A d \in Deps : Told(d) => Told(d)'
    BY <2>1, <2>2 DEF Told, Satisfied, Provided, Suits
  <2> QED
    BY <2>1, <2>3, <2>4 DEF Inv, Truth
<1> QED
  BY <1>1, <1>2, <1>3, <1>4, <1>5 DEF Next

LEMMA InitInv == Init => Inv
BY DEF Init, Inv, Truth, Snapshot, Looking, Told, Listed

(* If charts/ has not changed since the call began, the listing tells what  *)
(* an install would do: what it calls ok or unpacked satisfies Chart.yaml,  *)
(* and the pre-flight refuses the chart exactly if a dependency is not to   *)
(* be found, which one of four statuses then says.                         *)
THEOREM ListingTellsTheInstall == Spec => []ListingIsTrue
<1>1. TypeOK /\ Inv => ListingIsTrue
  <2> SUFFICES ASSUME Inv, Listed, edits = 0
               PROVE  ListingIsTrue
    BY DEF ListingIsTrue
  <2>1. \A d \in Deps : status[d] # None /\ Told(d)
    BY DEF Inv, Truth, Listed
  <2>2. Accepted(Subcharts) <=> \A d \in Deps : Provided(d)
    BY DEF Accepted, Provided
  <2> QED
    BY <2>1, <2>2 DEF ListingIsTrue, Told
<1> QED
  BY <1>1, InitType, StepType, InitInv, StepInv, PTL DEF Spec

=============================================================================
