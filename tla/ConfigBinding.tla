---------------------------- MODULE ConfigBinding ----------------------------
(***************************************************************************)
(* Which SDK configuration a release action runs on (docs/DESIGN.md 6;     *)
(* pkg/wrapper/config.go, install.go, upgrade.go, release_actions.go,      *)
(* testing_action.go). A config handle owns one action.Configuration that  *)
(* concurrent calls share through a pointer. An install into another       *)
(* namespace and a list of all namespaces get a configuration of their     *)
(* own, and so does a client-side dry run, because the SDK replaces the    *)
(* kube client and the storage of the configuration it runs on by fakes.   *)
(* Upgrades and rollbacks set the history limit of the storage they run on, *)
(* and installs and upgrades leave the cluster's capabilities behind in it. *)
(* The release records are where the configuration's storage driver keeps  *)
(* them: in the cluster (or a database), or in the memory of the very      *)
(* configuration. One release name is looked at, in every namespace.       *)
(***************************************************************************)
CONSTANTS
  Callers,   \* host threads
  Home,      \* the namespace of the config handle
  Others,    \* other namespaces
  All,       \* "", every namespace
  Clients,   \* registry clients
  NoClient,
  Shared,    \* the place of the configuration all calls share
  Driver,    \* the storage driver of the handle's options
  Limits,    \* the values of max_history
  NoLimit    \* 0, keep every revision

ASSUME BindingAssumption ==
  /\ Home \notin Others /\ All \notin Others \cup {Home}
  /\ NoClient \notin Clients
  /\ Shared \notin Callers
  /\ Driver \in {"cluster", "memory"}
  /\ NoLimit \in Limits

VARIABLES
  conf,   \* action.Configurations, by place: Shared, or private to a call
  pc,     \* where in its call each caller is
  call,   \* its arguments
  on,     \* the place of the configuration its SDK action points to
  got,    \* the registry client its pull uses
  code,   \* what the last call returned
  stored, \* the namespaces whose release is on record, by store
  found,  \* the namespaces the last call listed
  acted,  \* history: the namespace, backend and limit the last call acted with
  bound,  \* history: the client the last helm_config_set_registry_client named
  since,  \* history: the clients bound at some time since the call began
  overwritten, \* history: callers whose limit another has replaced before its use
  installed, \* history: the namespaces with a release installed and not removed
  kept    \* history: those of them that have been so since the list began

callVars == <<pc, call, on, got, code>>
records  == <<stored, found, installed, kept>>
histVars == <<acted, bound, since, overwritten>>
vars     == <<conf, callVars, records, histVars>>

Namespace == Others \cup {Home, All}

Place == Callers \cup {Shared}

Releases == Others \cup {Home}

Configuration == [ns : Namespace, backend : {"live", "fake"}, client : Clients \cup {NoClient},
                  store : Place, limit : Limits, caps : {"none", "cluster", "default"}]

(* What an action may be asked: an install or an upgrade, whose chart is a  *)
(* handle or is pulled; a list; a rollback; an upgrade or a rollback of     *)
(* another release ("elsewhere"); or an action that takes neither a chart   *)
(* nor a limit: uninstall, or another (status, history, get*, test).        *)
Call ==
  [op : {"install"}, ns : Releases, dry : BOOLEAN, pulls : BOOLEAN, max : {NoLimit}]
    \cup [op : {"upgrade"}, ns : Releases, dry : BOOLEAN, pulls : BOOLEAN, max : Limits]
    \cup [op : {"list"}, ns : {Home, All}, dry : {FALSE}, pulls : {FALSE}, max : {NoLimit}]
    \cup [op : {"rollback", "elsewhere"}, ns : {Home}, dry : {FALSE}, pulls : {FALSE}, max : Limits]
    \cup [op : {"uninstall", "other"}, ns : {Home}, dry : {FALSE}, pulls : {FALSE}, max : {NoLimit}]

PC == {"idle", "build", "chart", "client", "run", "act"}

Nowhere == [ns |-> Home, backend |-> "live", limit |-> NoLimit]

Code == {"OK", "Refused", "Failed"}

At(t, l) == pc[t] = l

Goto(t, l) == pc' = [pc EXCEPT ![t] = l]

(* Wrong variant of NewConfiguration: a sibling is built without the storage *)
(* driver of the handle's options, and so keeps its records elsewhere.       *)
NewConfigurationDefaultDriver(ns, p) ==
  [ns |-> ns, backend |-> "live", client |-> NoClient, store |-> p,
   limit |-> NoLimit, caps |-> "none"]

(* newActionConfiguration: a live configuration with no registry client, at *)
(* place p. The memory driver is a new one for each, and empty.             *)
NewConfiguration(ns, p) ==
  [ns |-> ns, backend |-> "live", client |-> NoClient,
   store |-> IF Driver = "memory" THEN p ELSE Shared, limit |-> NoLimit, caps |-> "none"]

(* The changes ever made to a configuration once it is there: a client-side *)
(* install swaps in fakes; the client is bound; upgrades and rollbacks set  *)
(* the limit of its storage; the capabilities, once asked for, stay.        *)
Faked(k, p) ==
  [k EXCEPT !.backend = "fake", !.store = p, !.limit = NoLimit, !.caps = "default"]

WithClient(k, c) == [k EXCEPT !.client = c]

WithLimit(k, m) == [k EXCEPT !.limit = m]

WithCapabilities(k) == [k EXCEPT !.caps = "cluster"]

(* The releases a list of namespace ns is about. *)
Scope(ns) == IF ns = All THEN Releases ELSE {ns}

(* The SDK action of t is built on the configuration at place p; next is    *)
(* step l.                                                                  *)
BuildsOn(t, p, l) ==
  /\ on' = [on EXCEPT ![t] = p]
  /\ Goto(t, l)
  /\ UNCHANGED <<got, code, since, records>>

(* The call is over, and with it the configuration it had to itself and     *)
(* what only that one kept of the records s.                                *)
Return(t, c, s) ==
  /\ Goto(t, "idle")
  /\ code' = [code EXCEPT ![t] = c]
  /\ on' = [on EXCEPT ![t] = Shared]
  /\ conf' = [conf EXCEPT ![t] = NewConfiguration(Home, t)]
  /\ stored' = [s EXCEPT ![t] = {}]
  /\ got' = [got EXCEPT ![t] = NoClient]
  /\ since' = [since EXCEPT ![t] = {}]

-----------------------------------------------------------------------------
Start(t, a) ==
  /\ At(t, "idle")
  /\ call' = [call EXCEPT ![t] = a]
  /\ Goto(t, "build")
  /\ code' = [code EXCEPT ![t] = "OK"]
  /\ acted' = [acted EXCEPT ![t] = Nowhere]
  /\ since' = [since EXCEPT ![t] = {bound}]
  /\ found' = [found EXCEPT ![t] = {}]
  /\ kept' = [kept EXCEPT ![t] = IF a.op = "list" THEN installed ELSE {}]
  /\ UNCHANGED <<conf, on, got, bound, overwritten, stored, installed>>

(* An invalid option, a configuration that does not initialize, a chart     *)
(* that cannot be had.                                                      *)
Fails(t) ==
  /\ pc[t] \in {"build", "run"}
  /\ At(t, "run") => call[t].op \in {"install", "upgrade"}
  /\ Return(t, "Failed", stored)
  /\ UNCHANGED <<call, acted, bound, overwritten, found, installed, kept>>

(* Wrong variant of NewInstall: a client-side dry run is not detached. *)
NewInstallAttached(t) ==
  /\ At(t, "build")
  /\ call[t].op = "install"
  /\ IF call[t].ns = Home
     THEN BuildsOn(t, Shared, "chart") /\ UNCHANGED conf
     ELSE BuildsOn(t, t, "chart") /\ conf' = [conf EXCEPT ![t] = NewConfiguration(call[t].ns, t)]
  /\ UNCHANGED <<call, acted, bound, overwritten>>

(* forNamespace, then detachedConfiguration for a client-side dry run: of   *)
(* the shared configuration, or of the sibling made for the namespace.      *)
NewInstall(t) ==
  LET ns   == call[t].ns
      base == IF ns = Home THEN conf[Shared] ELSE NewConfiguration(ns, t)
  IN /\ At(t, "build")
     /\ call[t].op = "install"
     /\ IF ns = Home /\ ~ call[t].dry
        THEN BuildsOn(t, Shared, "chart") /\ UNCHANGED conf
        ELSE BuildsOn(t, t, "chart") /\ conf' = [conf EXCEPT ![t] = base]
     /\ UNCHANGED <<call, acted, bound, overwritten>>

(* An upgrade keeps to the namespace of its config or is refused. *)
NewUpgrade(t) ==
  /\ At(t, "build")
  /\ call[t].op = "upgrade"
  /\ IF call[t].ns = Home
     THEN BuildsOn(t, Shared, "chart") /\ UNCHANGED conf
     ELSE Return(t, "Refused", stored) /\ UNCHANGED <<found, installed, kept>>
  /\ UNCHANGED <<call, acted, bound, overwritten>>

(* Wrong variant of ListReleases: the shared configuration is initialized   *)
(* again for all namespaces, as the CLI does with its own.                  *)
ListReleasesReinitializing(t) ==
  /\ At(t, "build")
  /\ call[t].op = "list"
  /\ BuildsOn(t, Shared, "run")
  /\ conf' = IF call[t].ns = All THEN [conf EXCEPT ![Shared] = NewConfiguration(All, Shared)] ELSE conf
  /\ UNCHANGED <<call, acted, bound, overwritten>>

ListReleases(t) ==
  /\ At(t, "build")
  /\ call[t].op = "list"
  /\ IF call[t].ns = All
     THEN BuildsOn(t, t, "run") /\ conf' = [conf EXCEPT ![t] = NewConfiguration(All, t)]
     ELSE BuildsOn(t, Shared, "run") /\ UNCHANGED conf
  /\ UNCHANGED <<call, acted, bound, overwritten>>

OtherAction(t) ==
  /\ At(t, "build")
  /\ call[t].op \in {"uninstall", "rollback", "elsewhere", "other"}
  /\ BuildsOn(t, Shared, "run")
  /\ UNCHANGED <<conf, call, acted, bound, overwritten>>

(* pullChartRef tests the shared configuration's client, then reads it      *)
(* again; a typed nil read the second time still means the anonymous one.   *)
PullTestsClient(t) ==
  /\ At(t, "chart")
  /\ Goto(t, IF call[t].pulls /\ conf[Shared].client # NoClient THEN "client" ELSE "run")
  /\ UNCHANGED <<conf, call, on, got, code, records, histVars>>

PullReadsClient(t) ==
  /\ At(t, "client")
  /\ got' = [got EXCEPT ![t] = conf[Shared].client]
  /\ Goto(t, "run")
  /\ UNCHANGED <<conf, call, on, code, records, histVars>>

(* The SDK asks the cluster for its capabilities, unless the configuration  *)
(* has them already.                                                        *)
CachesCapabilities(t) ==
  /\ At(t, "run")
  /\ \/ call[t].op \in {"upgrade", "elsewhere"}
     \/ call[t].op = "install" /\ ~ call[t].dry
  /\ conf[on[t]].caps = "none"
  /\ conf' = [conf EXCEPT ![on[t]] = WithCapabilities(conf[on[t]])]
  /\ UNCHANGED <<callVars, records, histVars>>

SetsLimit(t) == call[t].op \in {"upgrade", "rollback", "elsewhere"}

(* The callers who have set the limit where t sets it, and not yet used it. *)
SetAlready(t) == {u \in Callers \ {t} : At(u, "act") /\ SetsLimit(u) /\ on[u] = on[t]}

(* Wrong variant of Runs: a limit of none leaves the one that is there.     *)
RunsKeepingLimit(t) ==
  LET k == conf[on[t]]
  IN /\ At(t, "run")
     /\ call[t].op = "upgrade" \/ (call[t].op = "install" /\ ~ call[t].dry) => k.caps # "none"
     /\ conf' = IF call[t].op = "install" /\ call[t].dry
                THEN [conf EXCEPT ![on[t]] = Faked(k, t)]
                ELSE IF SetsLimit(t) /\ call[t].max # NoLimit
                THEN [conf EXCEPT ![on[t]] = WithLimit(k, call[t].max)]
                ELSE conf
     /\ overwritten' = IF SetsLimit(t) THEN (overwritten \ {t}) \cup SetAlready(t) ELSE overwritten
     /\ Goto(t, "act")
     /\ UNCHANGED <<call, on, got, code, records, acted, bound, since>>

(* The SDK's RunWithContext or Run, before it reaches the backend: what it  *)
(* writes to the configuration it points to.                                *)
Runs(t) ==
  LET k == conf[on[t]]
  IN /\ At(t, "run")
     /\ call[t].op = "upgrade" \/ (call[t].op = "install" /\ ~ call[t].dry) => k.caps # "none"
     /\ conf' = IF call[t].op = "install" /\ call[t].dry
                THEN [conf EXCEPT ![on[t]] = Faked(k, t)]
                ELSE IF SetsLimit(t)
                THEN [conf EXCEPT ![on[t]] = WithLimit(k, call[t].max)]
                ELSE conf
     /\ overwritten' = IF SetsLimit(t) THEN (overwritten \ {t}) \cup SetAlready(t) ELSE overwritten
     /\ Goto(t, "act")
     /\ UNCHANGED <<call, on, got, code, records, acted, bound, since>>

(* It reaches the backend and the records through the configuration it     *)
(* points to, and a record it adds trims the history to the limit there.   *)
Reaches(t) ==
  LET k == conf[on[t]]
  IN /\ At(t, "act")
     /\ acted' = [acted EXCEPT ![t] = [ns |-> k.ns, backend |-> k.backend, limit |-> k.limit]]
     /\ UNCHANGED <<call, bound, overwritten>>

(* An install needs the name free. One that fails may leave a record of    *)
(* that; a client-side dry run leaves the host with nothing.               *)
Installs(t) ==
  LET st == conf[on[t]].store
      put == [stored EXCEPT ![st] = @ \cup {conf[on[t]].ns}]
  IN /\ Reaches(t)
     /\ call[t].op = "install"
     /\ \/ /\ conf[on[t]].ns \notin stored[st]
           /\ Return(t, "OK", put)
           /\ installed' = IF call[t].dry THEN installed ELSE installed \cup {call[t].ns}
        \/ /\ Return(t, "Failed", put) \/ Return(t, "Failed", stored)
           /\ UNCHANGED installed
     /\ UNCHANGED <<found, kept>>

Lists(t) ==
  /\ Reaches(t)
  /\ call[t].op = "list"
  /\ \/ /\ Return(t, "OK", stored)
        /\ found' = [found EXCEPT ![t] = stored[conf[on[t]].store] \cap Scope(conf[on[t]].ns)]
     \/ Return(t, "Failed", stored) /\ UNCHANGED found
  /\ UNCHANGED <<installed, kept>>

(* An uninstall that fails may have removed the record or not. *)
Uninstalls(t) ==
  LET st == conf[on[t]].store
      ns == conf[on[t]].ns
      removed == [stored EXCEPT ![st] = @ \ {ns}]
  IN /\ Reaches(t)
     /\ call[t].op = "uninstall"
     /\ \/ ns \in stored[st] /\ Return(t, "OK", removed)
        \/ Return(t, "Failed", removed)
        \/ Return(t, "Failed", stored)
     /\ installed' = installed \ {ns}
     /\ kept' = [u \in Callers |-> kept[u] \ {ns}]
     /\ UNCHANGED found

(* An upgrade, a rollback or another action, on the record there is, or on  *)
(* that of another release.                                                 *)
Updates(t) ==
  /\ Reaches(t)
  /\ call[t].op \in {"upgrade", "rollback", "elsewhere", "other"}
  /\ \/ /\ call[t].op = "elsewhere" \/ conf[on[t]].ns \in stored[conf[on[t]].store]
        /\ Return(t, "OK", stored)
     \/ Return(t, "Failed", stored)
  /\ UNCHANGED <<found, installed, kept>>

(* Wrong variant of SetConfigRegistryClient: a nil client changes nothing. *)
SetConfigRegistryClientNonNil(c) ==
  /\ conf' = IF c = NoClient THEN conf
             ELSE [conf EXCEPT ![Shared] = WithClient(conf[Shared], c)]
  /\ bound' = c
  /\ since' = [t \in Callers |-> IF At(t, "idle") THEN {} ELSE since[t] \cup {c}]
  /\ UNCHANGED <<callVars, records, acted, overwritten>>

(* helm_config_set_registry_client: one unlocked write; NoClient unbinds.   *)
SetConfigRegistryClient(c) ==
  /\ conf' = [conf EXCEPT ![Shared] = WithClient(conf[Shared], c)]
  /\ bound' = c
  /\ since' = [t \in Callers |-> IF At(t, "idle") THEN {} ELSE since[t] \cup {c}]
  /\ UNCHANGED <<callVars, records, acted, overwritten>>

-----------------------------------------------------------------------------
Init ==
  /\ conf = [p \in Place |-> NewConfiguration(Home, p)]
  /\ pc = [t \in Callers |-> "idle"]
  /\ call = [t \in Callers |-> [op |-> "other", ns |-> Home, dry |-> FALSE, pulls |-> FALSE,
                                max |-> NoLimit]]
  /\ on = [t \in Callers |-> Shared]
  /\ got = [t \in Callers |-> NoClient]
  /\ code = [t \in Callers |-> "Failed"]
  /\ acted = [t \in Callers |-> Nowhere]
  /\ bound = NoClient
  /\ since = [t \in Callers |-> {}]
  /\ overwritten = {}
  /\ stored = [p \in Place |-> {}]
  /\ found = [t \in Callers |-> {}]
  /\ installed = {}
  /\ kept = [t \in Callers |-> {}]

Acts(t) == Installs(t) \/ Lists(t) \/ Uninstalls(t) \/ Updates(t)

Builds(t) == NewInstall(t) \/ NewUpgrade(t) \/ ListReleases(t) \/ OtherAction(t)

Next ==
  \/ \E t \in Callers :
       \/ \E a \in Call : Start(t, a)
       \/ Builds(t) \/ PullTestsClient(t) \/ PullReadsClient(t)
       \/ CachesCapabilities(t) \/ Runs(t) \/ Acts(t) \/ Fails(t)
  \/ \E c \in Clients \cup {NoClient} : SetConfigRegistryClient(c)

Spec == Init /\ [][Next]_vars

-----------------------------------------------------------------------------
(* Every variable keeps its type. *)
TypeOK ==
  /\ conf \in [Place -> Configuration]
  /\ pc \in [Callers -> PC]
  /\ call \in [Callers -> Call]
  /\ on \in [Callers -> Place]
  /\ got \in [Callers -> Clients \cup {NoClient}]
  /\ code \in [Callers -> Code]
  /\ acted \in [Callers -> [ns : Namespace, backend : {"live", "fake"}, limit : Limits]]
  /\ bound \in Clients \cup {NoClient}
  /\ since \in [Callers -> SUBSET (Clients \cup {NoClient})]
  /\ overwritten \subseteq Callers
  /\ stored \in [Place -> SUBSET Releases]
  /\ found \in [Callers -> SUBSET Releases]
  /\ installed \subseteq Releases
  /\ kept \in [Callers -> SUBSET Releases]

(* A call that succeeds has acted where it was asked to: in its namespace,  *)
(* on the cluster, or on fakes if it is a client-side dry run and only      *)
(* then, whatever ran on the same handle before or meanwhile (DESIGN.md 6;  *)
(* API.md:466-468, 534-543).                                                *)
ActsWhereAsked ==
  \A t \in Callers :
    At(t, "idle") /\ code[t] = "OK" =>
      /\ acted[t].ns = call[t].ns
      /\ acted[t].backend = "fake" <=> call[t].op = "install" /\ call[t].dry

(* What the calls that share a configuration rely on: no action moves it to *)
(* another namespace, backend or storage, or leaves the made-up capabilities *)
(* of a dry run in it, and its registry client changes only by              *)
(* helm_config_set_registry_client (DESIGN.md 6; audit_test.go:54-70). What *)
(* an action may write is the limit and the capabilities of the cluster.    *)
SharedStaysBound ==
  [][LET k == conf[Shared]  k2 == conf'[Shared]
     IN /\ <<k2.ns, k2.backend, k2.store>> = <<k.ns, k.backend, k.store>>
        /\ k2.client # k.client => k2.client = bound' /\ pc' = pc
        /\ k2.caps \in {k.caps, "cluster"}]_vars

(* An upgrade or a rollback trims the history to its own max_history        *)
(* (API.md:464, "parallel actions on different releases"), whatever the     *)
(* actions before it left on the shared configuration. One thing is in its  *)
(* way: an upgrade or a rollback, be it of another release, that writes its *)
(* limit between the call's own write and its use.                          *)
KeepsOwnLimit ==
  \A t \in Callers \ overwritten :
    At(t, "idle") /\ code[t] = "OK" /\ SetsLimit(t) => acted[t].limit = call[t].max

(* A pull uses a client that was bound while the call ran, or none:         *)
(* unsynchronised, but never one that was unbound before the call began     *)
(* (API.md:960-962).                                                        *)
PullUsesBoundClient ==
  \A t \in Callers : ~ At(t, "idle") /\ got[t] # NoClient => got[t] \in since[t]

(* A list shows every release in its scope that has been installed through  *)
(* the handle, with success, and stood there throughout: the record of an   *)
(* install into another namespace "lands there" and a list of all           *)
(* namespaces sees them all (API.md:534-536, 615-616; DESIGN.md 6).         *)
ListsWhatIsInstalled ==
  \A t \in Callers :
    At(t, "idle") /\ code[t] = "OK" /\ call[t].op = "list" =>
      kept[t] \cap Scope(call[t].ns) \subseteq found[t]
=============================================================================
