# helm-c-sdk in TLA+

helm-c-sdk wraps the Go Helm SDK in a C ABI: a host program (in any language)
holds 64-bit handles to Go objects and calls `helm_*` functions from any thread.
This directory holds TLA+ models of that library, TLC configurations that check
them on small instances, and TLAPS proofs of their main properties for every
value of the constants. Source references are to files of the repository,
`API.md`, `DESIGN.md` and `MEMORY.md` to those under `docs/`.

## 1. Inventory

| Component | Source | State | Operations |
|---|---|---|---|
| Handle registry | `internal/handles/handles.go` | `nextID`, `entries` under one mutex | Put, Get, Free, FreeTyped, Count |
| C shims | `capi/*.go` | the objects behind the handles; per call, how far it is | `*_new`, `*_load*`, `*_free`, `helm_handle_free`, `helm_context_cancel`, and every shim that resolves handles and runs the wrapper |
| Configs | `pkg/wrapper/config.go` | `action.Configuration`, the options it was built from, the private kubeconfig file | NewConfig, Close, forNamespace, detachedConfiguration |
| Contexts | `capi/config.go` | cancelled or not | new, cancel, free |
| Log bridge | `capi/logging.go`, `pkg/wrapper/logging.go` | callback, user_data and level under `logCBMu`; the handler of new configs under `logMu` | `helm_set_log_handler`, Enabled, Handle, CurrentLogHandler |
| Install, upgrade | `pkg/wrapper/install.go`, `upgrade.go`, `actions.go` | the call's own; a release in the cluster; the SDK's goroutine | actionPrologue, option handling, chart resolution, RunWithContext, finishRelease |
| Chart resolution | `actions.go`, `distribution.go`, `dependency.go`, `settings.go` | scratch directories; a chart directory's `charts/` | pullChartRef, PullChart, ensureDependencies, dependencyManager, DependencyUpdate, reload |
| Error codes | `pkg/cerrors/cerrors.go`, `capi/convert.go` | none | WithCode, FromError, wrapActionError, recoverToCode |
| Rendering | `pkg/wrapper/render.go` | the subcharts of a loaded chart, processed in place | `helm_render`, `helm_render_with_config` |
| Release queries | `pkg/wrapper/release_actions.go` | the shared configuration | list, status, history, get |
| Registry client | `capi/registry.go`, `testing_action.go`, `registry.go` | a client; the client bound to a config | new, login, logout, push, `helm_config_set_registry_client` |
| Calls on a release | `release_actions.go`, `testing_action.go` | release records and test pods of the cluster | uninstall, rollback, history, status, get, helm test |
| Chart files | `package.go`, `repo.go`, `distribution.go`, `verify.go` | archives, `.prov` files, `index.yaml`, `index.json` | package, sign, verify, index, pull, show |
| Dependency list | `dependency.go` | a chart directory's `charts/` (read) | DependencyList |
| Chart content, lint, strvals, JSON options | `chart.go`, `lint.go`, `strvals.go`, `values.go`, `json.go` | none | pure functions of their input |

How they interact. A shim resolves each handle argument with one registry call,
drops the registry's mutex, and works on the object, which nothing pins: another
thread may free the handle meanwhile. A config is shared by concurrent actions
through a pointer; so is a chart. Actions log through the handler their config
captured when it was made, which calls back into the host. A context is shared
by the thread that waits on it and the one that cancels it.

What is hard here:

- **Concurrency at the handle level.** Only registry methods are atomic. A typed
  free is a lookup, a hook and a release; finalizers of garbage-collected hosts
  free from threads of their own. Required: a handle never denotes another
  object, type tags can be trusted, one of several racing frees succeeds, no
  private file is left behind, a freed context has been cancelled.
- **Callbacks.** The host frees the user_data of a callback it has replaced
  while goroutines are logging. Required: the old callback never runs after the
  replacing call has returned; neither side starves.
- **Cancellation.** Context checks are far apart, with downloads in between, and
  a cancelled call leaves the SDK's goroutine running, after the SDK has dealt
  with the failure on the cluster. Required: a return code tells the host the
  truth about what is left behind; a call waiting on the cluster does come back.
- **Partial failure.** Scratch directories nest three deep and are removed by
  `defer` here and by hand there. Required: none survives its call. A test run
  has three steps that fail on their own; the host has to hear of the first, and
  the test pods that no policy keeps have to go whatever failed.
- **Files in several steps.** An archive is written and then read back to be
  signed; an index is built, merged and written twice; directories are not
  locked. Required: what a call says of its files is true if nobody else was at
  work there.
- **A second opinion.** `helm_dependency_list` computes from the file system what
  an install later computes from the loaded chart. Required: the two agree.
- **Shared mutable objects.** The SDK mutates charts and configurations it is
  given. Required: it is known exactly what one call's change to a chart or a
  configuration can do to the result of another.

`PROJECT.json` lists each of these hazards at its line with the properties that
speak about it.

## 2. Plan

Order: the handle store first, since everything else goes through it; then what
the host relies on most (callbacks, cancellation); then shared objects; then the
cluster's records and the files of the host.

| # | Module | Builds on | State |
|---|---|---|---|
| 1 | `HandleContract`: what handles promise (abstract) | | |
| 2 | `HandleRegistry`: the store | implements 1 | proved, in the module of 3 |
| 3 | `HandleShims`: every shim at the handle level | composes 2 with configs' files and contexts; implements 1 | checked, proved |
| 4 | `RWMutex`, `LogContract` (abstract), `LogBridge` | the lock is an instance; implements the contract | checked, safety proved |
| 5 | `ActionErrors`: how failures become codes | | used by 7, 10, 11 |
| 6 | `ScratchContract`: what calls promise of private directories (abstract) | | |
| 7 | `ChartActions`: install and upgrade | 5; implements 6 | checked, safety proved |
| 8 | `ChartSharing`: rendering of shared charts | | checked, proved |
| 9 | `ConfigBinding`: configurations of actions and where records go | | checked, proved |
| 10 | `ReleaseCalls`: helm test, uninstall, rollback, history, get | 5 | checked, proved |
| 11 | `ChartFiles`: packages, signatures, indexes, pulls, shows | 5; implements 6 | checked, proved |
| 12 | `DependencyStatus`: the list of dependencies | | checked, proved |

Left, in this order:

1. Installs on a chart handle prune the chart as a render does: compose
   `ChartActions` with `ChartSharing`.
2. Sibling configurations re-read a private kubeconfig that `helm_config_free`
   may have removed by then: compose `ConfigBinding` with the file of
   `HandleShims`.
3. Proofs: an abstract specification of configurations, in which an action has
   one of its own, and that `ConfigBinding` implements it.

## 3. Modules and how they correspond to the code

**HandleRegistry.** `nextID` and `entries` are the fields of `Registry`
(`entries` a function from live ids to `[typ, obj]`). Every method holds
`Registry.mu` throughout, so each is one action. `LookupCode` is the error path
Get and FreeTyped share. `HandleContract` knows only which ids were issued for
which object and which are live; the refinement maps `issued` to `1 .. nextID`.

**HandleShims.** The contract of handles holds for the shims as a whole
(`ImplementsContract`), not only for the registry under an orderly client. One process per host thread. `pc` names the next step of the
thread's call, `call` its operation and handle, `held` what it has resolved,
`todo` the handle arguments it still has to. Creation is
`StartNew` (inline kubeconfig content reaches the disk here), `BuildOK`,
`BuildFails` or `BuildPanics`, `PutNew`. Only a build that returns an error removes
the file (config.go:153); nothing defers that, so a panic leaves it. A typed free is `LookupHits`, then for a config
`CloseCheck`, `CloseRemove`, `CloseClear` (or `CloseTorn`, the unsynchronised
read of a string while another Close clears it), for a context `CancelHook`,
then `TypedRelease`; charts and registry clients have no hook and go straight to
the release. `helm_handle_free` is `HandleRelease` alone. All other shims are
`StartUse` with one of the `Requests`, one `Resolve` step per handle, and
`Finish`. The registry is used through its own operators only. `past`,
`typedFreed`, `handleFreed`, `okFrees` and `lost` (objects whose construction
panicked) are history. Requests that differ only
in what the wrapper computes are merged.

**RWMutex, LogBridge.** `RWMutex` is external: the three facts about Go's lock
the bridge relies on (a waiting writer keeps new readers out; it waits for the
readers inside; queued readers go before the next writer). Setters are host
threads in `helm_set_log_handler`: `SetLocks`, `SetWrites`, `SetSwaps` are the two
critical sections. Loggers are goroutines: `EnabledLocks`, `EnabledYes/No`,
`HandleLocks`, `HandleDrops` or `HandleCalls`, `CallbackReturns`. A logger either
belongs to a config, whose `captured` handler is fixed, or is a `handlerWriter`,
which reads the current one per record. `retired` is the set of callbacks whose
replacing call has returned, `alone` says whether the set call that began last
began with no other under way, `least` is the least minimum in force since each
logger's record began. `LogContract` is the host's view: the registered callback,
the one each logger is in, and those given back. The refinement maps them to
`logCB`, to `arg` while the callback runs, and to `retired`; the locks and the
queue vanish.

**ActionErrors.** An error is the list of codes wrapped around a cause. `WithCode`,
`Coded` (New), `FromError` and `WrapActionError` are the functions of the code.
`FromError` takes the outermost code, as `errors.As` does.

**ScratchContract.** A call has no private directory before it begins and after
it returns, and none while the SDK acts on the cluster for it (`HandOver`). After
a panic only those may be left that no deferred function removes yet (`ByHand`).

**ChartActions.** One process per calling thread. The steps follow the source:
`ActionPrologue` (the only look at the context), `Configure`, then
`ResolveInvalid`, `ResolveLocal` or `ResolveRemote` / `Pull` / `Download` /
`LoadPulled`, `EnsureDependencies` and, if some are missing and may be fetched,
`DependencyManager` / `UpdateBegins` / `UpdateEnds` / `Reload`, and `Enters`. The
SDK's update works on files that two calls on one directory share: it clears
outdated ones away first, so that meanwhile `charts/` may lack what it had, and one
that met another (`crowded`, history) may end with it incomplete; nobody looks at
the reloaded chart again (actions.go:315). `scratch` is
the set of directories the call has on disk. The SDK's `RunWithContext` is
external: `RunEnds` (it fails early, or it is a dry run), or `RunLaunches`, after
which the goroutine (`Applies`) runs beside the select (`SelectCancelled`,
`SelectResult`). A select that ends in a failure is followed by the SDK's own
`FailRelease`, on the cluster and without a context, before the call returns: it
marks the record failed or, for an install with rollback_on_failure (`undo`),
removes it. `Panics` may strike wherever the SDK has the call. Install and
upgrade are merged where they take the same path. `ImplementsScratch` maps the
call's directories to the contract; it is handed over while it waits on the SDK.

**ChartSharing.** A chart is the set of subcharts it still has; any thread renders
any chart. A render
refuses bad values (`PrepareRender`), processes the dependencies in two steps
(`ProcessReads` decides, `ProcessWrites` writes the list back), checks the schema
(`ToRenderValues`) and renders what the chart has by then (`Renders`). `from` is what
the processing read, `first` the calls that read a chart nobody had processed,
`disturbed` the calls whose chart another has written since they read it, or since
they wrote it themselves. The properties say what sharing costs: a render is of one
instant unless a write falls between its own write and its rendering; what is
pruned comes back only by a call that read the chart before.

**ConfigBinding.** `conf` maps a place (the shared configuration, or one a call
has of its own) to its namespace, backend, registry client, record store, history
limit and cached capabilities; `on` is the place
a call's SDK action points to. `NewInstall` derives a sibling for another
namespace and detaches for a client-side dry run; `NewUpgrade` refuses another
namespace; `ListReleases` builds its own for all namespaces; `OtherAction` covers
the rest. What the SDK writes to the configuration it runs on is external:
`CachesCapabilities` keeps the cluster's capabilities there; `Runs` swaps in fakes for
a client-side install and assigns `Releases.MaxHistory` for an upgrade or a rollback,
which the storage reads when the revision is added. `overwritten`, history, are the
calls whose limit another has replaced in between, be it for another release
(`"elsewhere"`). `PullTestsClient` and
`PullReadsClient` are the two unlocked reads. `Installs`, `Lists`, `Uninstalls`
and `Updates` act through the configuration on the records of its store: with a
driver outside of the process all live configurations share one (`Shared`), with
the memory driver each has its own, and that of a private configuration is gone
when its call returns. One release name is followed, in every namespace;
`installed` and `kept` are history.

**ReleaseCalls.** Several threads call on one release; the host serializes those
that write (API.md:465). `Prepare` is the handling of options (`Timeout` with Go's
wrapping multiplication, `ParseDryRun`). `TestRuns`, `TestCollects`,
`TestShutsDown`, `TestFinishes` are the four steps of TestRelease. `TestRuns` ends in one
of the ways the SDK's run does: `FailsEarly`, `HooksPass`, `HookFails`, or a panic.
`ran` is what it handed back: a release with hooks or not, no shutdown function, one
that does nothing (also when a later hook could not be created although earlier pods
are there), or that of a run that failed or succeeded, and whether the delete policy
of some hook keeps its pod. `Shutdown` deletes what no policy keeps; a refused deletion
is an error after a run that passed, and only logged after one that failed. `Uninstalls`, `RollsBack`
and `Queries` are one step on the records each, `HistoryReads`, `HistorySorts`,
`HistoryCuts` the three of HistoryRelease. `failed`, `panicked`, `refused`, `seen` and
`wrote` are history: what really happened, against which the code and result the
host gets are compared.

**ChartFiles.** One process per calling thread, on chart directories and
directories of archives that threads may share. Per directory and chart there is
an archive and the content its `.prov` signs, per directory what `index.yaml` and
`index.json` list; contents are model values, `Partial` is a file cut short or
mixed. Packaging is `DependencyDir` / `DependencyManager` / `DependencyUpdate` if
asked for, `PackageSaves`, `PackageWrites`, and for a signed one, or
`helm_chart_sign`, `SignChecks`, `SignReads`, `SignWrites`. An index is `IndexReads`,
`IndexMerges`, `IndexWritesYAML`, `IndexWritesJSON`. `PullDir`, `PullSaves`, `RepoDir`,
`RepoGets` and the `Show...` actions are the rest. `Edits` and `Withdraws` are the
host's. `alone` is history: the callers with no other filing call in their
directory since they began.

**DependencyStatus.** One call of DependencyList over a `charts/` directory that is
any function from its possible entries to what they are: nothing, broken, or a
chart with name and version. What `Chart.yaml` says of a dependency is a
`Declaration`: whether the name makes a glob pattern ("bad pattern" if not), the version
it is spelled like (which satisfies it even if it is no constraint), and the versions
that satisfy it. `Loads` loads the chart with what is there; then per
dependency `Globs`, `Stats`, `Opens` look at the directory again. `Edits` is another
call changing it in between. The order in which the SDK hands out subcharts is a
choice.

**Wrong variants.** Next to some actions stand operators commented "Wrong variant
of ...": the same action with a plausible bug (a hook dropped, a lock not taken,
an id recycled). Nothing in the specifications uses them. Put in the action's
place they make the property named in `PROJECT.json` fail, which shows that the
property depends on that piece of the code.

## 4. Runs

| Run | Instance | Shows |
|---|---|---|
| `MCHandleShims` | 2 threads, 2 objects, 2 ids | all handle properties of section 3, and that the shims together keep the handle contract |
| `MCLogBridge` | 2 setters, 2 loggers, 1 config, 1 callback besides NULL | no callback after its replacement has returned; the swap is atomic to the host; callback and handler agree after calls that did not overlap; delivered records met a minimum of their time; no wait is circular; set calls return, records end |
| `MCChartActions` | 2 calls, 1 context, 1 directory, rollback_on_failure or not | what return codes and scratch directories promise, under cancellation, failures and panics anywhere; only overlapping updates of a directory let an incomplete chart through |
| `CancelReturns` | 1 call | a cancelled call waiting on the cluster returns once the SDK's failRelease has ended, whatever its goroutine does; if downloads and calls of the SDK end, a cancelled call returns from everywhere |
| `MCChartSharing` | 2 threads, 2 charts, 2 subcharts, any thread any chart | a render is of one instant, and the first of a chart exact, unless another wrote the chart between the call's own write and its rendering; what is pruned comes back only by a call that read before another wrote |
| `MCConfigBinding` | 2 calls, 1 other namespace, 1 client, 2 history limits, records in the cluster | actions act where asked and within their own limit; no action moves the shared configuration; lists show what stood installed |
| `MCReleaseCalls` | a writer and a reader of history, 2 revisions, a Duration of 16 values | first failure told, pods removed that no policy keeps, logs whole, newest revisions kept, options obeyed |
| `MCChartFiles` | 2 threads, 1 directory, 1 chart, 2 contents | signatures verify, indexes are true, no scratch file stays |
| `MCDependencyStatus` | 2 declared charts, one's name a prefix of the other's; 3 archive names, 1 directory, 2 versions, 6 kinds of requirement, 1 edit | statuses tell what an install will do |

Three runs end in a counterexample, since the code does not do what its
documentation says:

| Run | What happens |
|---|---|
| `CancelledNeverReachesSDK` | a context cancelled during chart resolution reaches `RunWithContext` already cancelled |
| `DisabledNeverRenders` | two threads render one chart handle and a disabled subchart is rendered |
| `MemoryDriver` | with `storage_driver` "memory", a release installed into another namespace is on no list: the sibling configuration has a memory of its own |

Further disagreements noticed while modelling, for which no run is kept. Where a
property of a passing run names the case as its exception, that is said:

- Handles. `helm_config_free` removes the kubeconfig before it releases the
  handle (extra.go:117), against config.go:47-48 ("after the handle is released")
  and 26-27; between the two a call can resolve a config without its file.
  `helm_handle_free` skips the hooks, so the kubeconfig of a config freed so stays
  on disk although the live count is 0 (API.md:94-96). So does that of a config whose
  construction panics (config.go:153); `NoOrphanKubeconfig` names both. A free racing a free can
  return `HELM_ERR_PANIC` (API.md:477). A config freed under a running action takes
  the action's kubeconfig away.
- Log bridge. Two set calls that overlap can leave a registered callback that new
  configs are not wired to, or the reverse (logging.go:124-135 takes two locks in
  turn; API.md:709 calls the swap atomic): `HalvesAgree` therefore speaks of calls
  that did not. A record below the minimum level is delivered when the level is
  raised between Enabled and Handle (API.md:695); `LevelWasMet` is what holds
  instead; replacing a callback affects configs made
  earlier, too (logging.go:114).
- Cancellation. A cancelled call stays in the download of its chart as long as
  that lasts (actions.go:262; API.md:527-528, 487-488): `CancelledComesBack` assumes
  that downloads end. A deadline of the SDK's own is reported as
  `HELM_ERR_CANCELLED` with no context at all (API.md:527, actions.go:55-56).
  A cancelled install with rollback_on_failure (install.go:123) is uninstalled by the
  SDK before it returns and leaves no record, against API.md:493 ("A cancelled install
  therefore still ends up with a release record"); `CancelledLeavesRecord` names the
  option. That work and every other failRelease is done on the cluster with no
  context, so a cancelled call is not bound to return promptly (API.md:526-527):
  `CancelReturns` assumes that failRelease ends.
- Configurations. "The shared configuration is never re-initialized or mutated by an
  action" (API.md:466-467; DESIGN.md 6): the SDK assigns `Releases.MaxHistory` for
  upgrades and rollbacks (upgrade.go:108, release_actions.go:120) and caches the
  capabilities there, with no lock; `SharedStaysBound` says what stays. So two
  upgrades or rollbacks of different releases at once (API.md:464) can trim one
  history to the limit of the other: the exception of `KeepsOwnLimit`.
- Dependencies. After its own update an install loads the chart again and does not
  check it (actions.go:315): with another update of the directory under way, a chart
  that lacks a dependency reaches the SDK, against API.md:520-522. The caveat of
  API.md:666 stands at `helm_dependency_update` only. It is the exception of
  `OnlyWholeChartsRun`.
- Test pods. A pod stays after a successful test run if the delete policy of its hook
  keeps it, as the default does, against API.md:997-998; `PodsCleanedUp` is about the
  others.
- Codes. `FromError` takes the outermost code where its comment says innermost
  (cerrors.go:63-71); so a config without a REST client gives KUBE in
  collectTestLogs (testing_action.go:89) and RELEASE to the host. Install and
  upgrade return IO, REPO and REGISTRY codes their table does not list
  (API.md:565); so do `helm_package_run` (CHART_LOAD, IO, REGISTRY; API.md:259) and
  `helm_pull` (IO).
- Files. `helm_package_run` is "Thread-safe yes" (API.md:260), but two of them into
  one directory can mix one archive, and both return OK. Packages with
  `dependency_update` update a shared chart directory at once.
- Others. A loaded chart is not immutable (API.md:157). `helm_show` does not use a
  client bound to a config (API.md:961): it takes none. Timeouts beyond 2^63 ns
  wrap (actions.go:129). The status "bad pattern" (dependency.go:191)
  is not among those listed (API.md:929-930). The status "corrupt" (API.md:929) cannot be listed for a
  directory that does not change, since the chart itself then fails to load; with
  two subcharts of one name the status depends on the order of a map.

**Bounds.** Handles: two threads suffice for every race of two calls (each
property speaks of two calls at most, one of them in the past), two objects for
confusion between objects and between types, two ids for an id that is stale
while another is live; handles of every type, 0, stale and made-up ones are
passed to every shim. Callbacks: one callback and NULL give "set, clear,
deliver" in every interleaving, and a second setter the lock's writer queue; a
callback registered again after it was replaced is not modelled (its user_data
would be the host's to keep alive). Actions: two calls meet in one directory and
one context. Renders: two threads on one chart, each with any values at any time, make
every overlap of a read, a write and a rendering; the second chart is one to disturb
by mistake. Configurations: the home namespace, another, and
all; one client and none; one history limit and none. There the runs' VIEW leaves out
of the state what no step and no property of the main run can tell apart: the limit
and the other details of calls that are over. Releases: with two revisions a list can be out of order
and a history cut; a second is 3 units of a Duration that wraps at 8, so that 2
seconds fit and 3 do not. Files: the properties speak of one directory and one
chart in it at a time, of two contents an old and a new one; the second caller
is what ends a caller's being alone. Dependencies: a name that is the prefix of
another, a versioned and an unversioned archive of it, one of the other and a
directory are what the statuses tell apart, with requirements of one version, any and
none, an invalid one, one that is invalid but spelled like the version, and a name
that is no pattern; every content of them is a start, and
one edit is enough to fall between any two looks. No state is cut off by a
constraint: the bounds are the constants, MaxID, MaxRevision, MaxEdits, and the
finite sets of callbacks and configs. The proofs below remove all of them for
safety.

Deadlock is checked in all runs.

**Fairness.** Used in `MCLogBridge` and `CancelReturns` only.
In `LogBridge` a goroutine or thread inside a call is scheduled (weak fairness),
and the callback returns, as its contract demands; taking the writers' mutex has
strong fairness because Go's `sync.Mutex` hands over to a waiter that has
starved. Nothing has to start a call. In `ChartActions` only the library's own
computing steps and a ready case of the SDK's select are fair: a download, a
cluster, the SDK's failRelease and its goroutine owe nothing. What a property needs of them it
states itself: `CancelReturns` that failRelease ends, `CancelledComesBack` that each
download and each call of the SDK does.

## 5. Proofs

Each `...Proofs` module extends its model. Assumptions are the named ASSUMEs of the models
(distinctness of the constants' sentinels, `MaxID \in Nat`); no set need be
finite. `PROJECT.json` lists the theorems.

- **HandleShimsProofs.** The registry alone first: its types, and that it implements
  `HandleContract` step by step, for any client. Then the shims. Their properties are not inductive: they speak of what the
  history says of a handle, and an action knows only its call. The invariant has
  layers. `TypeInv` adds to the types that a call past its lookup has an object.
  `Linked` ties the registry to the history: what is live under an id, and what
  any call has resolved, is what the id was issued for, and an object under
  construction is nobody else's; `NeverAliases` and `TypeTagHolds` follow.
  `Clean` says that a free that is about to release has already removed the file
  or cancelled the context and that nobody puts it back, and that a file without a
  config in the making or a handle is one of those `lost`; `NoOrphanKubeconfig` and
  `FreedContextIsCancelled` follow. `StaleMisses` follows a stale free through
  its steps. `LeakProbeBalances` is an argument on cardinalities over
  `EntriesFinite`. That the shims take only the registry's steps needs no
  invariant; that they keep the handle contract (`ShimsKeepContract`) follows from
  this and the registry's own refinement. `HandlesAreForGood` says what the contract
  is worth: it follows from the contract's steps alone.
- **LogBridgeProofs.** `BridgeInv`: a running callback is the registered one (its
  logger holds a read lock, so no writer can have replaced it); a replaced
  callback is neither registered nor about to be; what a set call brings is
  nobody else's. `NoStaleUserData` follows, and so does the refinement of
  `LogContract`: a write is a registration while nothing runs, a swap gives back
  what it replaced, and nobody is in that. `LevelInv`: the least minimum of a
  record is never above the one in force, so `EnabledYes` settles `LevelWasMet`.
  `LockInv`: who queues for the lock is not inside, and waits at `Enabled` or
  `Handle`; with it, `NobodyIsStuck` is inductive. `AloneInv`: as long as `alone` holds, at
  most one setter is in its call, and where it stands says which half is ahead;
  `HalvesAgree` follows.
- **ChartActionsProofs.** Per caller, `Path` says what is settled at each step
  (which scratch directories exist, whether the SDK was entered, whether there
  is a record, that the chart is whole past the checks) and `Outcome` what a
  return code means. A step of another caller only adds to what is cancelled, and takes
  something away from a directory only by an update, which makes `crowded` whoever is
  between an update of his own and its end; the chart is whole for all others. All safety properties follow from the two, and so does the refinement
  of `ScratchContract`: each action is a step of the contract or a stutter. From the
  contract alone, nothing outlives its call (`NoScratchOutlivesItsCall`).
- **ChartSharingProofs.** For any host that shares its charts as it likes. `Progress`
  follows a render through its steps: what it keeps is what it read less what its values
  disable, and as long as it is not `disturbed` the chart is that until it renders. A
  write of another call on the chart disturbs it by definition of the history, so the
  argument is that no other step touches the chart or what was read of it. A chart
  nobody has processed is as loaded, so a `first` read is of all subcharts.
- **ConfigBindingProofs.** `SharedInv` (the shared configuration keeps the
  namespace, backend and store it was created with, and the client last bound), `Fits` (the place a call points to matches its
  request, and one that will be faked is its own), `Done`, `Seen`;
  `Set` adds that the limit a call has set, and nobody since, is the one that is there
  (`LimitsAreTheirOwn`); `RecInv` adds
  that live configurations share one store, under the assumption that the driver
  is one outside of the process, without which `InstalledReleasesAreListed` is
  false (`MemoryDriver`).
- **ReleaseCallsProofs.** Callers share only the records, so the invariant is
  `Path` of each: on the way, the error so far has the cause of the first failure
  (`OnTheWay`), at the return so has the code (`Settled`); `Testing` follows pods,
  shutdown functions and logs through the four steps, `Told` the list of revisions, `Asking` and `Given` the
  options. `WrappedIs` is the arithmetic of a Duration, `CutIs` that the last `max` of
  an ascending list are its greatest.
- **ChartFilesProofs.** `Belongs` ties steps to operations. For a caller that is
  alone, `Intact` says how far its files are along and `Apart` that nobody else is
  filing in its directory, so that no other step touches them; the three
  properties follow. `FilesKeepScratchContract` is the refinement, action by action.
- **DependencyStatusProofs.** While `charts/` has not been edited, `Snapshot` ties the
  loaded chart to the directory, `Looking` what the last look found, and `Told` each
  status already given to what an install would find; `ListingIsTrue` is `Told` at
  the end.

Every safety invariant, step property and refinement that a passing run checks is
stated by a theorem. The type invariants of `LogBridge`, `ChartSharing`,
`ConfigBinding`, `ReleaseCalls` and `ChartFiles` are proved for every instance and no
run repeats them.

Only model-checked: the liveness properties (`SetReturns`, `RecordsEnd`,
`CancelReturns`, `CancelledComesBack`), which are out of the prover's reach. What TLC
refutes is, of course, not proved; that lists are complete is proved for drivers
outside of the process.

## 6. What is not modelled

- Removal of temporary files is taken to succeed: `removeBestEffort` logs a
  failure and goes on, so a file system that refuses leaves them.
- A panic in the goroutine the SDK detaches ends the process; concurrent writes
  to one release, and the final status of a cancelled one (its goroutine and
  failRelease both write it), are races inside the
  SDK. Each call of `ChartActions` has a release of its own. An upgrade that the SDK
  rolls back leaves a record all the same, which is all the model says of it.
- A subchart list that is read while another render writes it: the processing's read and
  write are each one step.
- The delete policies of test hooks, but for whether one keeps a pod after the run.
- A callback that calls back into helm-c, against its contract; `NobodyIsStuck` and
  the liveness of the bridge rest on it.
- Message texts, manifests, values, and options other than those named: only
  whether they are refused.
- Release records in `ReleaseCalls` are the set of their revisions; which resources
  stand behind them is the SDK's matter. Filters, limit and offset of `helm_list`
  are handed to the SDK unseen.
- Keys and digests: a signature verifies if it is of the content that is there.
- Two archives of one chart in different versions, and what `untar` leaves.
- `helm_push`, registry login and logout: network I/O of the SDK with no state of
  the library's own. Lint, strvals, values, options and chart metadata: pure
  functions of their input. `archiveLength`: two comparisons with their boundaries
  unit-tested.
