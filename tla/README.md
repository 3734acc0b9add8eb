# The PingOne operator in TLA+

A model of the operator of this repository: the controllers that turn a
`PingEnvironment` and the product resources referring to it into one Helm
release, the Helm calls they make, and the values they compute. TLC checks the
modules on small instances; TLAPS proves the theorems for every instance.

Source paths are relative to the repository; `release.go` is
`internal/helm/release.go`, `environment controller` is
`controllers/pingenvironment_controller.go`.

## The system

```
 users ──write──▶ API server ──watch──▶ informer caches ──events──▶ work queues
                    ▲   ▲                  │ Get, List                 │
                    │   └── Update, Patch ─┴──── controllers ◀─────────┘
                    │                            │ list, install, upgrade, uninstall
                    │                            ▼
                    └──────────────────────── Helm ──▶ resources of a tenant
```

| Part | State | Operations | Hard about it |
|---|---|---|---|
| Environment controller (`Reconcile`, `handleDeletion`, `setReady`, `setFailed`, `updateProductStatuses`) | none between requests; a copy of the environment and of five product lists during one | finalizer, deploy, report, uninstall | works for minutes from a copy read once; conflicts, patches that ignore conflicts, retries, crashes between any two writes |
| Product controllers (five, the same program) | none | finalizer, `Pending` while the environment is missing | patch the same status as the environment controller |
| Helm release operations (`ReleaseExists`, `InstallOrUpgrade`, uninstall) | the newest revision of a release, in the cluster | list, install, upgrade, uninstall | a list that leaves statuses out; a list that fails; operations cut short |
| Values (`BuildPingValues`, `applyDefaults`, `MergeValues`) | none | build eleven sections, merge overrides | repetition, order, references between sections, maps of two types |
| Chart download (`DownloadChart`) | one file in a cache directory of the container | download once per version | a file that is there and is not the chart |
| Manager (`main.go`) | caches, queues, index on `spec.environmentRef` | start, watch, enqueue | restart at any point |

Interactions: the environment controller is woken by its own objects, by every
event of a product, mapped through `spec.environmentRef` of the old and of the
new version, by its own requeues and by its own status patches. It reads the
products from the cache and writes their status. The product controllers read
the environment from the cache. Helm's releases are read and written by the
environment controller alone.

What makes each part correct:

* Environment controller: no release without an object whose deletion uninstalls
  it; `Ready` only for what is deployed; no change lost; deletion ends;
  reconciling comes to rest.
* Product controllers: at rest a product reports what happened to its
  environment.
* Helm operations: an operation that was cut short can be resumed.
* Chart download: what is in the cache is the chart.
* Values: the last override wins and merging loses nothing; ingresses do not
  collide; an image reference is deployed as written; the console can reach its
  directory; every layer of a profile reaches the container under its name in
  upper case; the resources of a section come from one place; a dependency is
  probed at a section that exists.

## Modules

| Module | Models | State |
|---|---|---|
| `HelmRelease` | what Helm's library keeps of a release (external) | – |
| `ClusterState` | API server, caches, queues, releases, faults | `envLog`, `prodLog`, `release`, `envQ`, `prodQ`, `faults` |
| `ChartCache` | `DownloadChart` and the file it keeps | `chart` |
| `EnvironmentController` | the environment controller and the release operations | `pc`, `cur`, `copy`, `lists`, `values`, `outcome`, `todo` |
| `ProductController` | the five product controllers | `pending` |
| `PingOperator` | the composition, users, crashes, fairness, properties | `ops` |
| `ReleaseLifecycle` | what the finalizer promises (abstract specification) | `object`, `rel` |
| `OperatorInvariant` | the inductive invariants `Tracked`, `Guarded`, `Lasting`, `Truthful`, `Awake`, `Shown` | – |
| `OperatorClaims` | documented claims the code does not keep | – |
| `PingOperatorProofs`, `CacheProofs`, `ReleaseProofs`, `LifecycleProofs`, `ReportProofs`, `WakeProofs`, `ProductProofs` | theorems about the operator | – |
| `ValuesTree` | values as trees, one level of `mergeMaps`, and how a tree is read | – |
| `PingSpecs` | the fields of the resources' specs that decide something, as predicates | – |
| `ChartValues` | the sections of the chart's values, the defaults | – |
| `PingValues` | `BuildPingValues` step by step, and its properties | `env`, `specs`, `values`, `next`, `outcome` |
| `ValuesMerge` | the recursion of `mergeMaps`, for TLC | – |
| `ValuesProofs` | theorems about the values | – |
| `MCPingOperator`, `MCPingValues` | instances for TLC | – |

### Cluster and controllers

**Logs.** An object is the sequence of its versions from the one in the informer
cache, `log[1]`, to the one in the API server, the last. A write appends a
version with the next `resourceVersion` (unless nothing changes: the API server
stores no-op writes as nothing), the informer drops the first. So a controller
can read a copy as old as the informer is slow, and events are not merged. A
version has `live` (the object exists), `spec`, `gen`, `fin` (the finalizer),
`del` (the deletionTimestamp) and the status. A spec is a model value: the
controllers compare and copy specs and never look into them, but for the name
of the release, which is the constant `ReleaseOf`.

**Writes.** `Update` is refused unless the copy is `Fresh`. A status patch made
with `client.MergeFrom` carries only the fields that differ from the copy it
was computed from, and no resourceVersion (`Patched`): it lands on whatever is
there. `updateProductStatuses` and the `Pending` patch ignore errors. A write
the code repeats after a conflict with no other effect is a step that changes
nothing and is left out.

**Steps.** The environment controller has one worker. `pc` is where it is
between two interactions with the cluster:

| `pc` | Next action | Code |
|---|---|---|
| `idle` | `ReconcileNotFound`, `ReconcileDeletion`, `AddFinalizer`, `ReconcileDeploy` | `Reconcile`, `listProducts` |
| `deploy` | `DownloadChart`, `ChartFails`, `InstallOrUpgrade` | `deployPingDevops` up to Helm's first write |
| `applying` | `HelmDone` | the rest of the install or upgrade |
| `status` | `PatchStatus`, `PatchStatusFails` | `setReady`, `setFailed` |
| `products` | `updateProductStatus`, `ReconcileDone` | `updateProductStatuses`, result |
| `uninstall` | `Uninstall` | `handleDeletion` up to Helm's first write |
| `uninstalling` | `UninstallDone` | the rest of the uninstall |
| `unfinalize` | `RemoveFinalizer` | the last `Update` |

Helm's calls are two steps each, because Helm stores `pending-install`,
`pending-upgrade` or `uninstalling` before it touches the resources, and users,
events and crashes come in between. `Refused` stands for specs the values cannot
be built or rendered from, of the environment or of any product it takes in.
`Items[0]` of a list from the cache is any element (`Firsts`).

**Queues.** A queue is a set: the work queue drops duplicates, and `Requeue`,
`RequeueAfter` and an error all put the request back. How long it waits there is
not modelled.

**Chart.** `chart` is the file in the cache: absent, partial or whole. It is found
by `os.Stat` whatever is in it, downloaded when it is absent, and left partial
when the copy into it fails. A new container starts without it.

**Faults** strike at most `MaxFaults[k]` times each, and at most `MaxKinds`
kinds in one behaviour:

| Kind | What fails |
|---|---|
| `chart` | the index or the archive cannot be fetched |
| `disk` | the archive cannot be written to its file to the end |
| `list` | the releases cannot be listed |
| `apply` | Helm fails while it applies or deletes resources |
| `api` | a status patch or the last `Update` of an environment is refused, or takes effect and its answer is lost |
| `patch` | a status patch of a product is refused |
| `crash` | the process dies wherever its workers are; caches and queues are filled again from the API server, the chart is gone |

### Values

A node of the values is a map or a leaf; a string is a sequence of the tokens
that matter (`/`, `:`, a name), a pointer a sequence of at most one element.
A variable of a container is the pair of the layer it speaks of, none for the
base profile, and a field. `strings.ToUpper` is a table of the names of layers in
the runs (`LayerNames`); a name that is not in it stands for one that is in upper
case, like `BASE`, which shares its variables with `base`.
`sections` builds the tree before overrides: `Charts` has one row per
sub-chart with what is particular to its block of `BuildPingValues` (which spec
and ingress it takes, its prefix, its row of the tier table, its services), and
`productValues` does what the blocks have in common. Fields that are only
copied into environment variables, secret references and the sizes of workloads
are left out; annotations, security contexts, volumes, resources and `waitFor`
are in, because something is decided or merged there. A map of strings
(`StringMap`) is a node of its own: `mergeMaps` merges a pair of maps only when
both are of the type JSON decodes to. `PingSpecs` says which specs the types
allow; `InputsAssumption` holds every input of a run to it. `PingValues` merges
the overrides in the order of the code, and fails on the first one that is not
an object. `MergeBy` is the body of `mergeMaps`, with the call to itself as a
parameter: `PingValues` takes that call as the constant `Merge`, which
`ValuesMerge` and the runs make `mergeMaps`, because the provers cannot work in
a module with a recursive operator; the same goes for `LeafPaths`, the paths that
`LastOverrideWins` looks at. (The CRDs keep such an override out of the API server;
`BuildPingValues` handles it all the same.)

## Runs

Bounds: `MaxOps` writes by users, at most one fault of each kind, and of
`MaxKinds` kinds. An object needs two writes to exist and go, three to come back,
four to come back and change; a product in a live environment takes two writes,
so that four reach an edit or a move and a deletion. Two faults reach a failure
while the consequences of another are being repaired, which is where the code
retries.

| Run | Instance | Shows |
|---|---|---|
| `users` | 1 environment, 1 product, 2 specs of which one is refused, 4 writes | `ReadyDeployed`, `QuietDeployed`, `QuietReported` without faults |
| `two_products` | 2 products of one kind (symmetric), 4 writes | whichever is taken, what is deployed is one of the present ones (`QuietDeployed`), and both report (`QuietReported`, and `Shown`, the invariant behind it) |
| `two_envs` | 2 environments, a product that moves, 4 writes | both environments are deployed again (`QuietDeployed`, and `Awake`, the invariant behind it); no release outlives its object (`ListedGuarded`) |
| `faults` | 1 environment that users rename (a release name per spec), 3 writes, any two faults but `list`; fair | `ReadyDeployed`, `Truthful` (the invariant behind it), `QuietDeployed`, `ObservedForward`, `LastReleaseGone`, `DeletionEnds`, `Recovers` |
| `restarts` | 1 environment, 1 product, 3 writes, a crash and a failed product patch; fair | `TypeOK`, `Guarded` and `Lasting` (invariants of the proofs), `QuietDeployed`, `QuietReported`, the refinement `Lifecycle`, `ComesToRest`, `WaitingShown` |
| `values` | 998 inputs in eight families | `TypeOK`, `SectionsKept`, `LastOverrideWins`, `IngressesApart`, `ReferenceKept`, `ConsoleServed`, `LayersTold`, `ResourcesWhole`, `WaitsResolved` |

* `ReadyDeployed` – an environment that says `Ready` for its present generation
  has a release made from its present spec, though the spec may change at any
  moment of the deployment and the object may be replaced by another of its name.
* `QuietDeployed`, `QuietReported` – when nothing is queued, under way or on its
  way, everything is deployed as it stands and says so. This is the absence of
  lost wake-ups, for any interleaving. A failed patch of a product is the
  exception: `updateProductStatuses` ignores its error and asks for nothing, so
  `QuietReported` is stated for behaviours without one.
* `Lifecycle` – the detailed specification implements `ReleaseLifecycle`: a
  release is written only for a held object, uninstalled only for a dying one,
  and an object goes only when Helm lists none of its releases. "Pending" and
  "uninstalling" releases may be left behind by a crash; what that leads to is
  the subject of two of the claims.
* `LastReleaseGone` – however users edit `tenantId`, during the deletion too, the
  finalizer goes only when the release of the last name is not listed: a
  deletion that uninstalled an earlier name is refused by the conflict.
* `ComesToRest` – or else a failure persists and keeps being retried.
* `Recovers` – once users and faults have stopped, a sound environment gets
  `Ready`, unless the chart's file is truncated or an operation that was cut
  short holds the name (two of the claims below).
* `DeletionEnds` – whatever fails, a requested deletion ends.
* `WaitingShown` – a product without an environment says `Pending` in the end,
  though its patch may fail or come from a stale copy: its controller watches no
  environments and asks again every 10 seconds.
* `SectionsKept`, `LastOverrideWins` – at every step of the merging: an override
  reaches the sections it names and no other, and at every depth a leaf is what
  the last of sections and overrides with something to say of it says.
* `IngressesApart`, `ReferenceKept`, `ConsoleServed` – of the sections that no
  override names: derived hosts and secrets are distinct, a tagged reference is
  deployed as written, a console logs in on the port its directory serves. What
  an override does to a section is `LastOverrideWins`.
* `LayersTold` – a container with a base profile is told exactly what the layers of
  a name say, under that name in upper case, also where two names differ in case
  alone. Without a base profile the code drops the layers: see the claims.
* `ResourcesWhole` – the resources of a section are the product's, whole and with
  nothing of the tier's, or exactly the tier's requests; those of the environment
  are in the global section, whole. Where the environment sets resources and the
  product does not, a comment says that the tier has no say and the code says it
  has: the property admits both, and the claims below say which it is.
* `WaitsResolved` – a dependency under a documented name is probed at a section of
  the values if it is the only one on that section. Of several the property says
  nothing: see the claims.

The families of `values`: every combination of a global and an explicit
`enabled`, host and secret, with and without a domain; directory references with
and without registry port, name, tag and repository, with every kind of console;
layered profiles; resources of environment, tier and product; one dependency
under every documented name, and two; eight overrides for each of three
products, among them a leaf over a map, a map over a leaf, nulls, and two that
are not objects; annotations of environment and product under an override of
them; security contexts, vault, volumes and volume mounts under an override.
Host names set by hand are distinct.

CHECK_DEADLOCK is off: users stop writing, and `BuildPingValues` returns.

### Claims the code does not keep

| Run | Claim | What happens |
|---|---|---|
| `claim_list_error` | the release is uninstalled before the finalizer goes | `ReleaseExists` is false also when listing fails: the release stays and its object goes |
| `claim_uninstall` | the same | an uninstall that fails midway leaves the release `uninstalling`, which is not listed: the retry removes the finalizer |
| `claim_recovers` | a failed environment is retried | a crash during an install leaves the release `pending`: not listed, so every retry installs, and the name is in use |
| `claim_chart` | the same | a disk that fills while the chart is written leaves a truncated file, which is taken for the chart from then on |
| `claim_annotations` | an override is deep-merged, nested maps are merged | computed annotations are `map[string]string`: an override of one replaces them all |
| `claim_promises` | at least one of the four promises below is kept | one spec breaks them all |

`SomePromiseKept` is the disjunction of four properties, each of which documents or
comments promise of every spec. It is weaker than each, so that the one state
in which TLC finds it violated refutes the four; of the other fifteen specs of
the run it holds.

| Promise | What happens |
|---|---|
| `ReferenceSplit`: a full reference is split into repository, name and tag (release.go:1491) | `registry:5000/name` is split at the port |
| `LayersMapped`: each layer maps to variables of its name (CONFIGURATION.md:116) | without a base profile none does |
| `TierWhenNeither`: the tier's resources count when neither environment nor product sets any (api/v1alpha1/pingenvironment_types.go:692) | the tier's requests go into every section whose product sets none; the environment's go to `global`, so that which wins is the chart's choice |
| `WaitsProbed`: each entry of `waitFor` is probed (CONFIGURATION.md:155) | of two entries on one sub-chart the later replaces the earlier |

Others met while reading, without a run: `observedGeneration` is not advanced by a
failure (CONFIGURATION.md:620 calls it the last generation processed); products
keep `Ready` and the release's name after their environment is deleted; an edit
of `tenantId` installs a second release and leaves the first (the assumption
`StableNames`); a failed status patch of a product by the environment controller
is not repeated; of overrides of one key the one of the later product wins.

## Fairness

`FairSpec` assumes that the informers deliver, that a reconcile that has begun
takes its next step, and that a request that keeps coming to the front of a
queue is taken (strong fairness: the queues are first-in first-out and the one
worker is shared, so the action is enabled again and again but not always).
Helm returning is part of "takes its next step": the code has no timeout of its
own around it. No fairness for users and faults. Liveness is checked by TLC only.

## Proofs

Everything below holds for any environments, products, kinds, specs, bounds on
faults and number of writes by users, and any inputs of `BuildPingValues` that the
types allow, under the assumptions each line names.

| Theorem | Module | Assumes |
|---|---|---|
| `TypeCorrect`: `TypeOK` | `PingOperatorProofs` | – |
| `LastReleaseIsGone`: `LastReleaseGone` | `CacheProofs` | `MaxFaults["list"] = 0` |
| `GuardedAlways`: `Guarded`; `NoReleaseLeftBehind`: `ListedGuarded` | `ReleaseProofs` | `StableNames`, `MaxFaults["list"] = 0` |
| `LastingAlways`: `Lasting`; `LifecycleImplemented`: `Lifecycle` | `LifecycleProofs` | the same |
| `ObservedGoesForward`: `ObservedForward` | `ReportProofs` | – |
| `ReportsTruthful`: `Truthful`; `ReadyIsDeployed`: `ReadyDeployed` | `ReportProofs` | `OwnNames` |
| `AwakeAlways`: `Awake`; `NoWakeUpLost`: `QuietDeployed` | `WakeProofs` | `OwnNames` |
| `ShownAlways`: `Shown`; `ReportedAtRest`: `QuietReported` | `ProductProofs` | – |
| `ValuesTyped`: `TypeOK`; `SectionsAlwaysKept`: `SectionsKept` | `ValuesProofs` | – |
| `IngressesAlwaysApart`, `ReferencesAlwaysKept`, `ConsolesAlwaysServed`, `LayersAlwaysTold`, `ResourcesAlwaysWhole`, `WaitsAlwaysResolved`: the properties of the sections | `ValuesProofs` | – |
| `OverridesAlwaysWin`: `LastOverrideWins` | `ValuesProofs` | the values are trees, on which `Merge` satisfies the equation of `mergeMaps` |

`OwnNames` says that no two environments share the name of a release: two that
do overwrite each other's, which the code does nothing against. `StableNames`
says besides that an environment is not renamed: an edit of `tenantId` installs
a second release, and nothing uninstalls the first. A failing list is the
subject of `claim_list_error`.

**Types.** `TypeOK` is not inductive: the worker's copy comes from the cache, so
its spec is a spec only if that of every version of every log is (`LogsOK`);
`TypeInv` is the two together.

**What the cache shows** (`Tracked`, which needs no assumption). `Ordered` and
`HeldOnceSeen`: as long as the cache, or an event on its way, shows an object
held and not dying, the object still has its finalizer, for taking it away takes
a fresh copy, and a copy that is dying. `WorkerHolds`: so an environment being
deployed is still held when Helm is called, however old the copy: users can only
request its deletion, and the worker that would grant it is the one that is
busy. `WorkerDeletes`, `CopySeen`: a deletion works from a copy with a
deletionTimestamp, which the cache has reached; an object of the same name
created since, or an edit, has a later resourceVersion, so the last `Update` is
refused. `LastReleaseGone` adds `CopyReleased`: when the worker comes to the
`Update`, the release its copy names is not listed.

**Releases** (`Guarded`): `Tracked`, `Uninstalled` (the finalizer goes only when
none of the object's releases is listed) and `ListedGuarded` itself.

**The refinement** (`Lasting`). An object maps to none, new, held or dying by its
`live`, `fin` and `del`, a release to what Helm's list tells of its status. Steps
of Helm map to steps of a release, the finalizer and users' writes to steps of
an object, the rest to stutters. What the mapping needs is that an uninstall
acts on a dying object, also when the one deleted has been created again under
its name (`DyingOnceSeen`, `WorkerLetsDie`), and that an operation of Helm finds
its release as it has left it (`WorkerOwns`).

**Reports** (`Truthful`). `Tells` relates a version to a later one by their
generations: an equal generation is an equal spec, as long as the object is the
same one, and the observed generation is behind both. It holds between any two
versions of a log (`LogsTell`) and between the worker's copy and every version
the cache still has to show (`CopyTells`): a patch from a stale copy brings an
observed generation that none of them has gone beyond, whence `ObservedForward`.
`WorkerDeploys`: what the worker reports as `Ready` is a release made from its
copy. So when a version says `Ready` of its own generation, the copy reported
had its spec. No fault matters, and renaming neither.

**Wake-ups** (`Awake`). `NoneForgotten`: an environment in the cache is asked for
(queued, or newer versions of it are on their way), or at work, or served: the
cache's version says `Ready`, and its release is deployed with that spec and the
products the cache shows. `WorkerServes` is the same for the worker, half done:
unless its environment is asked for meanwhile, its copy is the cache's and its
values are those of the products cached. The one case that is not
bookkeeping is a status patch that changes nothing and thus wakes nobody: then
the copy is current and had said `Ready` of its generation before. At rest the
cache is the API server, nobody is asked for or at work, and all are served.

**Products** (`Shown`). The same for the names and phases: unless an environment
is asked for or at work, it names its release, and so does every product of it
that has no newer version on its way, and is `Ready`; one that has wakes the
environment when it is delivered. Here every patch counts that has nothing to
change: the product was read as it is, by the controller that reports it, for a
copy of any other age leaves a version on its way. `Shown` says nothing once a
patch of a product has failed.

The arguments need one worker per environment and one process; the code gives the
first by leaving `MaxConcurrentReconciles` at 1, and the second when there is
one replica or `--leader-elect` is set (the manifests do both).

**Values.** `TypeOK` and `SectionsKept` are inductive together, whatever `Merge`
does: a merge replaces the nodes of the sections an override names and copies the
rest (`MergeByIs`), and the greatest index of those who named one is the last
(`MaxInterval`, from the natural numbers being well-founded). So the section of a
sub-chart that no override names is returned as it was built (`SectionIs`), and
the six properties of sections are read off `productValues` and `consoleValues`,
layer by layer (`Nodes`, `OverIs`, `PresentIs`, `FourParts`). What each rests on:
the ten prefixes are distinct (`PrefixesApart`); the parts of a reference,
cut at its last colon and the last slash before it, make it up again
(`PartsMakeReference`, for sequences of any length); of maps laid over each other
the last one that has a key decides (`OverlayIs`); variables of different layers
or fields are different (`VariablesApart`), so that what is heard under a name
was said by a layer of that name, whatever `ToUpper` makes of names.

**Merging at every depth.** For `LastOverrideWins` `Merge` has to be `mergeMaps`. A
recursive operator cannot be proved about, so the theorem takes as hypotheses a
set of trees closed under merging, with `Merge(dst, src) = MergeBy(Merge, dst,
src)` on it (`IsTrees`), that holds what is built and what overrides it: finite
trees are such a set, JSON is finite, and the equation is the body of
`mergeMaps`. Along a path the merged tree has a map where both have one
(`Together`), and from where they part it follows the one or the other to the
end; so its leaf is the one of the override, or where that is silent the one
there was (`LeavesMerged`, by induction on the length of the path, as a least
counterexample). The inductive form, `Won`, says it of all paths, of which
`LastOverrideWins` looks at those that lead to leaves.

Model-checked only: the liveness properties, which are out of TLAPS's reach, and
that the operator `mergeMaps` TLC runs is the recursion the theorem speaks of
(its definition is that equation; the provers cannot unfold it).

## Limits

* One operator process at a time. A new one reads the API server consistently
  when it fills its caches.
* `Get` and the five `List`s of a reconcile are one step; between them only the
  cache can change.
* `helm.sh/helm/v3`, controller-runtime and the API server are modelled from how
  the code uses them: the status mask of a list, names in use, the status a
  release has while an operation runs, deduplicating queues, `MergeFrom`. Helm's
  own write of an operation's outcome is assumed to succeed.
* A restart is that of the container, whose `/tmp/helm-cache` is no volume; a
  process run by `make run` keeps the file, also a truncated one.
* Helm fails before it has stored anything only when the chart is not whole, its
  templates cannot be rendered or the name is in use. A passing failure of this
  sort, of the API server for one, has no step of its own: it would end like
  `ChartFails`, in `setFailed` and a retry with nothing written.
* The reason and the message of the condition are left out; its status and its
  generation are in.
* When a status patch of a product by the environment controller fails, nothing
  repeats it, so no property can say that the product reports in the end.
* Failing to create a Helm client changes nothing: the error is returned before
  anything has been written, and the request is made again.
* No step clears the status of the products of a deleted environment, so no
  property speaks of it. An admin console and an engine share one container spec,
  so that an engine told to wait for its console makes the console wait for
  itself; the waiting is done by the chart, outside this repository.
* PingDataSync and PingDirectoryProxy are known to `BuildPingValues` but the
  controller never supplies them; they are in `ChartValues` and not in the inputs.
* Not modelled: the Helm client adapter, which has no state; flags and health
  endpoints; generated code; manifests.

## Plan

Done: the operator with its faults, the chart's cache, the values, and proofs of
every safety property that a passing run checks, under the assumptions named
above. To come: what the proofs of the values say of a section that an override
does name (which of its leaves stay as they were built), and of the environment's
own section, `global`.
