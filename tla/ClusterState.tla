---------------------------- MODULE ClusterState ----------------------------
(***************************************************************************)
(* What the operator's controllers share: the custom resources in the      *)
(* Kubernetes API server, the informer caches through which the            *)
(* controllers read them, the work queues the watches fill, and the Helm   *)
(* releases.                                                               *)
(*                                                                         *)
(* An object's log is its versions from the one in the informer cache (the *)
(* first) to the one in the API server (the last).  Every Get and List of  *)
(* the manager's client reads the cache; every Update and Patch changes    *)
(* the API server.  The informer delivers versions in order.               *)
(***************************************************************************)
EXTENDS Integers, Sequences, FiniteSets, HelmRelease

CONSTANTS
  Envs,       \* names of PingEnvironment resources
  Products,   \* names of product resources, all five kinds
  KindOf,     \* [Products -> Nat]: the kind, in the order listProducts takes
  Specs,      \* the specs users write; compared, never looked into
  BadSpecs,   \* specs Helm's values cannot be built or rendered from
  Releases,   \* Helm release names (target namespace and tenantId)
  ReleaseOf,  \* [Envs -> [Specs -> Releases]]: "<tenantId>-ping" of a spec
  MaxFaults,  \* [FaultKinds -> Nat]: how often each kind of fault may strike
  MaxKinds    \* how many kinds of fault may strike in one behaviour

(***************************************************************************)
(*  "chart"  the chart cannot be downloaded                                *)
(*  "disk"   the chart cannot be written to its file to the end            *)
(*  "apply"  Helm fails while it applies or deletes a release's resources  *)
(*  "list"   listing the releases fails                                    *)
(*  "api"    a write of an environment fails, or its answer is lost        *)
(*  "patch"  a status patch of a product fails                             *)
(*  "crash"  the operator's process dies and is started again              *)
(***************************************************************************)
FaultKinds == {"chart", "disk", "apply", "list", "api", "patch", "crash"}

ASSUME KindsAssumption == KindOf \in [Products -> Nat]
ASSUME SpecsAssumption == BadSpecs \subseteq Specs
ASSUME ReleasesAssumption == ReleaseOf \in [Envs -> [Specs -> Releases]]
ASSUME FaultsAssumption == MaxFaults \in [FaultKinds -> Nat] /\ MaxKinds \in Nat
ASSUME NamesAssumption == /\ "none" \notin Specs
                          /\ "none" \notin Releases
                          /\ "none" \notin Envs

VARIABLES
  envLog,     \* [Envs -> Seq(EnvVersion)]
  prodLog,    \* [Products -> Seq(ProdVersion)]
  release,    \* [Releases -> Release]
  envQ,       \* environments waiting in the environment controller's queue,
              \* those it asked to see again (Requeue, RequeueAfter, an error)
              \* included
  prodQ,      \* products waiting in the queues of the product controllers
  faults      \* [FaultKinds -> Nat]: faults that have struck

clusterVars == <<envLog, prodLog, release, envQ, prodQ, faults>>

-----------------------------------------------------------------------------
\* Versions of the objects.  "del" is a set deletionTimestamp, "fin" the
\* operator's finalizer, "rv" the resourceVersion; phase, rel, obs and cond are
\* the status, cond the Ready condition as <<its status, its generation>>.

NoCond == <<"none", 0>>

EnvVersion ==
  [live: BOOLEAN, rv: Nat, spec: Specs \cup {"none"}, gen: Nat,
   fin: BOOLEAN, del: BOOLEAN, phase: {"none", "Ready", "Failed"},
   rel: Releases \cup {"none"}, obs: Nat,
   cond: {"none", "True", "False"} \X Nat]

ProdVersion ==
  [live: BOOLEAN, rv: Nat, spec: Specs \cup {"none"}, ref: Envs \cup {"none"},
   fin: BOOLEAN, del: BOOLEAN,
   phase: {"none", "Pending", "Ready", "Failed"},
   rel: Releases \cup {"none"}]

\* The object does not exist (any more).
EnvGone(rv) ==
  [live |-> FALSE, rv |-> rv, spec |-> "none", gen |-> 0, fin |-> FALSE,
   del |-> FALSE, phase |-> "none", rel |-> "none", obs |-> 0,
   cond |-> NoCond]

ProdGone(rv) ==
  [live |-> FALSE, rv |-> rv, spec |-> "none", ref |-> "none", fin |-> FALSE,
   del |-> FALSE, phase |-> "none", rel |-> "none"]

\* The Helm values deployed: the environment's spec and the product specs
\* that contributed to them.
Values == [spec: Specs, prods: SUBSET (Products \X (Specs \cup {"none"}))]

Release == [status: Statuses, values: Values \cup {NoValues}]

-----------------------------------------------------------------------------
Cached(log) == log[1]
Current(log) == log[Len(log)]

\* The API server stores a new version, unless it equals the present one.
Stored(log, v) ==
  IF v = Current(log) THEN log
  ELSE Append(log, [v EXCEPT !.rv = Current(log).rv + 1])

\* An Update carries the resourceVersion of the copy it was computed from: it
\* is refused with a conflict when the object has changed since.
Fresh(log, copy) == copy.rv = Current(log).rv

\* A patch made by client.MergeFrom(old) carries only the fields in which new
\* differs from old, and no resourceVersion.
Patched(present, old, new) == IF new = old THEN present ELSE new

WriteEnv(e, v) == envLog' = [envLog EXCEPT ![e] = Stored(@, v)]
WriteProd(p, v) == prodLog' = [prodLog EXCEPT ![p] = Stored(@, v)]

\* One fault of kind k strikes.
Fault(k) == /\ faults[k] < MaxFaults[k]
            /\ Cardinality({j \in FaultKinds : faults[j] > 0} \cup {k}) <= MaxKinds
            /\ faults' = [faults EXCEPT ![k] = @ + 1]

-----------------------------------------------------------------------------
\* The informers: the next version reaches the cache, and the watches enqueue
\* the requests their handlers map it to.

DeliverEnv(e) ==
  /\ Len(envLog[e]) > 1
  /\ envLog' = [envLog EXCEPT ![e] = Tail(@)]
  /\ envQ' = envQ \cup {e}
  /\ UNCHANGED <<prodLog, release, prodQ, faults>>

\* Mutant: without the test for an empty reference.
AnyReference(v) == {v.ref}

\* The request enqueueFromEnvironmentRef maps one version of a product to.
enqueueFromEnvironmentRef(v) == {v.ref} \cap Envs

\* Mutant: only the new version is mapped to an environment.
DeliverNewVersion(p) ==
  /\ Len(prodLog[p]) > 1
  /\ prodLog' = [prodLog EXCEPT ![p] = Tail(@)]
  /\ prodQ' = prodQ \cup {p}
  /\ envQ' = envQ \cup enqueueFromEnvironmentRef(prodLog[p][2])
  /\ UNCHANGED <<envLog, release, faults>>

\* Mutant: the environment controller is not woken by changes of status alone.
DeliverSpecChanges(p) ==
  LET old == prodLog[p][1]
      new == prodLog[p][2]
  IN
  /\ Len(prodLog[p]) > 1
  /\ prodLog' = [prodLog EXCEPT ![p] = Tail(@)]
  /\ prodQ' = prodQ \cup {p}
  /\ envQ' = IF <<old.live, old.spec, old.ref>> = <<new.live, new.spec, new.ref>>
             THEN envQ
             ELSE envQ \cup enqueueFromEnvironmentRef(old)
                       \cup enqueueFromEnvironmentRef(new)
  /\ UNCHANGED <<envLog, release, faults>>

\* Each product kind is watched twice: by its own controller, and by the
\* environment controller, for the old and for the new version.
DeliverProd(p) ==
  /\ Len(prodLog[p]) > 1
  /\ prodLog' = [prodLog EXCEPT ![p] = Tail(@)]
  /\ prodQ' = prodQ \cup {p}
  /\ envQ' = envQ \cup enqueueFromEnvironmentRef(prodLog[p][1])
                  \cup enqueueFromEnvironmentRef(prodLog[p][2])
  /\ UNCHANGED <<envLog, release, faults>>

ClusterTypeOK ==
  /\ envLog \in [Envs -> Seq(EnvVersion)]
  /\ prodLog \in [Products -> Seq(ProdVersion)]
  /\ \A e \in Envs : envLog[e] # <<>>
  /\ \A p \in Products : prodLog[p] # <<>>
  /\ release \in [Releases -> Release]
  /\ envQ \subseteq Envs
  /\ prodQ \subseteq Products
  /\ faults \in [FaultKinds -> Nat]

ClusterInit ==
  /\ envLog = [e \in Envs |-> <<EnvGone(0)>>]
  /\ prodLog = [p \in Products |-> <<ProdGone(0)>>]
  /\ release = [r \in Releases |-> NoRelease]
  /\ envQ = {}
  /\ prodQ = {}
  /\ faults = [k \in FaultKinds |-> 0]
=============================================================================
