------------------------ MODULE EnvironmentController ------------------------
(***************************************************************************)
(* controllers/pingenvironment_controller.go with the part of              *)
(* internal/helm/release.go it calls.  The manager runs Reconcile in one   *)
(* worker (MaxConcurrentReconciles is left at 1), so the controller is a   *)
(* sequential process, here with one step between two of its interactions  *)
(* with the cluster.  The reads from the caches at the start of Reconcile  *)
(* (the environment, then the five product lists) are one step with the    *)
(* branch they decide: nothing the controller does comes in between.       *)
(***************************************************************************)
EXTENDS ClusterState, ChartCache

VARIABLES
  pc,         \* what the worker does next
  cur,        \* the environment of the request being processed
  copy,       \* env, as read from the cache
  lists,      \* [Products -> ProdVersion]: the CRs listed; the others are gone
  values,     \* the Helm values built from copy and lists
  outcome,    \* the phase setReady or setFailed reports
  todo        \* products whose status updateProductStatuses still has to patch

envVars == <<pc, cur, copy, lists, values, outcome, todo>>

NotListed == [p \in Products |-> ProdGone(0)]

Steps == {"idle", "deploy", "applying", "status", "products",
          "uninstall", "uninstalling", "unfinalize"}

EnvTypeOK ==
  /\ pc \in Steps
  /\ cur \in Envs \cup {"none"}
  /\ copy \in EnvVersion
  /\ lists \in [Products -> ProdVersion]
  /\ values \in Values \cup {NoValues}
  /\ outcome \in {"none", "Ready", "Failed"}
  /\ todo \subseteq Products
  /\ pc # "idle" => cur \in Envs /\ copy.live /\ copy.spec \in Specs
  /\ pc \in {"deploy", "applying"} => values \in Values
  /\ pc \in {"status", "products"} => outcome # "none"

EnvInit ==
  /\ pc = "idle"
  /\ cur = "none"
  /\ copy = EnvGone(0)
  /\ lists = NotListed
  /\ values = NoValues
  /\ outcome = "none"
  /\ todo = {}

\* Reconcile returns; the worker takes the next request.
Return ==
  /\ pc' = "idle"
  /\ cur' = "none"
  /\ copy' = EnvGone(0)
  /\ lists' = NotListed
  /\ values' = NoValues
  /\ outcome' = "none"
  /\ todo' = {}

relName == ReleaseOf[cur][copy.spec]
Rel == release[relName]

-----------------------------------------------------------------------------
\* Reconcile, up to its first interaction with the cluster.

\* The worker takes a request.
Dequeue(e) == /\ pc = "idle"
              /\ e \in envQ
              /\ envQ' = envQ \ {e}

\* The environment is not in the cache: nothing to do.
ReconcileNotFound(e) ==
  /\ Dequeue(e)
  /\ ~Cached(envLog[e]).live
  /\ UNCHANGED <<envVars, envLog, prodLog, release, prodQ, faults>>

\* Mutant: the finalizer is removed without uninstalling.
LeaveRelease(e) ==
  /\ Dequeue(e)
  /\ Cached(envLog[e]).live /\ Cached(envLog[e]).del
  /\ pc' = "unfinalize"
  /\ cur' = e
  /\ copy' = Cached(envLog[e])
  /\ UNCHANGED <<lists, values, outcome, todo, envLog, prodLog, release,
                 prodQ, faults>>

\* An environment with a deletionTimestamp goes to handleDeletion.
ReconcileDeletion(e) ==
  /\ Dequeue(e)
  /\ Cached(envLog[e]).live /\ Cached(envLog[e]).del
  /\ pc' = "uninstall"
  /\ cur' = e
  /\ copy' = Cached(envLog[e])
  /\ UNCHANGED <<lists, values, outcome, todo, envLog, prodLog, release,
                 prodQ, faults>>

\* The finalizer is added and the request made again.  With a stale copy the
\* Update is refused and the request made again too: a step that changes
\* nothing.
AddFinalizer(e) ==
  LET c == Cached(envLog[e]) IN
  /\ pc = "idle"
  /\ e \in envQ
  /\ c.live /\ ~c.del /\ ~c.fin
  /\ Fresh(envLog[e], c)
  /\ WriteEnv(e, [c EXCEPT !.fin = TRUE])
  /\ UNCHANGED <<envVars, prodLog, release, envQ, prodQ, faults>>

\* The products in the cache that refer to e.
listed(e) == {p \in Products : /\ Cached(prodLog[p]).live
                               /\ Cached(prodLog[p]).ref = e}

\* Items[0] of each list: one product of each kind listed, any one, since the
\* cache returns a list in no order.
Firsts(L) ==
  {S \in SUBSET L : \A p \in L : Cardinality({q \in S : KindOf[q] = KindOf[p]}) = 1}

\* The reads that precede a deployment.
Take(e) ==
  /\ pc' = "deploy"
  /\ cur' = e
  /\ copy' = Cached(envLog[e])
  /\ lists' = [p \in Products |->
                 IF p \in listed(e) THEN Cached(prodLog[p]) ELSE ProdGone(0)]
  /\ \E S \in Firsts(listed(e)) :
       values' = [spec |-> Cached(envLog[e]).spec,
                  prods |-> {<<p, Cached(prodLog[p]).spec>> : p \in S}]
  /\ UNCHANGED <<outcome, todo, envLog, prodLog, release, prodQ, faults>>

\* Mutant: an environment is deployed whether or not it has the finalizer.
DeployUnheld(e) ==
  /\ Dequeue(e)
  /\ Cached(envLog[e]).live
  /\ ~Cached(envLog[e]).del
  /\ Take(e)

\* An environment with the finalizer is deployed.
ReconcileDeploy(e) ==
  /\ Dequeue(e)
  /\ Cached(envLog[e]).live
  /\ ~Cached(envLog[e]).del
  /\ Cached(envLog[e]).fin
  /\ Take(e)

-----------------------------------------------------------------------------
\* deployPingDevops and InstallOrUpgrade

\* Control goes on to setReady or setFailed.
Report(o) ==
  /\ pc' = "status"
  /\ outcome' = o
  /\ UNCHANGED <<cur, copy, lists, values, todo>>

\* The values cannot be built, or Helm cannot render the chart with them: because
\* of the environment's spec, or of that of any product it takes in.
Refused(v) == v.spec \in BadSpecs \/ \E m \in v.prods : m[2] \in BadSpecs

\* BuildPingValues, loader.Load or Helm's rendering returns an error: Helm has
\* stored nothing.
ChartFails ==
  /\ pc = "deploy"
  /\ Refused(values) \/ (Stat /\ ~Loads)
  /\ Report("Failed")
  /\ UNCHANGED clusterVars

\* A chart that is not in the cache is downloaded.
DownloadChart ==
  /\ pc = "deploy"
  /\ \/ Download /\ UNCHANGED <<envVars, faults>>
     \/ DownloadFails /\ Fault("chart") /\ Report("Failed")
     \/ CopyFails /\ Fault("disk") /\ Report("Failed")
  /\ UNCHANGED <<envLog, prodLog, release, envQ, prodQ>>

\* Mutant: a release exists when it is deployed.
DeployedExists(answer) ==
  \/ answer = (Rel.status = "deployed") /\ faults' = faults
  \/ answer = FALSE /\ Fault("list")

\* ReleaseExists: TRUE when the release is among those listed, FALSE also when
\* listing them fails.
ReleaseExists(answer) ==
  \/ answer = Listed(Rel) /\ faults' = faults
  \/ answer = FALSE /\ Fault("list")

\* Upgrade an existing release, install a missing one; a name in use cannot be
\* installed.
InstallOrUpgrade ==
  /\ pc = "deploy"
  /\ Loads /\ ~Refused(values)
  /\ \E exists \in BOOLEAN :
       /\ ReleaseExists(exists)
       /\ IF exists \/ ~NameInUse(Rel)
          THEN /\ release' = [release EXCEPT ![relName] = Begun(values)]
               /\ pc' = "applying"
               /\ UNCHANGED <<cur, copy, lists, values, outcome, todo>>
          ELSE /\ Report("Failed")
               /\ release' = release
  /\ UNCHANGED <<envLog, prodLog, envQ, prodQ>>

\* Helm has applied the resources, or has failed to.
HelmDone ==
  /\ pc = "applying"
  /\ \/ /\ release' = [release EXCEPT ![relName] = Applied(@, "deployed")]
        /\ Report("Ready")
        /\ faults' = faults
     \/ /\ release' = [release EXCEPT ![relName] = Applied(@, "failed")]
        /\ Report("Failed")
        /\ Fault("apply")
  /\ UNCHANGED <<envLog, prodLog, envQ, prodQ>>

-----------------------------------------------------------------------------
\* setReady and setFailed: they patch the status of the environment, then those
\* of the products listed.

\* Mutant: setFailed clears the observed generation.
ReportedAfresh(v) ==
  IF outcome = "Ready"
  THEN [v EXCEPT !.phase = "Ready", !.rel = relName, !.obs = v.gen,
                 !.cond = <<"True", v.gen>>]
  ELSE [v EXCEPT !.phase = "Failed", !.obs = 0, !.cond = <<"False", v.gen>>]

\* The status setReady and setFailed write into their copy.
Reported(v) ==
  IF outcome = "Ready"
  THEN [v EXCEPT !.phase = "Ready", !.rel = relName, !.obs = v.gen,
                 !.cond = <<"True", v.gen>>]
  ELSE [v EXCEPT !.phase = "Failed", !.cond = <<"False", v.gen>>]

EnvPatch(present, old, new) ==
  [present EXCEPT !.phase = Patched(@, old.phase, new.phase),
                  !.rel = Patched(@, old.rel, new.rel),
                  !.obs = Patched(@, old.obs, new.obs),
                  !.cond = Patched(@, old.cond, new.cond)]

\* Mutant: the environment is read again before its status is patched.
PatchStatusReread ==
  /\ pc = "status"
  /\ Current(envLog[cur]).live
  /\ WriteEnv(cur, Reported(Current(envLog[cur])))
  /\ pc' = "products"
  /\ todo' = {p \in Products : lists[p].live}
  /\ UNCHANGED <<cur, copy, lists, values, outcome, prodLog, release, envQ,
                 prodQ, faults>>

\* Mutant: only the products deployed get a status.
PatchStatusFirsts ==
  /\ pc = "status"
  /\ Current(envLog[cur]).live
  /\ WriteEnv(cur, EnvPatch(Current(envLog[cur]), copy, Reported(copy)))
  /\ pc' = "products"
  /\ todo' = {m[1] : m \in values.prods}
  /\ UNCHANGED <<cur, copy, lists, values, outcome, prodLog, release, envQ,
                 prodQ, faults>>

\* The status patch takes effect.
StatusLands ==
  /\ Current(envLog[cur]).live
  /\ WriteEnv(cur, EnvPatch(Current(envLog[cur]), copy, Reported(copy)))

\* The status patch succeeds.
PatchStatus ==
  /\ pc = "status"
  /\ StatusLands
  /\ pc' = "products"
  /\ todo' = {p \in Products : lists[p].live}
  /\ UNCHANGED <<cur, copy, lists, values, outcome, prodLog, release, envQ,
                 prodQ, faults>>

\* The patch fails, or takes effect and its answer is lost: the error is
\* returned and the request made again.
PatchStatusFails ==
  /\ pc = "status"
  /\ Fault("api")
  /\ envLog' = envLog \/ StatusLands
  /\ envQ' = envQ \cup {cur}
  /\ Return
  /\ UNCHANGED <<prodLog, release, prodQ>>

ProdReported(v) ==
  [v EXCEPT !.phase = outcome,
            !.rel = IF outcome = "Ready" THEN relName ELSE "none"]

ProdPatch(present, old, new) ==
  [present EXCEPT !.phase = Patched(@, old.phase, new.phase),
                  !.rel = Patched(@, old.rel, new.rel)]

\* One product of updateProductStatuses, kind after kind.  An error is ignored,
\* be it that the patch fails or that the product is gone.
updateProductStatus(p) ==
  LET now == Current(prodLog[p]) IN
  /\ pc = "products"
  /\ p \in todo
  /\ \A q \in todo : KindOf[p] <= KindOf[q]
  /\ \/ /\ IF now.live
           THEN WriteProd(p, ProdPatch(now, lists[p], ProdReported(lists[p])))
           ELSE prodLog' = prodLog
        /\ faults' = faults
     \/ /\ prodLog' = prodLog
        /\ Fault("patch")
  /\ todo' = todo \ {p}
  /\ UNCHANGED <<pc, cur, copy, lists, values, outcome, envLog, release, envQ,
                 prodQ>>

\* Mutant: setFailed does not ask for the request again.
DoneOnce ==
  /\ pc = "products"
  /\ todo = {}
  /\ envQ' = envQ
  /\ Return
  /\ UNCHANGED <<envLog, prodLog, release, prodQ, faults>>

\* Mutant: setReady asks for the request again too.
DoneAgain ==
  /\ pc = "products"
  /\ todo = {}
  /\ envQ' = envQ \cup {cur}
  /\ Return
  /\ UNCHANGED <<envLog, prodLog, release, prodQ, faults>>

\* setReady returns and the request is done; setFailed asks for it again in
\* 30 seconds.
ReconcileDone ==
  /\ pc = "products"
  /\ todo = {}
  /\ envQ' = IF outcome = "Failed" THEN envQ \cup {cur} ELSE envQ
  /\ Return
  /\ UNCHANGED <<envLog, prodLog, release, prodQ, faults>>

-----------------------------------------------------------------------------
\* handleDeletion

\* Mutant: the release the status names is uninstalled.
UninstallReported ==
  /\ pc = "uninstall"
  /\ IF copy.rel # "none" /\ Listed(release[copy.rel])
     THEN /\ release' = [release EXCEPT ![copy.rel] = NoRelease]
          /\ pc' = "unfinalize"
     ELSE /\ pc' = "unfinalize"
          /\ release' = release
  /\ UNCHANGED <<cur, copy, lists, values, outcome, todo, envLog, prodLog,
                 envQ, prodQ, faults>>

\* Mutant: the release is uninstalled without asking whether it exists.
UninstallUnasked ==
  /\ pc = "uninstall"
  /\ release' = [release EXCEPT ![relName] = Marked(@)]
  /\ pc' = "uninstalling"
  /\ UNCHANGED <<cur, copy, lists, values, outcome, todo, envLog, prodLog,
                 envQ, prodQ, faults>>

\* Uninstall the release if it exists.
Uninstall ==
  /\ pc = "uninstall"
  /\ \E exists \in BOOLEAN :
       /\ ReleaseExists(exists)
       /\ IF exists
          THEN /\ release' = [release EXCEPT ![relName] = Marked(@)]
               /\ pc' = "uninstalling"
          ELSE /\ pc' = "unfinalize"
               /\ release' = release
  /\ UNCHANGED <<cur, copy, lists, values, outcome, todo, envLog, prodLog,
                 envQ, prodQ>>

\* Mutant: the error of a failed uninstall is dropped and nothing is retried.
UninstallOnce ==
  /\ pc = "uninstalling"
  /\ \/ /\ release' = [release EXCEPT ![relName] = NoRelease]
        /\ pc' = "unfinalize"
        /\ UNCHANGED <<cur, copy, lists, values, outcome, todo, envQ, faults>>
     \/ /\ Fault("apply")
        /\ envQ' = envQ
        /\ Return
        /\ release' = release
  /\ UNCHANGED <<envLog, prodLog, prodQ>>

\* Helm has deleted the resources and purged the release's history, or has
\* failed to: then the error is returned and the request made again.
UninstallDone ==
  /\ pc = "uninstalling"
  /\ \/ /\ release' = [release EXCEPT ![relName] = NoRelease]
        /\ pc' = "unfinalize"
        /\ UNCHANGED <<cur, copy, lists, values, outcome, todo, envQ, faults>>
     \/ /\ Fault("apply")
        /\ envQ' = envQ \cup {cur}
        /\ Return
        /\ release' = release
  /\ UNCHANGED <<envLog, prodLog, prodQ>>

\* The Update that takes the finalizer away lets the API server delete the
\* object; with a stale copy it is refused.  An error, be it that only the
\* answer is lost, is returned and the request made again.
RemoveFinalizer ==
  /\ pc = "unfinalize"
  /\ \/ /\ Fresh(envLog[cur], copy)
        /\ WriteEnv(cur, EnvGone(copy.rv))
        /\ \/ UNCHANGED <<envQ, faults>>
           \/ Fault("api") /\ envQ' = envQ \cup {cur}
     \/ /\ \/ ~Fresh(envLog[cur], copy) /\ faults' = faults
           \/ Fault("api")
        /\ envQ' = envQ \cup {cur}
        /\ envLog' = envLog
  /\ Return
  /\ UNCHANGED <<prodLog, release, prodQ>>

Reconcile(e) == \/ ReconcileNotFound(e)
                \/ ReconcileDeletion(e)
                \/ AddFinalizer(e)
                \/ ReconcileDeploy(e)

EnvStep ==
  \/ DownloadChart
  \/ /\ \/ \E e \in Envs : Reconcile(e)
        \/ ChartFails
        \/ InstallOrUpgrade
        \/ HelmDone
        \/ PatchStatus
        \/ PatchStatusFails
        \/ \E p \in Products : updateProductStatus(p)
        \/ ReconcileDone
        \/ Uninstall
        \/ UninstallDone
        \/ RemoveFinalizer
     /\ chart' = chart
==============================================================================
