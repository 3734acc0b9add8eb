---------------------------- MODULE PingOperator ----------------------------
(***************************************************************************)
(* The operator at work: the environment controller and the product        *)
(* controllers over the shared cluster state, the informers that feed      *)
(* them, the users who write the resources, and crashes of the operator.   *)
(* There is one operator process at a time (main.go, leader election).     *)
(***************************************************************************)
EXTENDS EnvironmentController, ProductController

CONSTANT MaxOps   \* bound on the writes of users

ASSUME OpsAssumption == MaxOps \in Nat

VARIABLE ops      \* writes users have made

vars == <<clusterVars, chart, envVars, prodVars, ops>>

Init == ClusterInit /\ ChartInit /\ EnvInit /\ ProdInit /\ ops = 0

TypeOK == /\ ClusterTypeOK /\ ChartTypeOK /\ EnvTypeOK /\ ProdTypeOK
          /\ ops \in Nat

-----------------------------------------------------------------------------
\* Users write resources through the API server: it sets generation, keeps a
\* deleted object while it has a finalizer, and lets a user change the spec of
\* an object that is being deleted.

UserOp == ops < MaxOps /\ ops' = ops + 1

UserUnchanged ==
  UNCHANGED <<envVars, prodVars, chart, release, envQ, prodQ, faults>>

CreateEnv(e, s) ==
  LET now == Current(envLog[e]) IN
  /\ UserOp
  /\ ~now.live
  /\ WriteEnv(e, [now EXCEPT !.live = TRUE, !.spec = s, !.gen = 1])
  /\ UNCHANGED prodLog
  /\ UserUnchanged

EditEnv(e, s) ==
  LET now == Current(envLog[e]) IN
  /\ UserOp
  /\ now.live /\ s # now.spec
  /\ WriteEnv(e, [now EXCEPT !.spec = s, !.gen = @ + 1])
  /\ UNCHANGED prodLog
  /\ UserUnchanged

DeleteEnv(e) ==
  LET now == Current(envLog[e]) IN
  /\ UserOp
  /\ now.live /\ ~now.del
  /\ WriteEnv(e, IF now.fin THEN [now EXCEPT !.del = TRUE, !.gen = @ + 1]
                            ELSE EnvGone(now.rv))
  /\ UNCHANGED prodLog
  /\ UserUnchanged

CreateProd(p, s, e) ==
  LET now == Current(prodLog[p]) IN
  /\ UserOp
  /\ ~now.live
  /\ WriteProd(p, [now EXCEPT !.live = TRUE, !.spec = s, !.ref = e])
  /\ UNCHANGED envLog
  /\ UserUnchanged

EditProd(p, s, e) ==
  LET now == Current(prodLog[p]) IN
  /\ UserOp
  /\ now.live /\ <<s, e>> # <<now.spec, now.ref>>
  /\ WriteProd(p, [now EXCEPT !.spec = s, !.ref = e])
  /\ UNCHANGED envLog
  /\ UserUnchanged

DeleteProd(p) ==
  LET now == Current(prodLog[p]) IN
  /\ UserOp
  /\ now.live /\ ~now.del
  /\ WriteProd(p, IF now.fin THEN [now EXCEPT !.del = TRUE]
                             ELSE ProdGone(now.rv))
  /\ UNCHANGED envLog
  /\ UserUnchanged

UserStep ==
  \/ \E e \in Envs : \/ \E s \in Specs : CreateEnv(e, s) \/ EditEnv(e, s)
                     \/ DeleteEnv(e)
  \/ \E p \in Products :
       \/ \E s \in Specs, e \in Envs : CreateProd(p, s, e) \/ EditProd(p, s, e)
       \/ DeleteProd(p)

-----------------------------------------------------------------------------
\* The operator dies, wherever its workers are, and starts again in a new
\* container: the caches are filled from the API server, every object there is
\* enqueued, and the chart has to be downloaded again.
Crash ==
  /\ Fault("crash")
  /\ chart' = "absent"
  /\ Return
  /\ pending' = [k \in Kinds |-> {}]
  /\ envLog' = [e \in Envs |-> <<Current(envLog[e])>>]
  /\ prodLog' = [p \in Products |-> <<Current(prodLog[p])>>]
  /\ prodQ' = {p \in Products : Current(prodLog[p]).live}
  /\ envQ' = {e \in Envs : Current(envLog[e]).live}
             \cup {Current(prodLog[p]).ref : p \in prodQ'}
  /\ UNCHANGED <<release, ops>>

Deliver == \/ \E e \in Envs : DeliverEnv(e)
           \/ \E p \in Products : DeliverProd(p)

Next ==
  \/ EnvStep /\ UNCHANGED <<prodVars, ops>>
  \/ ProdStep /\ UNCHANGED <<envVars, chart, ops>>
  \/ Deliver /\ UNCHANGED <<envVars, prodVars, chart, ops>>
  \/ UserStep
  \/ Crash

Spec == Init /\ [][Next]_vars

(***************************************************************************)
(* The informers deliver, a worker that has begun a reconcile carries on,  *)
(* and the work queues are first-in first-out, so that no request waits    *)
(* forever.  Nothing makes users act or faults strike.                     *)
(***************************************************************************)
EnvContinues == pc # "idle" /\ EnvStep

ProdReconcile(p) == \/ ProdNotFound(p)
                    \/ ProdRemoveFinalizer(p)
                    \/ ProdAddFinalizer(p)
                    \/ EnvFound(p)
                    \/ EnvMissing(p)

Fairness ==
  /\ \A e \in Envs : /\ WF_vars(DeliverEnv(e) /\ UNCHANGED <<envVars, prodVars, chart, ops>>)
                     /\ SF_vars(Reconcile(e) /\ UNCHANGED <<prodVars, chart, ops>>)
  /\ WF_vars(EnvContinues /\ UNCHANGED <<prodVars, ops>>)
  /\ \A p \in Products :
       /\ WF_vars(DeliverProd(p) /\ UNCHANGED <<envVars, prodVars, chart, ops>>)
       /\ SF_vars(ProdReconcile(p) /\ UNCHANGED <<envVars, chart, ops>>)
       /\ WF_vars(/\ \E m \in pending[KindOf[p]] : m[1] = p /\ PatchPending(p, m[2])
                  /\ UNCHANGED <<envVars, chart, ops>>)

FairSpec == Spec /\ Fairness

-----------------------------------------------------------------------------
EnvNow(e) == Current(envLog[e])
ProdNow(p) == Current(prodLog[p])
ReleaseNow(e) == release[ReleaseOf[e][EnvNow(e).spec]]

\* A release that Helm lists always has its environment, held by the finalizer:
\* whatever the caches missed, and wherever the operator died, none is left
\* behind without an object whose deletion uninstalls it.
ListedGuarded ==
  \A e \in Envs, s \in Specs :
    Listed(release[ReleaseOf[e][s]]) => EnvNow(e).live /\ EnvNow(e).fin

\* An environment that reports Ready for its present generation has a release
\* made from its present spec: setReady reports the generation deployed, not
\* one a user has written since, nor one of an earlier object of this name.
ReadyDeployed ==
  \A e \in Envs :
    /\ EnvNow(e).live /\ ~EnvNow(e).del
    /\ EnvNow(e).phase = "Ready" /\ EnvNow(e).obs = EnvNow(e).gen
    => /\ NameInUse(ReleaseNow(e))
       /\ ReleaseNow(e).values.spec = EnvNow(e).spec

\* Nothing is under way in the environment controller, nor about to be.
EnvQuiet ==
  /\ pc = "idle"
  /\ envQ = {}
  /\ \A e \in Envs : Len(envLog[e]) = 1
  /\ \A p \in Products : Len(prodLog[p]) = 1

Members(e) == {p \in Products : ProdNow(p).live /\ ProdNow(p).ref = e}

\* What the environment's spec and the product CRs ask for is what is deployed.
Deployed(e) ==
  /\ ~EnvNow(e).del
  /\ EnvNow(e).phase = "Ready"
  /\ EnvNow(e).obs = EnvNow(e).gen
  /\ ReleaseNow(e).status = "deployed"
  /\ ReleaseNow(e).values.spec = EnvNow(e).spec
  /\ \E S \in Firsts(Members(e)) :
       ReleaseNow(e).values.prods = {<<p, ProdNow(p).spec>> : p \in S}

\* No wake-up is lost: when the controller rests, every environment is deployed
\* as it stands and says so.  A change that came in while a reconcile was under
\* way, a status patch computed from a stale copy, a refused write or a crash
\* has left a request in the queue or an event on its way.
QuietDeployed == EnvQuiet => \A e \in Envs : EnvNow(e).live => Deployed(e)

\* The same for the products: at rest, each product of an environment reports
\* Ready and the release that manages it, although the product controller and
\* the environment controller patch the same status from stale copies.  Only a
\* patch that failed, whose error is ignored, can leave it otherwise.
QuietReported ==
  EnvQuiet /\ faults["patch"] = 0 =>
    \A p \in Products :
      ProdNow(p).live /\ EnvNow(ProdNow(p).ref).live =>
        /\ ProdNow(p).phase = "Ready"
        /\ ProdNow(p).rel = EnvNow(ProdNow(p).ref).rel

\* The controllers implement ReleaseLifecycle: they never
\* write a release whose object the finalizer does not hold, never uninstall
\* that of an object nobody deleted, even when the cache still shows the deletion
\* of an earlier object of this name, and never let an object go before its
\* release.
ObjectState(e) ==
  IF ~EnvNow(e).live THEN "none"
  ELSE IF ~EnvNow(e).fin THEN "new"
  ELSE IF EnvNow(e).del THEN "dying" ELSE "held"

ReleaseState(r) ==
  CASE Listed(r) -> "listed"
    [] r.status = "absent" -> "absent"
    [] r.status = "pending" -> "writing"
    [] r.status = "uninstalling" -> "deleting"

ReleaseNames(e) == {ReleaseOf[e][s] : s \in Specs}

Life == INSTANCE ReleaseLifecycle WITH
          Objects <- Envs,
          Names <- Releases,
          NamesOf <- [e \in Envs |-> ReleaseNames(e)],
          object <- [e \in Envs |-> ObjectState(e)],
          rel <- [n \in Releases |-> ReleaseState(release[n])]

Lifecycle == Life!Spec

\* The observed generation of an environment never goes back while it exists:
\* no reconcile works from an older version than the one before it.
ObservedForward ==
  [][\A e \in Envs :
       EnvNow(e).live /\ EnvNow(e)'.live => EnvNow(e)'.obs >= EnvNow(e).obs]_vars

\* The finalizer of an environment never goes while the release that its last
\* spec names is listed, even if users have just renamed it: a deletion that
\* uninstalled another release is refused by a conflict and starts again.
LastReleaseGone ==
  [][\A e \in Envs :
       EnvNow(e).fin /\ ~EnvNow(e)'.live => ~Listed(ReleaseNow(e))]_vars

\* An environment that is not being deleted and has nothing wrong in its spec or
\* in those of its products.
Sound(e) == /\ EnvNow(e).live /\ ~EnvNow(e).del
            /\ EnvNow(e).spec \notin BadSpecs
            /\ \A p \in Members(e) : ProdNow(p).spec \notin BadSpecs

\* A sound environment gets Ready once users and faults have stopped, unless the
\* chart is truncated or an operation that was cut short holds its name.
Recovers ==
  <>[](\A e \in Envs :
         /\ Sound(e)
         /\ chart # "partial"
         /\ ReleaseNow(e).status \notin {"pending", "uninstalling"}
         => EnvNow(e).phase = "Ready")

\* A product whose controller has missed its environment reports Pending in the
\* end, unless it sees the environment later: a patch that failed is repeated,
\* and one computed from a stale copy too.
WaitingShown ==
  \A p \in Products :
    (\E m \in pending[KindOf[p]] : m[1] = p)
      ~> \/ ~ProdNow(p).live
         \/ Cached(envLog[ProdNow(p).ref]).live
         \/ ProdNow(p).phase = "Pending"

\* The deletion of an environment comes to its end.
DeletionEnds == \A e \in Envs : EnvNow(e).del ~> ~EnvNow(e).live

\* The controller comes to rest, or a failure that persists keeps it trying: its
\* own status patches, each of which wakes it through its watches, and the
\* Pending patches of the product controllers do not keep it deploying forever.
ComesToRest == <>[]EnvQuiet \/ []<>(outcome = "Failed")
=============================================================================
