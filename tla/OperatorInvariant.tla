-------------------------- MODULE OperatorInvariant --------------------------
(***************************************************************************)
(* Why the properties of PingOperator hold: predicates that every step     *)
(* preserves, and from which the properties follow.                        *)
(***************************************************************************)
EXTENDS PingOperator

\* Every environment has one release name, and shares it with no other: the
\* tenantId of an environment is never edited nor used twice.
StableNames ==
  \A e, f \in Envs : \A s, t \in Specs : ReleaseOf[e][s] = ReleaseOf[f][t] <=> e = f

\* No two environments share a release name, though one may be renamed.
OwnNames ==
  \A e, f \in Envs : \A s, t \in Specs : ReleaseOf[e][s] = ReleaseOf[f][t] => e = f

Deploying == {"deploy", "applying", "status", "products"}
Deleting == {"uninstall", "uninstalling", "unfinalize"}

\* resourceVersions grow along a log.
Ordered ==
  \A e \in Envs : \A i, j \in 1 .. Len(envLog[e]) :
    i < j => envLog[e][i].rv < envLog[e][j].rv

\* While the cache or an event on its way shows an object held by the finalizer
\* and not being deleted, the finalizer is on the object: nobody takes it away
\* before the controller has seen the deletion.
HeldOnceSeen ==
  \A e \in Envs : \A i, j \in 1 .. Len(envLog[e]) :
    /\ i <= j
    /\ envLog[e][i].live /\ envLog[e][i].fin /\ ~envLog[e][i].del
    => envLog[e][j].live /\ envLog[e][j].fin

\* The object of a deployment under way is held by the finalizer.
WorkerHolds == pc \in Deploying => EnvNow(cur).live /\ EnvNow(cur).fin

\* A deletion under way works from a version with a deletionTimestamp.
WorkerDeletes == pc \in Deleting => copy.del

\* The copy the controller works from has been in the cache: the cache never
\* goes back, and holds that copy or a later one.
CopySeen ==
  pc # "idle" =>
    /\ copy.rv <= Cached(envLog[cur]).rv
    /\ copy.rv = Cached(envLog[cur]).rv => copy = Cached(envLog[cur])

\* The finalizer is removed only once Helm lists no release.
Uninstalled ==
  pc = "unfinalize" => \A n \in ReleaseNames(cur) : ~Listed(release[n])

\* What the controller knows from its copies and caches, under any names.
Tracked == Ordered /\ HeldOnceSeen /\ WorkerHolds /\ WorkerDeletes /\ CopySeen

\* No listed release without its object, inductively.
Guarded == Tracked /\ Uninstalled /\ ListedGuarded

-----------------------------------------------------------------------------
\* What the refinement of ReleaseLifecycle needs besides.

\* While the cache or an event on its way shows an object being deleted, the
\* object has no finalizer unless it is being deleted: one created again under
\* the same name gets its finalizer only when the cache shows it.
DyingOnceSeen ==
  \A e \in Envs : \A i, j \in 1 .. Len(envLog[e]) :
    i <= j /\ envLog[e][i].live /\ envLog[e][i].del /\ envLog[e][j].fin
    => envLog[e][j].del

\* So a deletion under way is that of an object that dies, if it is still held;
\* and while Helm uninstalls it is.
WorkerLetsDie ==
  /\ pc \in Deleting /\ EnvNow(cur).fin => EnvNow(cur).del
  /\ pc = "uninstalling" => EnvNow(cur).live /\ EnvNow(cur).fin

\* While Helm works on a release nobody else does.
WorkerOwns == /\ pc = "applying" => Rel.status = "pending"
              /\ pc = "uninstalling" => Rel.status = "uninstalling"

Lasting == DyingOnceSeen /\ WorkerLetsDie /\ WorkerOwns

-----------------------------------------------------------------------------
\* What the reports rest on.

\* A deployment is taken from an object held by the finalizer and not dying.
Held(v) == v.live /\ v.fin /\ ~v.del

\* An observed generation has been reached, and Ready is said of held objects;
\* nothing is left of the reports on an object that has gone.
Observed(v) == /\ v.obs <= v.gen
               /\ v.phase = "Ready" => v.fin
               /\ ~v.live => v.obs = 0

\* What a version tells of a later one.  One that was held is the same object:
\* its generation tells whether it has been edited or its deletion requested,
\* and no later generation has been reported.  One that was dying is not held
\* again before the cache has moved on.
Tells(a, b) ==
  /\ Held(a) => /\ a.gen <= b.gen /\ b.obs <= a.gen
                /\ b.gen = a.gen => b.spec = a.spec /\ ~b.del
  /\ a.live /\ a.del /\ b.fin => b.del

LogsTell ==
  \A e \in Envs : \A i, j \in 1 .. Len(envLog[e]) :
    i <= j => Observed(envLog[e][i]) /\ Tells(envLog[e][i], envLog[e][j])

\* So does the copy the worker works from, of all that is in the cache or on its
\* way: nothing deployed since is undone by the deployment under way.
CopyTells ==
  pc # "idle" =>
    /\ pc \in Deploying => Held(copy)
    /\ \A i \in 1 .. Len(envLog[cur]) : Tells(copy, envLog[cur][i])

\* What Helm writes, or has written when the report is Ready, is made from the
\* spec of the copy.
WorkerDeploys ==
  /\ pc = "deploy" => values.spec = copy.spec
  /\ pc = "applying" \/ (pc = "status" /\ outcome = "Ready") =>
       NameInUse(Rel) /\ Rel.values.spec = copy.spec

Truthful == LogsTell /\ CopyTells /\ WorkerDeploys

-----------------------------------------------------------------------------
\* Why no wake-up is lost.

\* The environment is waiting in the queue, or an event that puts it there is on
\* its way.
Asked(e) == e \in envQ \/ Len(envLog[e]) > 1

\* The values are made from the products of e the cache shows.
MadeOf(v, log, e) ==
  LET L == {p \in Products : Cached(log[p]).live /\ Cached(log[p]).ref = e} IN
  \E S \in Firsts(L) : v.prods = {<<p, Cached(log[p]).spec>> : p \in S}

\* The environment the cache shows is deployed with the products it shows.
Served(e) ==
  LET c == Cached(envLog[e])
      r == release[ReleaseOf[e][c.spec]]
  IN
  /\ ~c.del /\ c.phase = "Ready" /\ c.obs = c.gen
  /\ r.status = "deployed" /\ r.values.spec = c.spec
  /\ MadeOf(r.values, prodLog, e)

\* An environment that nobody has to look at again is served.
Remembered(e) ==
  Cached(envLog[e]).live => Asked(e) \/ (pc # "idle" /\ cur = e) \/ Served(e)

NoneForgotten == \A e \in Envs : Remembered(e)

\* The worker deploys what the cache shows, or has to look again; and what it
\* has reported without changing the status, the status said already.
WorkerServes ==
  /\ pc \in Deploying => values.spec = copy.spec
  /\ pc = "applying" => Rel.values = values
  /\ pc \in {"status", "products"} /\ outcome = "Ready" =>
       Rel.status = "deployed" /\ Rel.values = values
  /\ pc \in Deploying /\ ~Asked(cur) =>
       /\ copy = Cached(envLog[cur])
       /\ MadeOf(values, prodLog, cur)
       /\ pc = "products" /\ outcome = "Ready" =>
            copy.phase = "Ready" /\ copy.obs = copy.gen

Awake == NoneForgotten /\ WorkerServes

-----------------------------------------------------------------------------
\* Why the products are reported at rest.

\* Somebody will look at the environment, or does.
Awaited(e) == Asked(e) \/ (pc # "idle" /\ cur = e)

\* Else the environment shows the release it is deployed as,
EnvShows(e) ==
  LET c == Cached(envLog[e]) IN
  c.live /\ ~Awaited(e) => c.rel = ReleaseOf[e][c.spec]

\* and so do its products, unless a newer version of one is on its way, which
\* wakes the environment.
ProdShows(p, e) ==
  LET c == Cached(envLog[e])
      d == Cached(prodLog[p])
  IN
  /\ c.live /\ ~Awaited(e)
  /\ d.live /\ d.ref = e /\ Len(prodLog[p]) = 1
  => d.phase = "Ready" /\ d.rel = ReleaseOf[e][c.spec]

\* The worker has read all of them, and what it has reported without changing
\* anything, it had read already.
WorkerShows ==
  pc \in Deploying /\ ~Asked(cur) =>
    /\ copy = Cached(envLog[cur])
    /\ pc = "products" /\ outcome = "Ready" => copy.rel = relName
    /\ \A p \in Products :
         LET d == Cached(prodLog[p]) IN
         d.live /\ d.ref = cur /\ Len(prodLog[p]) = 1 =>
           /\ lists[p] = d
           /\ pc = "products" /\ outcome = "Ready" /\ p \notin todo =>
                d.phase = "Ready" /\ d.rel = relName

AllShow == /\ \A e \in Envs : EnvShows(e)
           /\ \A p \in Products, e \in Envs : ProdShows(p, e)
           /\ WorkerShows

Shown == faults["patch"] = 0 => AllShow
==============================================================================
