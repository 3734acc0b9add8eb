--------------------------- MODULE LifecycleProofs ---------------------------
(***************************************************************************)
(* The operator implements ReleaseLifecycle, for any number of             *)
(* environments, products and faults.                                      *)
(***************************************************************************)
EXTENDS ReleaseProofs

\* The worker goes on with its operation, or is done with it.
SameOperation ==
  /\ pc' \in Deleting => pc \in Deleting /\ cur' = cur
  /\ pc' \in {"applying", "uninstalling"} =>
       pc' = pc /\ UNCHANGED <<cur, copy, release>>

\* A version that takes its finalizer from the one before, and dies with it.
Follows(old, new) == new.fin => old.fin /\ (old.del => new.del)

-----------------------------------------------------------------------------
\* Steps that leave the environments alone.
LEMMA LastingKept ==
  ASSUME TypeInv, Lasting, SameOperation, envLog' = envLog
  PROVE  Lasting'
  <1>1. DyingOnceSeen'
    BY DEF Lasting, DyingOnceSeen
  <1>2. WorkerLetsDie'
    BY DEF Lasting, WorkerLetsDie, SameOperation, EnvNow
  <1>3. WorkerOwns'
    BY DEF Lasting, WorkerOwns, SameOperation, Rel, relName
  <1> QED
    BY <1>1, <1>2, <1>3 DEF Lasting

\* A write that adds no finalizer beside an earlier deletion.
LEMMA DyingLogs ==
  ASSUME EnvLogsOK, DyingOnceSeen, NEW e \in Envs, NEW v \in EnvVersion,
         EnvSound(v), WriteEnv(e, v),
         \A i \in 1 .. Len(envLog[e]) :
           envLog[e][i].live /\ envLog[e][i].del /\ v.fin => v.del
  PROVE  DyingOnceSeen'
  <1> DEFINE log == envLog[e]
             new == envLog'[e]
             w == [v EXCEPT !.rv = Current(log).rv + 1]
  <1>1. /\ \A f \in Envs \ {e} : envLog'[f] = envLog[f]
        /\ \/ new = log
           \/ /\ Len(new) = Len(log) + 1
              /\ \A i \in 1 .. Len(log) : new[i] = log[i]
              /\ new[Len(log) + 1] = w
    BY WriteEnvLog
  <1>2. Len(log) \in Nat \ {0}
    BY EnvEnds
  <1>3. w.fin = v.fin /\ w.del = v.del
    BY DEF EnvVersion
  <1> HIDE DEF w
  <1>4. ASSUME NEW i \in 1 .. Len(new), NEW j \in 1 .. Len(new), i <= j,
               new[i].live, new[i].del, new[j].fin
        PROVE  new[j].del
    <2>1. \A a, b \in 1 .. Len(log) :
            a <= b /\ log[a].live /\ log[a].del /\ log[b].fin => log[b].del
      BY DEF DyingOnceSeen
    <2>2. CASE new = log
      BY <1>4, <2>1, <2>2
    <2>3. CASE new # log /\ j <= Len(log)
      <3>1. i \in 1 .. Len(log) /\ j \in 1 .. Len(log)
        BY <1>2, <1>4, <2>3
      <3>2. new[i] = log[i] /\ new[j] = log[j]
        BY <1>1, <2>3, <3>1
      <3> QED
        BY <1>4, <2>1, <3>1, <3>2
    <2>4. CASE new # log /\ j > Len(log)
      <3>1. j = Len(log) + 1 /\ new[j] = w
        BY <1>1, <1>2, <2>4
      <3>2. CASE i = j
        BY <1>4, <3>2
      <3>3. CASE i < j
        <4>1. i \in 1 .. Len(log)
          BY <1>2, <3>1, <3>3
        <4>2. new[i] = log[i]
          BY <1>1, <2>4, <4>1
        <4> QED
          BY <1>3, <1>4, <3>1, <4>1, <4>2
      <3> QED
        BY <1>4, <3>2, <3>3
    <2> QED
      BY <1>2, <2>2, <2>3, <2>4
  <1> QED
    BY <1>1, <1>4 DEF DyingOnceSeen

\* Users' writes and the status patches.
LEMMA FollowingWrite ==
  ASSUME TypeInv, Lasting, SameOperation,
         NEW e \in Envs, NEW v \in EnvVersion, EnvSound(v), WriteEnv(e, v),
         Follows(Current(envLog[e]), v), Keeps(Current(envLog[e]), v)
  PROVE  Lasting'
  <1> DEFINE log == envLog[e]
             now == Current(log)
             then == Current(envLog'[e])
  <1>0. EnvLogsOK
    BY Parts DEF TypeParts
  <1>1. DyingOnceSeen'
    <2>1. \A i \in 1 .. Len(log) : log[i].live /\ log[i].del /\ v.fin => v.del
      <3> SUFFICES ASSUME NEW i \in 1 .. Len(log), log[i].live, log[i].del, v.fin
                   PROVE  v.del
        OBVIOUS
      <3>1. Len(log) \in Nat \ {0}
        BY <1>0, EnvEnds
      <3>2. i <= Len(log) /\ Len(log) \in 1 .. Len(log)
        BY <3>1
      <3>3. now.fin => now.del
        BY <3>2 DEF Lasting, DyingOnceSeen, Current
      <3> QED
        BY <3>3 DEF Follows
    <2> QED
      BY <1>0, <2>1, DyingLogs DEF Lasting
  <1>2. /\ \A f \in Envs \ {e} : EnvNow(f)' = EnvNow(f)
        /\ then.fin => now.fin /\ (now.del => then.del)
        /\ now.live /\ now.fin => then.live /\ then.fin
    <2> DEFINE w == [v EXCEPT !.rv = now.rv + 1]
    <2>1. /\ \A f \in Envs \ {e} : envLog'[f] = envLog[f]
          /\ envLog'[e] = log \/ then = w
      BY <1>0, WriteEnvLog
    <2>2. w.live = v.live /\ w.fin = v.fin /\ w.del = v.del
      BY DEF EnvVersion
    <2> HIDE DEF w
    <2> QED
      BY <2>1, <2>2 DEF Follows, Keeps, EnvNow
  <1>3. pc' \in Deleting =>
          /\ pc \in Deleting /\ cur' = cur /\ cur \in Envs
          /\ pc' = "uninstalling" => pc = "uninstalling"
    BY RelType DEF SameOperation, Deleting
  <1> HIDE DEF now, then
  <1>4. WorkerLetsDie'
    <2> SUFFICES ASSUME pc' \in Deleting
                 PROVE  /\ EnvNow(cur)'.fin => EnvNow(cur)'.del
                        /\ pc' = "uninstalling" =>
                             EnvNow(cur)'.live /\ EnvNow(cur)'.fin
      BY DEF WorkerLetsDie, Deleting
    <2>1. CASE cur = e
      BY <1>2, <1>3, <2>1 DEF Lasting, WorkerLetsDie, EnvNow, now, then
    <2>2. CASE cur # e
      BY <1>2, <1>3, <2>2 DEF Lasting, WorkerLetsDie
    <2> QED
      BY <2>1, <2>2
  <1>5. WorkerOwns'
    BY DEF Lasting, WorkerOwns, SameOperation, Rel, relName
  <1> QED
    BY <1>1, <1>4, <1>5 DEF Lasting

-----------------------------------------------------------------------------
\* A deletion is taken from the cache, and a deployment.
LEMMA TakesDeletion ==
  ASSUME TypeInv, Lasting, NEW e \in Envs,
         ReconcileDeletion(e) \/ ReconcileDeploy(e)
  PROVE  Lasting'
  <1>1. CASE ReconcileDeletion(e)
    <2>1. /\ cur' = e /\ pc' = "uninstall" /\ envLog' = envLog
          /\ Cached(envLog[e]).live /\ Cached(envLog[e]).del
      BY <1>1 DEF ReconcileDeletion
    <2>2. Len(envLog[e]) \in Nat \ {0}
      BY Parts, EnvEnds DEF TypeParts
    <2>3. 1 <= Len(envLog[e]) /\ Len(envLog[e]) \in 1 .. Len(envLog[e])
      BY <2>2
    <2>4. EnvNow(e).fin => EnvNow(e).del
      BY <2>1, <2>3 DEF Lasting, DyingOnceSeen, Cached, Current, EnvNow
    <2> QED
      BY <2>1, <2>4 DEF Lasting, DyingOnceSeen, WorkerLetsDie, WorkerOwns, EnvNow
  <1>2. CASE ReconcileDeploy(e)
    <2>1. SameOperation /\ envLog' = envLog
      BY <1>2 DEF ReconcileDeploy, Take, SameOperation, Deleting
    <2> QED
      BY <2>1, LastingKept
  <1> QED
    BY <1>1, <1>2

\* Helm marks a release as under way.
LEMMA MarksRelease ==
  ASSUME StableNames, MaxFaults["list"] = 0, TypeInv, Guarded, Lasting,
         InstallOrUpgrade \/ Uninstall
  PROVE  Lasting'
  <1>1. /\ pc # "idle" /\ cur' = cur /\ copy' = copy /\ envLog' = envLog
        /\ pc' \in Deleting => pc \in Deleting
    BY DEF InstallOrUpgrade, Uninstall, Report, Deleting
  <1>2. /\ cur \in Envs /\ copy.spec \in Specs
        /\ relName = ReleaseOf[cur][copy.spec] /\ relName \in Releases
        /\ Rel = release[relName]
        /\ release \in [Releases -> Release]
    BY <1>1, RelType, Parts DEF TypeParts
  <1>3. DyingOnceSeen'
    BY <1>1 DEF Lasting, DyingOnceSeen
  <1>4. WorkerOwns'
    <2>1. CASE InstallOrUpgrade
      BY <1>1, <1>2, <2>1 DEF InstallOrUpgrade, Report, WorkerOwns, Rel, relName, Begun
    <2>2. CASE Uninstall
      <3>1. release[relName] \in Release
        BY <1>2
      <3> QED
        BY <1>1, <1>2, <2>2, <3>1 DEF Uninstall, WorkerOwns, Rel, relName, Marked, Release
    <2> QED
      BY <2>1, <2>2
  <1>5. WorkerLetsDie'
    <2>1. pc' = "uninstalling" => Uninstall /\ Listed(Rel)
      <3>1. ~Fault("list")
        BY NoListFault
      <3> QED
        BY <3>1 DEF InstallOrUpgrade, Report, Uninstall, ReleaseExists
    <2>2. pc' = "uninstalling" => EnvNow(cur).live /\ EnvNow(cur).fin
      BY <1>2, <2>1 DEF Guarded, ListedGuarded
    <2> QED
      BY <1>1, <2>2 DEF Lasting, WorkerLetsDie, EnvNow
  <1> QED
    BY <1>3, <1>4, <1>5 DEF Lasting

\* The steps of the worker that write an environment.
LEMMA WorkerWrites ==
  ASSUME TypeInv, Guarded, Lasting,
         \/ PatchStatus
         \/ PatchStatusFails /\ StatusLands
         \/ RemoveFinalizer
         \/ \E e \in Envs : AddFinalizer(e)
  PROVE  Lasting'
  <1>0. EnvLogsOK
    BY Parts DEF TypeParts
  <1>1. CASE PatchStatus \/ (PatchStatusFails /\ StatusLands)
    <2> DEFINE now == Current(envLog[cur])
               new == EnvPatch(now, copy, Reported(copy))
    <2>0. pc = "status"
      BY <1>1 DEF PatchStatus, PatchStatusFails
    <2>1. cur \in Envs
      BY <2>0, RelType
    <2>2. /\ new \in EnvVersion
          /\ new.live = now.live /\ new.spec = now.spec
          /\ new.fin = now.fin /\ new.del = now.del
      BY <2>0, EnvPatchType
    <2>3. EnvSound(new) /\ Keeps(now, new) /\ Follows(now, new)
      BY <1>0, <2>1, <2>2, EnvEnds DEF EnvSound, Keeps, Follows
    <2>4. WriteEnv(cur, new)
      BY <1>1 DEF PatchStatus, PatchStatusFails, StatusLands
    <2>5. SameOperation
      BY <1>1 DEF PatchStatus, PatchStatusFails, Return, SameOperation, Deleting
    <2> HIDE DEF new
    <2> QED
      BY <2>1, <2>2, <2>3, <2>4, <2>5, FollowingWrite
  <1>2. ASSUME NEW e \in Envs, AddFinalizer(e)
        PROVE  Lasting'
    <2> DEFINE log == envLog[e]
               c == Cached(log)
               v == [c EXCEPT !.fin = TRUE]
    <2>1. c \in EnvVersion /\ EnvSound(c) /\ Current(log) \in EnvVersion
      BY <1>0, EnvEnds
    <2>2. v \in EnvVersion /\ v.live = c.live /\ v.spec = c.spec
      BY <2>1 DEF EnvVersion
    <2>3. WriteEnv(e, v) /\ c.live /\ ~c.del /\ Fresh(log, c)
      BY <1>2 DEF AddFinalizer
    <2>4. EnvSound(v)
      BY <2>1, <2>2, <2>3 DEF EnvSound
    <2>5. Len(log) = 1
      <3>1. Current(log).rv <= c.rv
        BY <2>1, <2>3 DEF Fresh, EnvVersion
      <3> QED
        BY <1>0, <3>1, FreshOne DEF Guarded, Tracked
    <2>6. \A i \in 1 .. Len(log) : ~log[i].del
      <3>1. \A i \in 1 .. Len(log) : i = 1
        BY <2>5
      <3> QED
        BY <2>3, <3>1 DEF Cached
    <2>7. DyingOnceSeen'
      <3> HIDE DEF v
      <3> QED
        BY <1>0, <2>2, <2>3, <2>4, <2>6, DyingLogs DEF Lasting
    <2>8. pc' = "idle"
      BY <1>2 DEF AddFinalizer, envVars
    <2> QED
      BY <2>7, <2>8 DEF Lasting, WorkerLetsDie, WorkerOwns, Deleting
  <1>3. CASE RemoveFinalizer
    <2> DEFINE gone == EnvGone(copy.rv)
    <2>1. pc = "unfinalize" /\ pc' = "idle" /\ release' = release
      BY <1>3 DEF RemoveFinalizer, Return
    <2>2. cur \in Envs /\ copy.rv \in Nat
      BY <2>1, RelType DEF EnvVersion
    <2>3. gone \in EnvVersion /\ EnvSound(gone) /\ ~gone.fin
      BY <2>2, EnvGoneVersion DEF EnvSound
    <2>4. DyingOnceSeen'
      <3>1. envLog' = envLog \/ WriteEnv(cur, gone)
        BY <1>3 DEF RemoveFinalizer
      <3>2. CASE envLog' = envLog
        BY <3>2 DEF Lasting, DyingOnceSeen
      <3>3. CASE WriteEnv(cur, gone)
        <4> HIDE DEF gone
        <4> QED
          BY <1>0, <2>2, <2>3, <3>3, DyingLogs DEF Lasting
      <3> QED
        BY <3>1, <3>2, <3>3
    <2> QED
      BY <2>1, <2>4 DEF Lasting, WorkerLetsDie, WorkerOwns, Deleting
  <1> QED
    BY <1>1, <1>2, <1>3

\* The steps of the worker that write no environment and mark no release.
LEMMA WorkerProceeds ==
  ASSUME TypeInv, Lasting,
         \/ \E e \in Envs : ReconcileNotFound(e)
         \/ ChartFails \/ DownloadChart \/ HelmDone \/ ReconcileDone \/ UninstallDone
         \/ PatchStatusFails /\ envLog' = envLog
         \/ \E p \in Products : updateProductStatus(p)
  PROVE  Lasting'
  <1>1. envLog' = envLog
    BY DEF ReconcileNotFound, ChartFails, clusterVars, DownloadChart, HelmDone,
           ReconcileDone, UninstallDone, updateProductStatus
  <1>2. SameOperation
    <2>1. CASE \E e \in Envs : ReconcileNotFound(e)
      BY <2>1 DEF ReconcileNotFound, SameOperation, envVars
    <2>2. CASE ChartFails \/ DownloadChart \/ HelmDone
      BY <2>2 DEF ChartFails, DownloadChart, HelmDone, Report, envVars,
                  SameOperation, Deleting
    <2>3. CASE PatchStatusFails \/ ReconcileDone \/ UninstallDone
      BY <2>3 DEF PatchStatusFails, ReconcileDone, UninstallDone, Return,
                  SameOperation, Deleting
    <2>4. CASE \E p \in Products : updateProductStatus(p)
      BY <2>4 DEF updateProductStatus, SameOperation, Deleting
    <2> QED
      BY <2>1, <2>2, <2>3, <2>4
  <1> QED
    BY <1>1, <1>2, LastingKept

\* The cache moves on to a later version.
LEMMA LastingDelivers ==
  ASSUME TypeInv, Lasting, NEW e \in Envs, DeliverEnv(e), UNCHANGED envVars
  PROVE  Lasting'
  <1> DEFINE log == envLog[e]
             new == envLog'[e]
  <1>0. EnvLogsOK
    BY Parts DEF TypeParts
  <1>1. /\ \A f \in Envs \ {e} : envLog'[f] = envLog[f]
        /\ Len(new) = Len(log) - 1
        /\ \A i \in 1 .. Len(new) : new[i] = log[i + 1]
        /\ \A f \in Envs : EnvNow(f)' = EnvNow(f)
    BY <1>0, DeliverEnvLog DEF EnvNow
  <1>2. /\ Len(log) \in Nat /\ Len(log) > 1
        /\ release' = release /\ pc' = pc /\ cur' = cur /\ copy' = copy
    BY <1>0, EnvEnds DEF DeliverEnv, envVars
  <1>3. DyingOnceSeen'
    <2>1. ASSUME NEW i \in 1 .. Len(new), NEW j \in 1 .. Len(new), i <= j,
                 new[i].live, new[i].del, new[j].fin
          PROVE  new[j].del
      <3>1. i + 1 \in 1 .. Len(log) /\ j + 1 \in 1 .. Len(log) /\ i + 1 <= j + 1
        BY <1>1, <1>2, <2>1
      <3>2. new[i] = log[i + 1] /\ new[j] = log[j + 1]
        BY <1>1
      <3> QED
        BY <2>1, <3>1, <3>2 DEF Lasting, DyingOnceSeen
    <2> QED
      BY <1>1, <2>1 DEF Lasting, DyingOnceSeen
  <1>4. pc # "idle" => cur \in Envs
    BY RelType
  <1>5. WorkerLetsDie'
    BY <1>1, <1>2, <1>4 DEF Lasting, WorkerLetsDie, Deleting
  <1>6. WorkerOwns'
    BY <1>2 DEF Lasting, WorkerOwns, Rel, relName
  <1> QED
    BY <1>3, <1>5, <1>6 DEF Lasting

\* After a crash the caches are current and no worker is at work.
LEMMA LastingRestarts ==
  ASSUME TypeInv, Crash
  PROVE  Lasting'
  <1>1. pc' = "idle" /\ \A e \in Envs : Len(envLog'[e]) = 1
    BY CrashLogs DEF Crash, Return
  <1>2. \A e \in Envs : \A i, j \in 1 .. Len(envLog'[e]) : i = j
    <2> SUFFICES ASSUME NEW e \in Envs, NEW i \in 1 .. Len(envLog'[e]),
                        NEW j \in 1 .. Len(envLog'[e])
                 PROVE  i = j
      OBVIOUS
    <2>1. Len(envLog'[e]) = 1
      BY <1>1
    <2> QED
      BY <2>1
  <1>3. DyingOnceSeen'
    <2> SUFFICES ASSUME NEW e \in Envs, NEW i \in 1 .. Len(envLog'[e]),
                        NEW j \in 1 .. Len(envLog'[e]), envLog'[e][i].del
                 PROVE  envLog'[e][j].del
      BY DEF DyingOnceSeen
    <2> QED
      BY <1>2
  <1> QED
    BY <1>1, <1>3 DEF Lasting, WorkerLetsDie, WorkerOwns, Deleting

\* The product controllers, the informers of products, and users.
LEMMA OthersLasting ==
  ASSUME TypeInv, Lasting,
         \/ ProdStep /\ UNCHANGED envVars
         \/ (\E p \in Products : DeliverProd(p)) /\ UNCHANGED envVars
         \/ UserStep
         \/ UNCHANGED <<envLog, release, envVars>>
  PROVE  Lasting'
  <1>1. UNCHANGED <<release, envVars>> => SameOperation
    BY DEF SameOperation, envVars
  <1>2. CASE UNCHANGED <<envLog, release, envVars>>
    BY <1>1, <1>2, LastingKept
  <1>3. CASE ProdStep /\ UNCHANGED envVars
    BY <1>2, <1>3, ProductsKeep
  <1>4. CASE (\E p \in Products : DeliverProd(p)) /\ UNCHANGED envVars
    BY <1>2, <1>4, ProductsKeep
  <1>5. CASE UserStep
    <2>1. UNCHANGED <<envVars, release>>
      BY <1>5, UserWrites DEF UserUnchanged
    <2>2. CASE envLog' = envLog
      BY <1>2, <2>1, <2>2
    <2>3. ASSUME NEW e \in Envs, NEW v \in EnvVersion, EnvSound(v),
                 UserWrote(Current(envLog[e]), v), WriteEnv(e, v)
          PROVE  Lasting'
      <3>1. EnvSound(Current(envLog[e]))
        BY Parts, EnvEnds DEF TypeParts
      <3>2. Keeps(Current(envLog[e]), v) /\ Follows(Current(envLog[e]), v)
        BY <2>3, <3>1 DEF UserWrote, Keeps, Follows, EnvSound
      <3> QED
        BY <1>1, <2>1, <2>3, <3>2, FollowingWrite
    <2> QED
      BY <1>5, <2>2, <2>3, UserWrites
  <1> QED
    BY <1>2, <1>3, <1>4, <1>5

LEMMA StepLasting ==
  ASSUME StableNames, MaxFaults["list"] = 0, TypeInv, Guarded, Lasting, [Next]_vars
  PROVE  Lasting'
  <1>1. CASE EnvStep
    <2>1. CASE PatchStatusFails
      BY <2>1, WorkerProceeds, WorkerWrites DEF PatchStatusFails
    <2> QED
      BY <1>1, <2>1, TakesDeletion, MarksRelease, WorkerWrites, WorkerProceeds
         DEF EnvStep, Reconcile
  <1>2. CASE Deliver /\ UNCHANGED envVars
    BY <1>2, LastingDelivers, OthersLasting DEF Deliver
  <1>3. CASE Crash
    BY <1>3, LastingRestarts
  <1>4. CASE ProdStep /\ UNCHANGED envVars
    BY <1>4, OthersLasting
  <1>5. CASE UserStep
    BY <1>5, OthersLasting
  <1>6. CASE UNCHANGED vars
    BY <1>6, OthersLasting DEF vars, clusterVars
  <1> QED
    BY <1>1, <1>2, <1>3, <1>4, <1>5, <1>6 DEF Next

LEMMA InitLasting == Init => Lasting
  <1> SUFFICES ASSUME Init PROVE Lasting
    OBVIOUS
  <1>1. DyingOnceSeen
    <2> SUFFICES ASSUME NEW e \in Envs, NEW i \in 1 .. Len(envLog[e])
                 PROVE  ~envLog[e][i].live
      BY DEF DyingOnceSeen
    <2>1. envLog[e] = <<EnvGone(0)>>
      BY DEF Init, ClusterInit
    <2> QED
      BY <2>1 DEF EnvGone
  <1> QED
    BY <1>1 DEF Init, EnvInit, Lasting, WorkerLetsDie, WorkerOwns, Deleting

-----------------------------------------------------------------------------
\* The refinement mapping.

ObjectsMapped == [e \in Envs |-> ObjectState(e)]
ReleasesMapped == [n \in Releases |-> ReleaseState(release[n])]

LEMMA MappedNext ==
  ReleasesMapped' = [n \in Releases |-> ReleaseState(release'[n])]
  BY DEF ReleasesMapped, ReleaseState

\* The states of a release.
LEMMA ReleaseStates ==
  ASSUME NEW r \in Release
  PROVE  /\ Listed(r) <=> ReleaseState(r) = "listed"
         /\ r.status = "absent" => ReleaseState(r) = "absent"
         /\ r.status = "pending" => ReleaseState(r) = "writing"
         /\ r.status = "uninstalling" => ReleaseState(r) = "deleting"
  BY DEF ReleaseState, Listed, Release, Statuses

\* Nothing that the abstract specification sees has changed.
LEMMA Unseen ==
  ASSUME \A e \in Envs : ObjectState(e)' = ObjectState(e), release' = release
  PROVE  UNCHANGED Life!lifeVars
  BY DEF Life!lifeVars, ReleaseState

\* One object moves.
LEMMA ObjectMoves ==
  ASSUME TypeInv, NEW e \in Envs,
         \A f \in Envs \ {e} : ObjectState(f)' = ObjectState(f),
         release' = release,
         \/ ObjectState(e)' = ObjectState(e)
         \/ ObjectState(e) = "none" /\ ObjectState(e)' = "new"
         \/ ObjectState(e) = "new" /\ ObjectState(e)' \in {"none", "held"}
         \/ ObjectState(e) = "held" /\ ObjectState(e)' = "dying"
         \/ /\ ObjectState(e) = "dying" /\ ObjectState(e)' = "none"
            /\ \A n \in ReleaseNames(e) : ~Listed(release[n])
  PROVE  [Life!Next]_(Life!lifeVars)
  <1>1. CASE ObjectState(e)' = ObjectState(e)
    BY <1>1, Unseen
  <1>2. ASSUME NEW from, NEW to, ObjectState(e) = from, ObjectState(e)' = to
        PROVE  Life!Goes(e, from, to)
    <2>1. ObjectsMapped' = [ObjectsMapped EXCEPT ![e] = to]
      BY <1>2 DEF ObjectsMapped
    <2>2. ObjectsMapped[e] = from
      BY <1>2 DEF ObjectsMapped
    <2>3. ReleasesMapped' = ReleasesMapped
      BY MappedNext DEF ReleasesMapped
    <2> QED
      BY <2>1, <2>2, <2>3 DEF Life!Goes, ObjectsMapped, ReleasesMapped
  <1>3. CASE ObjectState(e) = "none" /\ ObjectState(e)' = "new"
    BY <1>2, <1>3 DEF Life!Next, Life!Create
  <1>4. CASE ObjectState(e) = "new" /\ ObjectState(e)' = "none"
    BY <1>2, <1>4 DEF Life!Next, Life!Drop
  <1>5. CASE ObjectState(e) = "new" /\ ObjectState(e)' = "held"
    BY <1>2, <1>5 DEF Life!Next, Life!Hold
  <1>6. CASE ObjectState(e) = "held" /\ ObjectState(e)' = "dying"
    BY <1>2, <1>6 DEF Life!Next, Life!Die
  <1>7. CASE /\ ObjectState(e) = "dying" /\ ObjectState(e)' = "none"
             /\ \A n \in ReleaseNames(e) : ~Listed(release[n])
    <2>1. Life!Goes(e, "dying", "none")
      BY <1>2, <1>7
    <2>2. \A n \in ReleaseNames(e) : ReleasesMapped[n] # "listed"
      BY <1>7, ReleaseStates, ReleasesAssumption, Parts
         DEF ReleaseNames, ReleasesMapped, TypeParts
    <2> QED
      BY <2>1, <2>2 DEF Life!Next, Life!LetGo, ReleasesMapped
  <1> QED
    BY <1>1, <1>3, <1>4, <1>5, <1>6, <1>7

\* One release moves.
LEMMA ReleaseMoves ==
  ASSUME TypeInv, NEW e \in Envs, NEW n \in ReleaseNames(e), envLog' = envLog,
         NEW r, release' = [release EXCEPT ![n] = r],
         \/ /\ ObjectState(e) \in {"held", "dying"}
            /\ ReleaseState(release[n]) \in {"absent", "listed"}
            /\ ReleaseState(r) = "writing"
         \/ /\ ObjectState(e) \in {"held", "dying"}
            /\ ReleaseState(release[n]) = "writing"
            /\ ReleaseState(r) = "listed"
         \/ /\ ObjectState(e) = "dying"
            /\ ReleaseState(release[n]) = "listed"
            /\ ReleaseState(r) = "deleting"
         \/ /\ ObjectState(e) = "dying"
            /\ ReleaseState(release[n]) = "deleting"
            /\ ReleaseState(r) = "absent"
  PROVE  Life!Next
  <1>1. ASSUME NEW from, ReleaseState(release[n]) \in from
        PROVE  Life!Moves(n, from, ReleaseState(r))
    <2>1. /\ n \in Releases
          /\ ReleasesMapped' = [ReleasesMapped EXCEPT ![n] = ReleaseState(r)]
      BY MappedNext, ReleasesAssumption, Parts
         DEF ReleasesMapped, ReleaseNames, TypeParts
    <2>2. ObjectsMapped' = ObjectsMapped
      BY DEF ObjectsMapped, ObjectState, EnvNow
    <2> QED
      BY <1>1, <2>1, <2>2 DEF Life!Moves, ReleasesMapped, ObjectsMapped
  <1>2. CASE /\ ObjectState(e) \in {"held", "dying"}
             /\ ReleaseState(release[n]) \in {"absent", "listed"}
             /\ ReleaseState(r) = "writing"
    BY <1>1, <1>2 DEF Life!Next, Life!Write, Life!Held
  <1>3. CASE /\ ObjectState(e) \in {"held", "dying"}
             /\ ReleaseState(release[n]) = "writing"
             /\ ReleaseState(r) = "listed"
    BY <1>1, <1>3 DEF Life!Next, Life!Finish, Life!Held
  <1>4. CASE /\ ObjectState(e) = "dying"
             /\ ReleaseState(release[n]) = "listed"
             /\ ReleaseState(r) = "deleting"
    BY <1>1, <1>4 DEF Life!Next, Life!Mark
  <1>5. CASE /\ ObjectState(e) = "dying"
             /\ ReleaseState(release[n]) = "deleting"
             /\ ReleaseState(r) = "absent"
    BY <1>1, <1>5 DEF Life!Next, Life!Purge
  <1> QED
    BY <1>2, <1>3, <1>4, <1>5

\* Steps that write no environment and no release are unseen.
LEMMA UnseenStep ==
  ASSUME envLog' = envLog, release' = release
  PROVE  [Life!Next]_(Life!lifeVars)
  BY Unseen DEF ObjectState, EnvNow

\* Users create an object, drop one nobody holds, or ask for its deletion.
LEMMA UserMoves ==
  ASSUME TypeInv, NEW e \in Envs, NEW v \in EnvVersion, EnvSound(v),
         UserWrote(EnvNow(e), v), WriteEnv(e, v), release' = release
  PROVE  [Life!Next]_(Life!lifeVars)
  <1>0. EnvLogsOK
    BY Parts DEF TypeParts
  <1>1. /\ \A f \in Envs \ {e} : EnvNow(f)' = EnvNow(f)
        /\ EnvSound(EnvNow(e))
        /\ \/ EnvNow(e)' = EnvNow(e)
           \/ /\ EnvNow(e)'.live = v.live /\ EnvNow(e)'.fin = v.fin
              /\ EnvNow(e)'.del = v.del
    <2> DEFINE w == [v EXCEPT !.rv = Current(envLog[e]).rv + 1]
    <2>1. /\ \A f \in Envs \ {e} : envLog'[f] = envLog[f]
          /\ envLog'[e] = envLog[e] \/ Current(envLog'[e]) = w
      BY <1>0, WriteEnvLog
    <2>2. w.live = v.live /\ w.fin = v.fin /\ w.del = v.del
      BY DEF EnvVersion
    <2> HIDE DEF w
    <2> QED
      BY <1>0, <2>1, <2>2, EnvEnds DEF EnvNow
  <1>2. \A f \in Envs \ {e} : ObjectState(f)' = ObjectState(f)
    BY <1>1 DEF ObjectState
  <1>3. \/ ObjectState(e)' = ObjectState(e)
        \/ ObjectState(e) = "none" /\ ObjectState(e)' = "new"
        \/ ObjectState(e) = "new" /\ ObjectState(e)' = "none"
        \/ ObjectState(e) = "held" /\ ObjectState(e)' = "dying"
    BY <1>1 DEF ObjectState, UserWrote, EnvSound
  <1> QED
    BY <1>2, <1>3, ObjectMoves

\* The finalizer comes, and the status changes.
LEMMA WorkerReports ==
  ASSUME TypeInv, Guarded,
         \/ PatchStatus
         \/ PatchStatusFails
         \/ \E e \in Envs : AddFinalizer(e)
  PROVE  [Life!Next]_(Life!lifeVars)
  <1>0. EnvLogsOK
    BY Parts DEF TypeParts
  <1>1. CASE PatchStatus \/ PatchStatusFails
    <2> DEFINE now == Current(envLog[cur])
               new == EnvPatch(now, copy, Reported(copy))
    <2>0. pc = "status" /\ release' = release
      BY <1>1 DEF PatchStatus, PatchStatusFails
    <2>1. cur \in Envs
      BY <2>0, RelType
    <2>2. /\ new \in EnvVersion
          /\ new.live = now.live /\ new.spec = now.spec
          /\ new.fin = now.fin /\ new.del = now.del
      BY <2>0, EnvPatchType
    <2>3. EnvSound(new) /\ now.live = EnvNow(cur).live
      BY <1>0, <2>1, <2>2, EnvEnds DEF EnvSound, EnvNow
    <2>4. envLog' = envLog \/ (WriteEnv(cur, new) /\ now.live)
      BY <1>1 DEF PatchStatus, PatchStatusFails, StatusLands
    <2> HIDE DEF new
    <2>5. now.live => UserWrote(EnvNow(cur), new)
      BY <2>2, <2>3 DEF UserWrote, EnvNow
    <2> QED
      BY <2>0, <2>1, <2>2, <2>3, <2>4, <2>5, UserMoves, UnseenStep
  <1>2. ASSUME NEW e \in Envs, AddFinalizer(e)
        PROVE  [Life!Next]_(Life!lifeVars)
    <2> DEFINE log == envLog[e]
               c == Cached(log)
               v == [c EXCEPT !.fin = TRUE]
               w == [v EXCEPT !.rv = Current(log).rv + 1]
    <2>1. c \in EnvVersion /\ EnvSound(c) /\ Current(log) \in EnvVersion
      BY <1>0, EnvEnds
    <2>2. /\ WriteEnv(e, v) /\ c.live /\ ~c.del /\ ~c.fin /\ Fresh(log, c)
          /\ release' = release
      BY <1>2 DEF AddFinalizer
    <2>3. c = EnvNow(e)
      <3>1. Current(log).rv <= c.rv
        BY <2>1, <2>2 DEF Fresh, EnvVersion
      <3> QED
        BY <1>0, <3>1, FreshOne DEF Guarded, Tracked, EnvNow
    <2>4. /\ v \in EnvVersion /\ EnvSound(v)
          /\ w.live /\ w.fin /\ ~w.del /\ v # c
      BY <2>1, <2>2 DEF EnvVersion, EnvSound
    <2> HIDE DEF v, w
    <2>5. /\ \A f \in Envs \ {e} : EnvNow(f)' = EnvNow(f)
          /\ EnvNow(e)' = w
      BY <1>0, <2>2, <2>3, <2>4, WriteEnvLog DEF EnvNow, w
    <2>6. \A f \in Envs \ {e} : ObjectState(f)' = ObjectState(f)
      BY <2>5 DEF ObjectState
    <2>7. ObjectState(e) = "new" /\ ObjectState(e)' = "held"
      BY <2>2, <2>3, <2>4, <2>5 DEF ObjectState
    <2> QED
      BY <2>2, <2>6, <2>7, ObjectMoves
  <1> QED
    BY <1>1, <1>2

\* The object goes.
LEMMA WorkerLetsGo ==
  ASSUME TypeInv, Guarded, RemoveFinalizer
  PROVE  [Life!Next]_(Life!lifeVars)
  <1> DEFINE log == envLog[cur]
             gone == EnvGone(copy.rv)
             w == [gone EXCEPT !.rv = Current(log).rv + 1]
  <1>0. /\ pc = "unfinalize" /\ pc \in Deleting /\ pc # "idle"
        /\ release' = release
    BY DEF RemoveFinalizer, Deleting
  <1>1. cur \in Envs /\ copy \in EnvVersion /\ copy.live /\ EnvLogsOK
    BY <1>0, RelType, Parts DEF TypeParts
  <1>2. CASE envLog' = envLog
    BY <1>0, <1>2, UnseenStep
  <1>3. CASE Fresh(log, copy) /\ WriteEnv(cur, gone)
    <2>1. EnvNow(cur) = copy /\ copy.del
      BY <1>0, <1>3, FreshCopy DEF Guarded
    <2>2. /\ gone \in EnvVersion /\ EnvSound(gone) /\ ~gone.live
          /\ ~w.live /\ gone # copy
      <3>1. copy.rv \in Nat
        BY <1>1 DEF EnvVersion
      <3> QED
        BY <1>1, <3>1, EnvGoneVersion DEF EnvVersion
    <2> HIDE DEF gone, w
    <2>3. PICK e \in Envs : e = cur
      BY <1>1
    <2>4. /\ \A f \in Envs \ {e} : EnvNow(f)' = EnvNow(f)
          /\ EnvNow(e)' = w
      BY <1>1, <1>3, <2>1, <2>2, <2>3, WriteEnvLog DEF EnvNow, w
    <2>5. \A f \in Envs \ {e} : ObjectState(f)' = ObjectState(f)
      BY <2>4 DEF ObjectState
    <2>6. ObjectState(e) \in {"new", "dying"} /\ ObjectState(e)' = "none"
      BY <1>1, <2>1, <2>2, <2>3, <2>4 DEF ObjectState
    <2>7. \A n \in ReleaseNames(e) : ~Listed(release[n])
      BY <1>0, <2>3 DEF Guarded, Uninstalled
    <2> QED
      BY <1>0, <2>5, <2>6, <2>7, ObjectMoves
  <1> QED
    BY <1>2, <1>3 DEF RemoveFinalizer

\* Helm writes a release, or deletes one.
LEMMA WorkerMoves ==
  ASSUME MaxFaults["list"] = 0, TypeInv, Guarded, Lasting,
         InstallOrUpgrade \/ HelmDone \/ Uninstall \/ UninstallDone
  PROVE  [Life!Next]_(Life!lifeVars)
  <1>1. /\ pc \in {"deploy", "applying", "uninstall", "uninstalling"}
        /\ envLog' = envLog
    BY DEF InstallOrUpgrade, HelmDone, Uninstall, UninstallDone
  <1>2. /\ cur \in Envs /\ copy.spec \in Specs
        /\ relName = ReleaseOf[cur][copy.spec] /\ relName \in ReleaseNames(cur)
        /\ Rel = release[relName] /\ Rel \in Release
    BY <1>1, RelType DEF ReleaseNames
  <1>3. ~Fault("list")
    BY NoListFault
  <1>4. CASE release' = release
    BY <1>1, <1>4, UnseenStep
  <1>5. CASE InstallOrUpgrade /\ release' # release
    <2>1. /\ release' = [release EXCEPT ![relName] = Begun(values)]
          /\ Listed(Rel) \/ ~NameInUse(Rel)
      BY <1>3, <1>5 DEF InstallOrUpgrade, ReleaseExists
    <2>2. /\ ReleaseState(Rel) \in {"absent", "listed"}
          /\ ReleaseState(Begun(values)) = "writing"
      BY <1>2, <2>1 DEF ReleaseState, Listed, NameInUse, Begun
    <2>3. ObjectState(cur) \in {"held", "dying"}
      BY <1>5 DEF InstallOrUpgrade, Guarded, Tracked, WorkerHolds, Deploying, ObjectState
    <2> QED
      BY <1>1, <1>2, <2>1, <2>2, <2>3, ReleaseMoves
  <1>6. CASE HelmDone
    <2>1. PICK s \in {"deployed", "failed"} :
            release' = [release EXCEPT ![relName] = Applied(Rel, s)]
      BY <1>6 DEF HelmDone, Rel
    <2>2. /\ ReleaseState(Rel) = "writing"
          /\ ReleaseState(Applied(Rel, s)) = "listed"
      BY <1>2, <1>6 DEF HelmDone, Lasting, WorkerOwns, ReleaseState, Listed, Applied,
                        Release
    <2>3. ObjectState(cur) \in {"held", "dying"}
      BY <1>6 DEF HelmDone, Guarded, Tracked, WorkerHolds, Deploying, ObjectState
    <2> QED
      BY <1>1, <1>2, <2>1, <2>2, <2>3, ReleaseMoves
  <1>7. CASE Uninstall /\ release' # release
    <2>1. release' = [release EXCEPT ![relName] = Marked(Rel)] /\ Listed(Rel)
      BY <1>3, <1>7 DEF Uninstall, ReleaseExists, Rel
    <2>2. /\ ReleaseState(Rel) = "listed"
          /\ ReleaseState(Marked(Rel)) = "deleting"
      BY <1>2, <2>1 DEF ReleaseState, Listed, Marked, Release
    <2>3. ObjectState(cur) = "dying"
      BY <1>2, <1>7, <2>1 DEF Uninstall, Guarded, ListedGuarded, Lasting,
                              WorkerLetsDie, Deleting, ObjectState
    <2> QED
      BY <1>1, <1>2, <2>1, <2>2, <2>3, ReleaseMoves
  <1>8. CASE UninstallDone /\ release' # release
    <2>1. release' = [release EXCEPT ![relName] = NoRelease]
      BY <1>8 DEF UninstallDone
    <2>2. /\ ReleaseState(Rel) = "deleting"
          /\ ReleaseState(NoRelease) = "absent"
      BY <1>2, <1>8 DEF UninstallDone, Lasting, WorkerOwns, ReleaseState, Listed,
                        NoRelease
    <2>3. ObjectState(cur) = "dying"
      BY <1>8 DEF UninstallDone, Lasting, WorkerLetsDie, Deleting, ObjectState
    <2> QED
      BY <1>1, <1>2, <2>1, <2>2, <2>3, ReleaseMoves
  <1> QED
    BY <1>4, <1>5, <1>6, <1>7, <1>8

LEMMA StepLives ==
  ASSUME MaxFaults["list"] = 0, TypeInv, Guarded, Lasting, [Next]_vars
  PROVE  [Life!Next]_(Life!lifeVars)
  <1>1. CASE EnvStep
    <2>1. CASE \/ \E e \in Envs : \/ ReconcileNotFound(e) \/ ReconcileDeletion(e)
                                  \/ ReconcileDeploy(e)
               \/ ChartFails \/ DownloadChart \/ ReconcileDone
               \/ \E p \in Products : updateProductStatus(p)
      <3>1. UNCHANGED <<envLog, release>>
        BY <2>1 DEF ReconcileNotFound, ReconcileDeletion, ReconcileDeploy, Take,
                    ChartFails, clusterVars, DownloadChart, ReconcileDone,
                    updateProductStatus
      <3> QED
        BY <3>1, UnseenStep
    <2> QED
      BY <1>1, <2>1, WorkerReports, WorkerLetsGo, WorkerMoves DEF EnvStep, Reconcile
  <1>2. CASE Deliver
    <2>1. release' = release /\ \A e \in Envs : EnvNow(e)' = EnvNow(e)
      <3>1. CASE \E e \in Envs : DeliverEnv(e)
        BY <3>1, DeliverEnvLog, Parts DEF DeliverEnv, TypeParts, EnvNow
      <3>2. CASE \E p \in Products : DeliverProd(p)
        BY <3>2 DEF DeliverProd, EnvNow
      <3> QED
        BY <1>2, <3>1, <3>2 DEF Deliver
    <2> QED
      BY <2>1, Unseen DEF ObjectState
  <1>3. CASE Crash
    <2>1. release' = release /\ \A e \in Envs : EnvNow(e)' = EnvNow(e)
      BY <1>3, CrashLogs DEF Crash, EnvNow
    <2> QED
      BY <2>1, Unseen DEF ObjectState
  <1>4. CASE ProdStep
    BY <1>4, ProductsKeep, UnseenStep
  <1>5. CASE UserStep
    <2>1. release' = release
      BY <1>5, UserWrites DEF UserUnchanged
    <2> QED
      BY <1>5, <2>1, UserWrites, UserMoves, UnseenStep DEF EnvNow
  <1>6. CASE UNCHANGED vars
    BY <1>6, UnseenStep DEF vars, clusterVars
  <1> QED
    BY <1>1, <1>2, <1>3, <1>4, <1>5, <1>6 DEF Next

LEMMA InitLives == Init => Life!Init
  BY DEF Init, ClusterInit, Life!Init, ObjectState, EnvNow, Current, EnvGone,
         ReleaseState, Listed, NoRelease

\* Under the assumptions of GuardedAlways, a deletion is the deletion of the
\* object there is, even when an object of the same name has been created since
\* the cache saw the first one go, and nobody else writes the release meanwhile.
THEOREM LastingAlways ==
  ASSUME StableNames, MaxFaults["list"] = 0
  PROVE  Spec => []Lasting
  <1>1. Init => TypeInv /\ Guarded /\ Lasting
    BY InitType, InitGuarded, InitLasting
  <1>2. TypeInv /\ Guarded /\ Lasting /\ [Next]_vars => (TypeInv /\ Guarded /\ Lasting)'
    BY StepType, StepGuarded, StepLasting
  <1> QED
    BY <1>1, <1>2, PTL DEF Spec

\* As long as the tenantId of an environment is its own and stays the same, and
\* the releases can be listed, the controllers implement ReleaseLifecycle:
\* releases are written only for objects the finalizer holds and uninstalled only
\* for those that die, and an object goes only after its release, however old
\* the copy the worker works from is, whatever users write meanwhile, and
\* wherever the operator or Helm fails.
THEOREM LifecycleImplemented ==
  ASSUME StableNames, MaxFaults["list"] = 0
  PROVE  Spec => Lifecycle
  <1>1. Spec => []TypeInv
    BY InitType, StepType, PTL DEF Spec
  <1>2. Init => Life!Init
    BY InitLives
  <1>3. TypeInv /\ Guarded /\ Lasting /\ [Next]_vars => [Life!Next]_(Life!lifeVars)
    BY StepLives
  <1> QED
    BY <1>1, <1>2, <1>3, GuardedAlways, LastingAlways, PTL DEF Spec, Lifecycle, Life!Spec
==============================================================================
