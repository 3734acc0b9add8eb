---------------------------- MODULE ReleaseProofs ----------------------------
(***************************************************************************)
(* No Helm release is left behind: ListedGuarded for any number of         *)
(* environments, products and faults.                                      *)
(***************************************************************************)
EXTENDS CacheProofs

\* No release is listed that was not.
NoneNew == \A n \in Releases : Listed(release'[n]) => Listed(release[n])

\* The worker does not come to take the finalizer away.
NotEnding == pc' = "unfinalize" => pc = "unfinalize" /\ cur' = cur

-----------------------------------------------------------------------------
\* Steps that let no object go, list no release, and end no deletion.
LEMMA GuardedKept ==
  ASSUME TypeInv, Guarded, Tracked', HoldsOn, NoneNew, NotEnding
  PROVE  Guarded'
  <1>1. \A e \in Envs, s \in Specs : ReleaseOf[e][s] \in Releases
    BY ReleasesAssumption
  <1>2. ListedGuarded'
    BY <1>1 DEF Guarded, ListedGuarded, NoneNew, HoldsOn, Keeps
  <1>3. Uninstalled'
    <2> SUFFICES ASSUME pc' = "unfinalize", NEW n \in ReleaseNames(cur')
                 PROVE  ~Listed(release'[n])
      BY DEF Uninstalled, ReleaseNames
    <2>1. pc = "unfinalize" /\ cur' = cur
      BY DEF NotEnding
    <2>2. cur \in Envs
      BY <2>1, RelType
    <2>3. n \in ReleaseNames(cur) /\ n \in Releases
      BY <1>1, <2>1, <2>2 DEF ReleaseNames
    <2> QED
      BY <2>1, <2>3 DEF Guarded, Uninstalled, NoneNew
  <1> QED
    BY <1>2, <1>3 DEF Guarded

\* Helm lists the release again: its object is held.
LEMMA ListsRelease ==
  ASSUME StableNames, TypeInv, Guarded, Tracked', HelmDone
  PROVE  Guarded'
  <1>0. /\ pc \in Deploying /\ pc' # "unfinalize" /\ envLog' = envLog
    BY DEF HelmDone, Report, Deploying
  <1>1. /\ cur \in Envs /\ copy.spec \in Specs
        /\ relName = ReleaseOf[cur][copy.spec]
        /\ relName \in Releases
    BY RelType DEF HelmDone
  <1>2. ListedGuarded'
    <2> SUFFICES ASSUME NEW e \in Envs, NEW s \in Specs,
                        Listed(release'[ReleaseOf[e][s]])
                 PROVE  EnvNow(e).live /\ EnvNow(e).fin
      BY <1>0 DEF ListedGuarded, EnvNow
    <2>1. CASE ReleaseOf[e][s] = relName
      <3>1. e = cur
        BY <1>1, <2>1 DEF StableNames
      <3> QED
        BY <1>0, <3>1 DEF Guarded, Tracked, WorkerHolds
    <2>2. CASE ReleaseOf[e][s] # relName
      <3>1. ReleaseOf[e][s] \in Releases
        BY ReleasesAssumption
      <3>2. release'[ReleaseOf[e][s]] = release[ReleaseOf[e][s]]
        BY <2>2, <3>1, Parts DEF HelmDone, TypeParts
      <3> QED
        BY <3>2 DEF Guarded, ListedGuarded
    <2> QED
      BY <2>1, <2>2
  <1> QED
    BY <1>0, <1>2 DEF Guarded, Uninstalled

\* The release is not listed, or not any more: the finalizer may go.
LEMMA Unlists ==
  ASSUME StableNames, MaxFaults["list"] = 0, TypeInv, Guarded, Tracked',
         Uninstall \/ UninstallDone
  PROVE  Guarded'
  <1>1. /\ cur \in Envs /\ copy.spec \in Specs
        /\ relName = ReleaseOf[cur][copy.spec]
        /\ relName \in Releases
        /\ envLog' = envLog
    BY RelType DEF Uninstall, UninstallDone
  <1>2. release \in [Releases -> Release]
    BY Parts DEF TypeParts
  <1>3. NoneNew
    <2>1. ~Listed(NoRelease) /\ ~Listed(Marked(release[relName]))
      <3>1. release[relName] \in Release
        BY <1>1, <1>2
      <3> QED
        BY <3>1 DEF Listed, NoRelease, Marked, Release
    <2> QED
      BY <1>1, <1>2, <2>1 DEF NoneNew, Uninstall, UninstallDone
  <1>4. Uninstalled'
    <2>1. \A n \in ReleaseNames(cur) : n = relName
      BY <1>1 DEF ReleaseNames, StableNames
    <2> QED
      BY <2>1, Unlisted DEF Uninstalled, ReleaseNames
  <1>5. ListedGuarded'
    BY <1>1, <1>3, ReleasesAssumption DEF Guarded, ListedGuarded, NoneNew, EnvNow
  <1> QED
    BY <1>4, <1>5 DEF Guarded

\* The object that goes has no release that is listed.
LEMMA LetsGo ==
  ASSUME StableNames, TypeInv, Guarded, Tracked', RemoveFinalizer
  PROVE  Guarded'
  <1>1. /\ pc = "unfinalize" /\ pc' = "idle" /\ release' = release
        /\ \A f \in Envs \ {cur} : Keeps(EnvNow(f), EnvNow(f)')
    BY TrackedLetsGo DEF RemoveFinalizer, Return, Guarded
  <1>2. ListedGuarded'
    <2> SUFFICES ASSUME NEW e \in Envs, NEW s \in Specs,
                        Listed(release[ReleaseOf[e][s]])
                 PROVE  EnvNow(e)'.live /\ EnvNow(e)'.fin
      BY <1>1 DEF ListedGuarded
    <2>1. e # cur
      BY <1>1 DEF Guarded, Uninstalled, ReleaseNames
    <2> QED
      BY <1>1, <2>1 DEF Guarded, ListedGuarded, Keeps
  <1> QED
    BY <1>1, <1>2 DEF Guarded, Uninstalled

\* The other steps of the worker.
LEMMA WorkerGuards ==
  ASSUME TypeInv, EnvStep, ~HelmDone, ~(Uninstall \/ UninstallDone)
  PROVE  NoneNew /\ NotEnding
  <1>1. CASE InstallOrUpgrade
    <2>1. ~Listed(Begun(values))
      BY DEF Listed, Begun
    <2>2. release' = release \/ release' = [release EXCEPT ![relName] = Begun(values)]
      BY <1>1 DEF InstallOrUpgrade
    <2>3. release \in [Releases -> Release]
      BY Parts DEF TypeParts
    <2> QED
      BY <1>1, <2>1, <2>2, <2>3 DEF InstallOrUpgrade, Report, NoneNew, NotEnding
  <1>2. CASE ~InstallOrUpgrade
    <2>1. release' = release
      BY <1>2 DEF EnvStep, Reconcile, ReconcileNotFound, ReconcileDeletion,
                  AddFinalizer, ReconcileDeploy, Take, ChartFails, clusterVars,
                  DownloadChart, PatchStatus, PatchStatusFails,
                  updateProductStatus, ReconcileDone, RemoveFinalizer
    <2>2. NotEnding
      BY <1>2 DEF EnvStep, Reconcile, ReconcileNotFound, ReconcileDeletion, envVars,
                  AddFinalizer, ReconcileDeploy, Take, ChartFails, Report,
                  DownloadChart, PatchStatus, PatchStatusFails, Return,
                  updateProductStatus, ReconcileDone, RemoveFinalizer, NotEnding
    <2> QED
      BY <2>1, <2>2 DEF NoneNew
  <1> QED
    BY <1>1, <1>2

LEMMA StepGuarded ==
  ASSUME StableNames, MaxFaults["list"] = 0, TypeInv, Guarded, [Next]_vars
  PROVE  Guarded'
  <1>1. Tracked' /\ (RemoveFinalizer \/ HoldsOn)
    BY StepTracked DEF Guarded
  <1>2. CASE EnvStep
    BY <1>1, <1>2, ListsRelease, Unlists, LetsGo, WorkerGuards, GuardedKept
  <1>3. CASE release' = release /\ NotEnding /\ ~RemoveFinalizer
    BY <1>1, <1>3, GuardedKept DEF NoneNew
  <1>4. CASE UNCHANGED <<release, envVars>>
    <2>1. ~RemoveFinalizer
      BY <1>4 DEF RemoveFinalizer, Return, envVars
    <2> QED
      BY <1>3, <1>4, <2>1 DEF NotEnding, envVars
  <1>5. CASE Deliver /\ UNCHANGED envVars
    BY <1>4, <1>5 DEF Deliver, DeliverEnv, DeliverProd
  <1>6. CASE ProdStep /\ UNCHANGED envVars
    BY <1>4, <1>6, ProductsKeep
  <1>7. CASE UserStep
    BY <1>4, <1>7, UserWrites DEF UserUnchanged
  <1>8. CASE Crash
    <2>1. HoldsOn
      BY <1>8, TrackedRestarts
    <2> QED
      BY <1>1, <1>8, <2>1, GuardedKept DEF Crash, Return, NoneNew, NotEnding
  <1>9. CASE UNCHANGED vars
    BY <1>4, <1>9 DEF vars, clusterVars
  <1> QED
    BY <1>2, <1>5, <1>6, <1>7, <1>8, <1>9 DEF Next

LEMMA InitGuarded == Init => Guarded
  <1>1. Init => ListedGuarded
    BY ReleasesAssumption DEF Init, ClusterInit, ListedGuarded, Listed, NoRelease
  <1> QED
    BY <1>1, InitTracked DEF Init, EnvInit, Guarded, Uninstalled

\* The invariant TLC checks on small instances, for all: as long as the tenantId
\* of an environment is its own and stays the same, and the releases can be
\* listed, whatever is listed is guarded, and the controller's copies and caches
\* know of every object what letting it go depends on.
THEOREM GuardedAlways ==
  ASSUME StableNames, MaxFaults["list"] = 0
  PROVE  Spec => []Guarded
  <1>1. Init => TypeInv /\ Guarded
    BY InitType, InitGuarded
  <1>2. TypeInv /\ Guarded /\ [Next]_vars => (TypeInv /\ Guarded)'
    BY StepType, StepGuarded
  <1> QED
    BY <1>1, <1>2, PTL DEF Spec

\* So no Helm release outlives the object whose finalizer stands for it: for any
\* number of environments, products, user writes, stale caches, crashes, and
\* failures of Helm and of the API server.
THEOREM NoReleaseLeftBehind ==
  ASSUME StableNames, MaxFaults["list"] = 0
  PROVE  Spec => []ListedGuarded
  <1>1. Guarded => ListedGuarded
    BY DEF Guarded
  <1> QED
    BY <1>1, GuardedAlways, PTL
==============================================================================
