------------------------------ MODULE WakeProofs ------------------------------
(***************************************************************************)
(* No wake-up is lost: when the environment controller rests, every        *)
(* environment is deployed as it stands, whatever has failed before.       *)
(***************************************************************************)
EXTENDS ReportProofs

-----------------------------------------------------------------------------
\* What the cache shows.

\* A change of products that are not of e, before or after, is none for e.
LEMMA MadeKept ==
  ASSUME NEW e, NEW a, NEW b,
         \A p \in Products :
           \/ Cached(b[p]) = Cached(a[p])
           \/ Cached(a[p]).ref # e /\ Cached(b[p]).ref # e
  PROVE  \A v : MadeOf(v, a, e) => MadeOf(v, b, e)
  <1> DEFINE L(log) == {p \in Products : Cached(log[p]).live /\ Cached(log[p]).ref = e}
  <1>1. L(b) = L(a) /\ \A p \in L(a) : Cached(b[p]) = Cached(a[p])
    OBVIOUS
  <1>2. \A S \in Firsts(L(a)) : S \subseteq L(a)
    BY DEF Firsts
  <1>3. ASSUME NEW S \in Firsts(L(a))
        PROVE  {<<p, Cached(b[p]).spec>> : p \in S} = {<<p, Cached(a[p]).spec>> : p \in S}
    BY <1>1, <1>2
  <1> QED
    BY <1>1, <1>3 DEF MadeOf

\* Writes go to the API server, not to the cache.
LEMMA EnvCacheKept ==
  ASSUME EnvLogsOK, NEW e \in Envs, NEW v \in EnvVersion, EnvSound(v), WriteEnv(e, v)
  PROVE  \A f \in Envs : /\ Cached(envLog'[f]) = Cached(envLog[f])
                         /\ Len(envLog[f]) > 1 => Len(envLog'[f]) > 1
  <1>1. /\ \A f \in Envs \ {e} : envLog'[f] = envLog[f]
        /\ \/ envLog'[e] = envLog[e]
           \/ /\ Len(envLog'[e]) = Len(envLog[e]) + 1
              /\ \A i \in 1 .. Len(envLog[e]) : envLog'[e][i] = envLog[e][i]
    BY WriteEnvLog
  <1>2. Len(envLog[e]) \in Nat \ {0}
    BY EnvEnds
  <1>3. 1 \in 1 .. Len(envLog[e])
    BY <1>2
  <1> QED
    BY <1>1, <1>2, <1>3 DEF Cached

LEMMA ProdCacheKept ==
  ASSUME ProdLogsOK, NEW p \in Products, NEW v \in ProdVersion, ProdSound(v),
         WriteProd(p, v)
  PROVE  /\ \A q \in Products : /\ Cached(prodLog'[q]) = Cached(prodLog[q])
                                /\ Len(prodLog[q]) > 1 => Len(prodLog'[q]) > 1
         /\ \/ prodLog' = prodLog /\ v = Current(prodLog[p])
            \/ Len(prodLog'[p]) > 1
  <1> DEFINE log == prodLog[p]
             w == [v EXCEPT !.rv = Current(log).rv + 1]
  <1>1. log \in Seq(ProdVersion) /\ log # <<>> /\ Current(log) \in ProdVersion
    BY Ends DEF ProdLogsOK
  <1>2. w \in ProdVersion
    <2>1. Current(log).rv + 1 \in Nat
      BY <1>1 DEF ProdVersion
    <2> QED
      BY <2>1 DEF ProdVersion
  <1> HIDE DEF w
  <1>3. /\ Len(log) \in Nat \ {0}
        /\ \/ Stored(log, v) = log /\ v = Current(log)
           \/ /\ Len(Stored(log, v)) = Len(log) + 1
              /\ \A i \in 1 .. Len(log) : Stored(log, v)[i] = log[i]
    BY <1>1, <1>2, Ends, StoredLog DEF w
  <1>4. 1 \in 1 .. Len(log)
    BY <1>3
  <1>5. Cached(Stored(log, v)) = Cached(log)
    BY <1>3, <1>4 DEF Cached
  <1>6. prodLog' = [prodLog EXCEPT ![p] = Stored(log, v)]
    BY DEF WriteProd
  <1>7. prodLog \in [Products -> Seq(ProdVersion)]
    BY DEF ProdLogsOK
  <1>8. Stored(log, v) = log => prodLog' = prodLog
    BY <1>6, <1>7
  <1>9. prodLog'[p] = Stored(log, v) /\ \A q \in Products \ {p} : prodLog'[q] = prodLog[q]
    BY <1>6, <1>7
  <1> QED
    BY <1>3, <1>5, <1>8, <1>9

\* Products whose change is delivered wake the environments they are of.
LEMMA ProdWakes ==
  ASSUME ProdLogsOK, NEW p \in Products, DeliverProd(p), NEW e \in Envs,
         e \notin envQ'
  PROVE  \A v : MadeOf(v, prodLog, e) => MadeOf(v, prodLog', e)
  <1> DEFINE log == prodLog[p]
  <1>1. log \in Seq(ProdVersion) /\ Len(log) > 1
    BY DEF ProdLogsOK, DeliverProd
  <1>4. Cached(Tail(log)) = log[2]
    BY <1>1, TailLog
  <1>5. prodLog' = [prodLog EXCEPT ![p] = Tail(log)]
    BY DEF DeliverProd
  <1>6. log[1].ref # e /\ log[2].ref # e
    BY DEF DeliverProd, enqueueFromEnvironmentRef
  <1>7. ASSUME NEW q \in Products
        PROVE  \/ Cached(prodLog'[q]) = Cached(prodLog[q])
               \/ Cached(prodLog[q]).ref # e /\ Cached(prodLog'[q]).ref # e
    BY <1>4, <1>5, <1>6 DEF Cached, ProdLogsOK
  <1> QED
    BY <1>7, MadeKept

-----------------------------------------------------------------------------
\* An environment stays remembered while the cache shows the same of it and of
\* its products, nobody writes its release, and the worker keeps at it.
LEMMA StaysRemembered ==
  ASSUME TypeInv, NEW e \in Envs, Remembered(e),
         e \in envQ => e \in envQ',
         Cached(envLog'[e]) = Cached(envLog[e]),
         Len(envLog[e]) > 1 => Len(envLog'[e]) > 1,
         pc # "idle" /\ cur = e => pc' # "idle" /\ cur' = e,
         LET n == ReleaseOf[e][Cached(envLog[e]).spec] IN
           Cached(envLog[e]).live /\ ~Asked(e) /\ ~(pc # "idle" /\ cur = e)
             => release'[n] = release[n],
         \A v : MadeOf(v, prodLog, e) => MadeOf(v, prodLog', e)
  PROVE  Remembered(e)'
  <1>1. CASE Asked(e)
    BY <1>1 DEF Asked, Remembered
  <1>2. CASE pc # "idle" /\ cur = e
    BY <1>2 DEF Remembered
  <1>3. CASE ~Asked(e) /\ ~(pc # "idle" /\ cur = e)
    <2> SUFFICES ASSUME Cached(envLog'[e]).live
                 PROVE  Served(e)'
      BY DEF Remembered
    <2>1. Served(e)
      BY <1>3 DEF Remembered
    <2> QED
      BY <1>3, <2>1 DEF Served
  <1> QED
    BY <1>1, <1>2, <1>3

\* The worker goes on with what it serves while the cache shows the same of its
\* environment and of its products, or it has to look again.
LEMMA WorkKept ==
  ASSUME TypeInv, WorkerServes, UNCHANGED <<envVars, release>>,
         pc # "idle" =>
           \/ Asked(cur)'
           \/ /\ ~Asked(cur)
              /\ Cached(envLog'[cur]) = Cached(envLog[cur])
              /\ \A v : MadeOf(v, prodLog, cur) => MadeOf(v, prodLog', cur)
  PROVE  WorkerServes'
  <1>1. UNCHANGED <<pc, cur, copy, values, outcome, Rel>>
    BY DEF envVars, Rel, relName
  <1> QED
    BY <1>1 DEF WorkerServes, Deploying

-----------------------------------------------------------------------------
\* The steps of the worker.

\* They enqueue and write, and touch no release but their own; the worker stays
\* at its environment, or leaves it remembered.
LEMMA WorkerRemembers ==
  ASSUME OwnNames, TypeInv, NoneForgotten, pc # "idle",
         envQ \subseteq envQ',
         \A e \in Envs : /\ Cached(envLog'[e]) = Cached(envLog[e])
                         /\ Len(envLog[e]) > 1 => Len(envLog'[e]) > 1,
         \A p \in Products : Cached(prodLog'[p]) = Cached(prodLog[p]),
         \A n \in Releases \ {relName} : release'[n] = release[n],
         \/ pc' # "idle" /\ cur' = cur
         \/ \A e \in Envs : e = cur => Remembered(e)'
  PROVE  NoneForgotten'
  <1> SUFFICES ASSUME NEW e \in Envs, (pc' # "idle" /\ cur' = cur) \/ e # cur
               PROVE  Remembered(e)'
    BY DEF NoneForgotten
  <1>1. cur \in Envs /\ copy.spec \in Specs /\ relName = ReleaseOf[cur][copy.spec]
    BY RelType
  <1>2. Remembered(e)
    BY DEF NoneForgotten
  <1>3. \A v : MadeOf(v, prodLog, e) => MadeOf(v, prodLog', e)
    BY MadeKept
  <1> DEFINE c == Cached(envLog[e])
             n == ReleaseOf[e][c.spec]
  <1>4. c.live /\ ~Asked(e) /\ ~(pc # "idle" /\ cur = e) => release'[n] = release[n]
    <2> SUFFICES ASSUME c.live, cur # e
                 PROVE  release'[n] = release[n]
      OBVIOUS
    <2>1. c.spec \in Specs
      BY Parts, EnvEnds DEF TypeParts, EnvSound
    <2>2. n \in Releases /\ n # relName
      BY <1>1, <2>1, ReleasesAssumption DEF OwnNames
    <2> QED
      BY <2>2
  <1> QED
    BY <1>2, <1>3, <1>4, StaysRemembered

\* The steps that write no object and go on.
LEMMA HelmRemembers ==
  ASSUME OwnNames, TypeInv, NoneForgotten,
         ChartFails \/ DownloadChart \/ InstallOrUpgrade \/ HelmDone \/ Uninstall
  PROVE  NoneForgotten'
  <1>1. /\ pc # "idle" /\ pc' # "idle" /\ cur' = cur
        /\ UNCHANGED <<envLog, prodLog, envQ>>
    BY DEF ChartFails, DownloadChart, InstallOrUpgrade, HelmDone, Uninstall,
           Report, clusterVars, envVars
  <1>2. \A n \in Releases \ {relName} : release'[n] = release[n]
    <2>1. release \in [Releases -> Release]
      BY Parts DEF TypeParts
    <2> QED
      BY <2>1 DEF ChartFails, DownloadChart, InstallOrUpgrade, HelmDone, Uninstall,
                  clusterVars
  <1> QED
    BY <1>1, <1>2, WorkerRemembers

LEMMA HelmServes ==
  ASSUME TypeInv, WorkerServes,
         \/ ChartFails \/ DownloadChart \/ InstallOrUpgrade \/ HelmDone
         \/ Uninstall \/ UninstallDone
  PROVE  WorkerServes'
  <1>1. /\ pc # "idle" /\ UNCHANGED <<envLog, prodLog>>
        /\ pc \in Deploying => UNCHANGED <<cur, copy, values, envQ>>
    BY DEF ChartFails, DownloadChart, InstallOrUpgrade, HelmDone, Uninstall,
           UninstallDone, Report, clusterVars, envVars, Deploying
  <1>2. /\ relName \in Releases /\ Rel = release[relName] /\ Rel \in Release
        /\ release \in [Releases -> Release]
    BY <1>1, RelType, Parts DEF TypeParts
  <1>3. CASE DownloadChart /\ UNCHANGED envVars
    <2>1. release' = release
      BY <1>3 DEF DownloadChart
    <2> QED
      BY <1>1, <1>3, <2>1, WorkKept DEF Asked, envVars, DownloadChart, Deploying
  <1>4. CASE pc \in Deploying /\ pc' = "status" /\ outcome' = "Failed"
    BY <1>1, <1>4 DEF WorkerServes, Asked, Deploying
  <1>5. CASE InstallOrUpgrade /\ pc' = "applying"
    <2>1. release' = [release EXCEPT ![relName] = Begun(values)] /\ pc \in Deploying
      BY <1>5 DEF InstallOrUpgrade, Report, Deploying
    <2>2. Rel' = Begun(values)
      BY <1>1, <1>2, <2>1 DEF Rel, relName
    <2> QED
      BY <1>1, <1>5, <2>1, <2>2 DEF WorkerServes, Asked, Deploying, Begun
  <1>6. CASE /\ HelmDone /\ pc' = "status"
             /\ release' = [release EXCEPT ![relName] = Applied(@, "deployed")]
    <2>1. pc = "applying" /\ pc \in Deploying
      BY <1>6 DEF HelmDone, Deploying
    <2>2. Rel' = Applied(Rel, "deployed")
      BY <1>1, <1>2, <1>6, <2>1 DEF Rel, relName
    <2>3. Rel'.status = "deployed" /\ Rel'.values = Rel.values
      BY <1>2, <2>2 DEF Applied, Release
    <2> QED
      BY <1>1, <1>6, <2>1, <2>3 DEF WorkerServes, Asked, Deploying
  <1>7. CASE Uninstall \/ UninstallDone
    <2>1. pc' \in {"idle", "uninstalling", "unfinalize"}
      BY <1>7 DEF Uninstall, UninstallDone, Return
    <2> QED
      BY <2>1 DEF WorkerServes, Deploying
  <1> QED
    BY <1>3, <1>4, <1>5, <1>6, <1>7
       DEF ChartFails, DownloadChart, InstallOrUpgrade, HelmDone, Report, Deploying

\* The request is done: either the worker asks for it again, or the environment
\* is served.
LEMMA DoneRemembers ==
  ASSUME OwnNames, TypeInv, Telling, NoneForgotten, WorkerServes, ReconcileDone
  PROVE  NoneForgotten' /\ WorkerServes'
  <1>1. /\ pc = "products" /\ pc' = "idle"
        /\ UNCHANGED <<envLog, prodLog, release>>
        /\ envQ' = IF outcome = "Failed" THEN envQ \cup {cur} ELSE envQ
    BY DEF ReconcileDone, Return
  <1>2. /\ cur \in Envs /\ outcome \in {"Ready", "Failed"}
        /\ Rel = release[ReleaseOf[cur][copy.spec]]
    BY <1>1, RelType, Parts DEF TypeParts, EnvTypeOK
  <1>3. ASSUME NEW e \in Envs, e = cur
        PROVE  Remembered(e)'
    <2>1. CASE outcome = "Failed" \/ Asked(e)
      BY <1>1, <1>3, <2>1 DEF Remembered, Asked
    <2>2. CASE outcome = "Ready" /\ ~Asked(e)
      <3>1. /\ copy = Cached(envLog[e]) /\ MadeOf(values, prodLog, e)
            /\ copy.phase = "Ready" /\ copy.obs = copy.gen
            /\ values.spec = copy.spec
            /\ Rel.status = "deployed" /\ Rel.values = values
        BY <1>1, <1>3, <2>2 DEF WorkerServes, Deploying
      <3>2. ~copy.del
        BY <1>1 DEF Telling, CopyTells, Deploying, Held
      <3>3. Served(e)'
        BY <1>1, <1>2, <1>3, <3>1, <3>2 DEF Served
      <3> QED
        BY <3>3 DEF Remembered
    <2> QED
      BY <1>2, <2>1, <2>2
  <1>4. NoneForgotten'
    BY <1>1, <1>3, WorkerRemembers
  <1> QED
    BY <1>1, <1>4 DEF WorkerServes, Deploying

\* The patch of the status, if it lands.
LEMMA PatchFacts ==
  ASSUME TypeInv, pc = "status", StatusLands
  PROVE  /\ cur \in Envs
         /\ \A f \in Envs : /\ Cached(envLog'[f]) = Cached(envLog[f])
                            /\ Len(envLog[f]) > 1 => Len(envLog'[f]) > 1
         /\ \/ Len(envLog'[cur]) = Len(envLog[cur]) + 1
            \/ EnvPatch(EnvNow(cur), copy, Reported(copy)) = EnvNow(cur)
  <1> DEFINE new == EnvPatch(EnvNow(cur), copy, Reported(copy))
  <1>1. cur \in Envs /\ EnvLogsOK
    BY RelType, Parts DEF TypeParts
  <1>2. /\ new \in EnvVersion
        /\ new.live = EnvNow(cur).live /\ new.spec = EnvNow(cur).spec
        /\ new.fin = EnvNow(cur).fin /\ new.del = EnvNow(cur).del
    BY EnvPatchType DEF EnvNow
  <1>3. WriteEnv(cur, new)
    BY DEF StatusLands, EnvNow
  <1> HIDE DEF new
  <1>4. EnvSound(new)
    BY <1>1, <1>2, EnvEnds DEF EnvSound, EnvNow
  <1>5. \/ Len(envLog'[cur]) = Len(envLog[cur]) + 1
        \/ new = EnvNow(cur)
    BY <1>1, <1>2, <1>3, <1>4, WriteEnvLog DEF EnvNow
  <1> QED
    BY <1>1, <1>2, <1>3, <1>4, <1>5, EnvCacheKept DEF new

\* A patch from a copy that is current, and that changes nothing, has said
\* Ready of an environment that said so.
LEMMA NothingToReport ==
  ASSUME TypeInv, pc = "status", outcome = "Ready", EnvNow(cur) = copy,
         EnvPatch(EnvNow(cur), copy, Reported(copy)) = EnvNow(cur)
  PROVE  copy.phase = "Ready" /\ copy.obs = copy.gen /\ copy.rel = relName
  <1>1. /\ copy \in EnvVersion
        /\ Reported(copy).phase = "Ready" /\ Reported(copy).obs = copy.gen
        /\ Reported(copy).rel = relName
    BY RelType DEF Reported, EnvVersion
  <1>2. ASSUME NEW a \in EnvVersion, NEW b
        PROVE  /\ EnvPatch(a, a, b).phase = b.phase
               /\ EnvPatch(a, a, b).obs = b.obs
               /\ EnvPatch(a, a, b).rel = b.rel
    BY DEF EnvPatch, Patched, EnvVersion
  <1> QED
    BY <1>1, <1>2

LEMMA PatchRemembers ==
  ASSUME OwnNames, TypeInv, NoneForgotten, WorkerServes, PatchStatus
  PROVE  NoneForgotten' /\ WorkerServes'
  <1>1. /\ pc = "status" /\ pc' = "products" /\ StatusLands
        /\ UNCHANGED <<cur, copy, values, outcome, prodLog, release, envQ>>
    BY DEF PatchStatus
  <1>2. NoneForgotten'
    BY <1>1, PatchFacts, WorkerRemembers
  <1>3. cur \in Envs /\ Len(envLog[cur]) \in Nat \ {0}
    BY <1>1, RelType, Parts, EnvEnds DEF TypeParts
  <1>4. ~Asked(cur)' => ~Asked(cur) /\ Len(envLog'[cur]) # Len(envLog[cur]) + 1
    BY <1>1, <1>3, PatchFacts DEF Asked
  <1>5. ASSUME ~Asked(cur)'
        PROVE  /\ copy = Cached(envLog'[cur])
               /\ MadeOf(values, prodLog, cur)
               /\ outcome = "Ready" => copy.phase = "Ready" /\ copy.obs = copy.gen
    <2>1. copy = Cached(envLog[cur]) /\ MadeOf(values, prodLog, cur)
      BY <1>1, <1>4, <1>5 DEF WorkerServes, Deploying
    <2>2. EnvNow(cur) = copy
      <3>1. ~(Len(envLog[cur]) > 1)
        BY <1>4, <1>5 DEF Asked
      <3>2. \A n \in Nat \ {0} : n = 1 \/ n > 1
        OBVIOUS
      <3>3. Len(envLog[cur]) = 1
        BY <1>3, <3>1, <3>2
      <3> QED
        BY <2>1, <3>3 DEF EnvNow, Current, Cached
    <2> QED
      BY <1>1, <1>3, <1>4, <1>5, <2>1, <2>2, PatchFacts, NothingToReport
  <1>6. Rel' = Rel
    BY <1>1 DEF Rel, relName
  <1> QED
    BY <1>1, <1>2, <1>5, <1>6 DEF WorkerServes, Deploying

\* The status of a product is patched, the product is the same.  A patch that is
\* sent and adds no version has nothing to change.
LEMMA ProductFacts ==
  ASSUME TypeInv, NEW p \in Products, updateProductStatus(p)
  PROVE  /\ \A q \in Products : /\ Cached(prodLog'[q]) = Cached(prodLog[q])
                                /\ Len(prodLog[q]) > 1 => Len(prodLog'[q]) > 1
         /\ Current(prodLog[p]).live /\ faults'["patch"] = 0 /\ Len(prodLog'[p]) = 1 =>
              /\ Len(prodLog[p]) = 1
              /\ ProdPatch(Current(prodLog[p]), lists[p], ProdReported(lists[p]))
                   = Current(prodLog[p])
  <1> DEFINE now == Current(prodLog[p])
             new == ProdPatch(now, lists[p], ProdReported(lists[p]))
  <1>1. /\ pc = "products" /\ relName \in Releases
        /\ outcome \in {"Ready", "Failed"}
        /\ lists[p] \in ProdVersion
    BY RelType, Parts DEF EnvTypeOK, TypeParts, updateProductStatus
  <1>2. now \in ProdVersion /\ ProdSound(now) /\ ProdLogsOK
    BY ProdEnds, Parts DEF TypeParts
  <1>3. new \in ProdVersion /\ ProdSound(new)
    <2>1. ProdReported(lists[p]) \in ProdVersion
      BY <1>1 DEF ProdReported, ProdVersion
    <2>2. ASSUME NEW a \in ProdVersion, NEW b \in ProdVersion, NEW c \in ProdVersion
          PROVE  /\ ProdPatch(a, b, c) \in ProdVersion
                 /\ ProdPatch(a, b, c).live = a.live
                 /\ ProdPatch(a, b, c).spec = a.spec
                 /\ ProdPatch(a, b, c).ref = a.ref
      <3>1. /\ Patched(a.phase, b.phase, c.phase) \in {"none", "Pending", "Ready", "Failed"}
            /\ Patched(a.rel, b.rel, c.rel) \in Releases \cup {"none"}
        BY DEF Patched, ProdVersion
      <3> QED
        BY <3>1 DEF ProdPatch, ProdVersion
    <2> HIDE DEF now
    <2> QED
      BY <1>1, <1>2, <2>1, <2>2 DEF ProdSound
  <1>4. \/ WriteProd(p, new)
        \/ prodLog' = prodLog /\ (~now.live \/ faults'["patch"] # 0)
    <2>1. Fault("patch") => faults'["patch"] # 0
      <3>1. faults \in [FaultKinds -> Nat] /\ "patch" \in FaultKinds
        BY Parts DEF TypeParts, FaultKinds
      <3> QED
        BY <3>1 DEF Fault
    <2> QED
      BY <2>1 DEF updateProductStatus
  <1> HIDE DEF new
  <1>5. CASE WriteProd(p, new)
    <2>1. /\ \A q \in Products : /\ Cached(prodLog'[q]) = Cached(prodLog[q])
                                 /\ Len(prodLog[q]) > 1 => Len(prodLog'[q]) > 1
          /\ \/ prodLog' = prodLog /\ new = now
             \/ Len(prodLog'[p]) > 1
      BY <1>2, <1>3, <1>5, ProdCacheKept
    <2>2. \A n \in {1} : ~(n > 1)
      OBVIOUS
    <2>3. Len(prodLog'[p]) = 1 => Len(prodLog[p]) = 1 /\ new = now
      BY <2>1, <2>2
    <2> QED
      BY <2>1, <2>3 DEF new
  <1>6. CASE prodLog' = prodLog /\ (~now.live \/ faults'["patch"] # 0)
    BY <1>6
  <1> QED
    BY <1>4, <1>5, <1>6

LEMMA ProductsRemember ==
  ASSUME OwnNames, TypeInv, NoneForgotten, WorkerServes,
         NEW p \in Products, updateProductStatus(p)
  PROVE  NoneForgotten' /\ WorkerServes'
  <1>1. /\ pc = "products"
        /\ UNCHANGED <<pc, cur, copy, values, outcome, envLog, release, envQ>>
    BY DEF updateProductStatus
  <1>2. \A q \in Products : Cached(prodLog'[q]) = Cached(prodLog[q])
    BY ProductFacts
  <1>3. NoneForgotten'
    BY <1>1, <1>2, WorkerRemembers
  <1>4. \A v : MadeOf(v, prodLog, cur) => MadeOf(v, prodLog', cur)
    BY <1>2, MadeKept
  <1> QED
    BY <1>1, <1>3, <1>4 DEF WorkerServes, Asked, Rel, relName, Deploying

\* The worker stops: it asks to see the environment again, or has let it go, of
\* which the cache is to hear.
LEMMA StopFacts ==
  ASSUME TypeInv, Tracked, PatchStatusFails \/ UninstallDone \/ RemoveFinalizer
  PROVE  /\ pc # "idle" /\ prodLog' = prodLog /\ envQ \subseteq envQ'
         /\ \A e \in Envs : /\ Cached(envLog'[e]) = Cached(envLog[e])
                            /\ Len(envLog[e]) > 1 => Len(envLog'[e]) > 1
         /\ \/ pc' = "unfinalize" /\ cur' = cur
            \/ pc' = "idle" /\ \A e \in Envs : e = cur => Asked(e)'
  <1>1. pc # "idle" /\ prodLog' = prodLog /\ envQ \subseteq envQ'
    BY DEF PatchStatusFails, UninstallDone, RemoveFinalizer
  <1>2. cur \in Envs /\ EnvLogsOK
    BY <1>1, RelType, Parts DEF TypeParts
  <1>3. cur \in envQ' => \A e \in Envs : e = cur => Asked(e)'
    BY DEF Asked
  <1>5. CASE PatchStatusFails \/ UninstallDone
    <2>1. \A e \in Envs : /\ Cached(envLog'[e]) = Cached(envLog[e])
                          /\ Len(envLog[e]) > 1 => Len(envLog'[e]) > 1
      BY <1>5, PatchFacts DEF PatchStatusFails, UninstallDone
    <2>2. \/ pc' = "unfinalize" /\ cur' = cur
          \/ pc' = "idle" /\ cur \in envQ'
      BY <1>5 DEF PatchStatusFails, UninstallDone, Return
    <2> QED
      BY <1>1, <1>3, <2>1, <2>2
  <1>6. CASE RemoveFinalizer /\ envLog' = envLog /\ cur \in envQ'
    BY <1>1, <1>3, <1>6 DEF RemoveFinalizer, Return
  <1>7. CASE RemoveFinalizer /\ Fresh(envLog[cur], copy) /\ WriteEnv(cur, EnvGone(copy.rv))
    <2> DEFINE gone == EnvGone(copy.rv)
    <2>0. pc = "unfinalize" /\ pc' = "idle"
      BY <1>7 DEF RemoveFinalizer, Return
    <2>1. copy.live /\ copy.rv \in Nat
      BY <1>1, RelType DEF EnvVersion
    <2>2. gone \in EnvVersion /\ EnvSound(gone) /\ ~gone.live
      BY <2>1, EnvGoneVersion
    <2> HIDE DEF gone
    <2>3. \A e \in Envs : /\ Cached(envLog'[e]) = Cached(envLog[e])
                          /\ Len(envLog[e]) > 1 => Len(envLog'[e]) > 1
      BY <1>2, <1>7, <2>2, EnvCacheKept DEF gone
    <2>4. Len(envLog'[cur]) > 1
      <3>1. Current(envLog[cur]) = copy
        BY <1>7, <2>0, FreshCopy DEF EnvNow
      <3>2. gone # Current(envLog[cur])
        BY <2>1, <2>2, <3>1
      <3>3. Len(envLog'[cur]) = Len(envLog[cur]) + 1 /\ Len(envLog[cur]) \in Nat \ {0}
        BY <1>2, <1>7, <2>2, <3>2, WriteEnvLog, EnvEnds DEF gone
      <3> QED
        BY <3>3
    <2>5. \A e \in Envs : e = cur => Asked(e)'
      BY <2>4 DEF Asked
    <2> QED
      BY <1>1, <2>0, <2>3, <2>5
  <1> QED
    BY <1>2, <1>5, <1>6, <1>7 DEF RemoveFinalizer

LEMMA StopsRemembering ==
  ASSUME OwnNames, TypeInv, Tracked, NoneForgotten, WorkerServes,
         PatchStatusFails \/ UninstallDone \/ RemoveFinalizer
  PROVE  NoneForgotten' /\ WorkerServes'
  <1>1. \A n \in Releases \ {relName} : release'[n] = release[n]
    <2>1. release \in [Releases -> Release]
      BY Parts DEF TypeParts
    <2> QED
      BY <2>1 DEF PatchStatusFails, UninstallDone, RemoveFinalizer
  <1>2. WorkerServes'
    BY StopFacts DEF WorkerServes, Deploying
  <1>3. \A e \in Envs : Asked(e)' => Remembered(e)'
    BY DEF Remembered
  <1> QED
    BY <1>1, <1>2, <1>3, StopFacts, WorkerRemembers

-----------------------------------------------------------------------------
\* The worker takes a request.

\* It looks at the environment as the cache shows it: that environment is at
\* work, or not there, and the others wait as before.
LEMMA TakesRequest ==
  ASSUME OwnNames, TypeInv, NoneForgotten, WorkerServes, NEW e \in Envs,
         ReconcileNotFound(e) \/ ReconcileDeletion(e) \/ ReconcileDeploy(e)
  PROVE  NoneForgotten' /\ WorkerServes'
  <1>1. /\ pc = "idle" /\ envQ' = envQ \ {e}
        /\ UNCHANGED <<envLog, prodLog, release>>
    BY DEF ReconcileNotFound, ReconcileDeletion, ReconcileDeploy, Dequeue, Take
  <1>2. \/ ~Cached(envLog[e]).live /\ UNCHANGED envVars
        \/ pc' = "uninstall" /\ cur' = e
        \/ /\ pc' = "deploy" /\ cur' = e /\ copy' = Cached(envLog[e])
           /\ values'.spec = copy'.spec /\ MadeOf(values', prodLog, e)
    <2>1. CASE ReconcileNotFound(e) \/ ReconcileDeletion(e)
      BY <2>1 DEF ReconcileNotFound, ReconcileDeletion
    <2>2. CASE ReconcileDeploy(e)
      <3>1. PICK S \in Firsts(listed(e)) :
              values' = [spec |-> Cached(envLog[e]).spec,
                         prods |-> {<<p, Cached(prodLog[p]).spec>> : p \in S}]
        BY <2>2 DEF ReconcileDeploy, Take
      <3>2. values'.prods = {<<p, Cached(prodLog[p]).spec>> : p \in S}
        BY <3>1
      <3>3. MadeOf(values', prodLog, e)
        BY <3>2 DEF MadeOf, listed
      <3>4. values'.spec = Cached(envLog[e]).spec
        BY <3>1
      <3> QED
        BY <2>2, <3>3, <3>4 DEF ReconcileDeploy, Take
    <2> QED
      BY <2>1, <2>2
  <1>3. ASSUME NEW f \in Envs
        PROVE  Remembered(f)'
    <2>1. Remembered(f)
      BY DEF NoneForgotten
    <2>2. CASE f = e
      BY <1>1, <1>2, <2>2 DEF Remembered
    <2>3. CASE f # e
      BY <1>1, <2>1, <2>3, StaysRemembered
    <2> QED
      BY <2>2, <2>3
  <1>4. WorkerServes'
    <2>1. CASE UNCHANGED envVars
      BY <1>1, <2>1, WorkKept
    <2>2. CASE pc' = "uninstall"
      BY <2>2 DEF WorkerServes, Deploying
    <2>3. CASE pc' = "deploy"
      BY <1>1, <1>2, <2>3 DEF WorkerServes, Deploying, envVars
    <2> QED
      BY <1>2, <2>1, <2>2, <2>3
  <1> QED
    BY <1>3, <1>4 DEF NoneForgotten

-----------------------------------------------------------------------------
\* The others.

\* What is written reaches no cache, and nobody is asked for.
OnlyWritten ==
  /\ UNCHANGED <<envVars, release, envQ>>
  /\ \A e \in Envs : /\ Cached(envLog'[e]) = Cached(envLog[e])
                     /\ Len(envLog[e]) > 1 => Len(envLog'[e]) > 1
  /\ \A p \in Products : /\ Cached(prodLog'[p]) = Cached(prodLog[p])
                         /\ Len(prodLog[p]) > 1 => Len(prodLog'[p]) > 1

\* The finalizer is added.
LEMMA AddWrites ==
  ASSUME TypeInv, NEW e \in Envs, AddFinalizer(e)
  PROVE  OnlyWritten
  <1> DEFINE c == Cached(envLog[e])
             new == [c EXCEPT !.fin = TRUE]
  <1>1. EnvLogsOK /\ c \in EnvVersion /\ EnvSound(c)
    BY Parts, EnvEnds DEF TypeParts
  <1>2. c.live /\ WriteEnv(e, new) /\ UNCHANGED <<envVars, prodLog, release, envQ>>
    BY DEF AddFinalizer
  <1>3. new \in EnvVersion /\ EnvSound(new)
    BY <1>1, <1>2 DEF EnvVersion, EnvSound
  <1> HIDE DEF new
  <1> QED
    BY <1>1, <1>2, <1>3, EnvCacheKept DEF OnlyWritten

\* Users write.
LEMMA UsersOnlyWrite ==
  ASSUME TypeInv, UserStep
  PROVE  OnlyWritten
  <1>1. EnvLogsOK /\ ProdLogsOK
    BY Parts DEF TypeParts
  <1>2. UNCHANGED <<envVars, release, envQ>>
    BY UserWrites DEF UserUnchanged
  <1> QED
    BY <1>1, <1>2, UserWrites, EnvCacheKept, ProdCacheKept DEF OnlyWritten

\* The product controllers do.
LEMMA ProductsWrite ==
  ASSUME TypeInv, ProdStep, UNCHANGED envVars
  PROVE  OnlyWritten
  <1>1. PICK p \in Products :
          \/ ProdNotFound(p) \/ ProdRemoveFinalizer(p) \/ ProdAddFinalizer(p)
          \/ EnvFound(p) \/ EnvMissing(p)
          \/ \E m \in pending[KindOf[p]] : m[1] = p /\ PatchPending(p, m[2])
    BY DEF ProdStep
  <1> DEFINE c == Cached(prodLog[p])
             now == Current(prodLog[p])
  <1>2. /\ ProdLogsOK
        /\ c \in ProdVersion /\ ProdSound(c)
        /\ now \in ProdVersion /\ ProdSound(now)
    BY Parts, ProdEnds DEF TypeParts
  <1>3. UNCHANGED <<envLog, release, envQ>>
    BY <1>1 DEF ProdNotFound, ProdRemoveFinalizer, ProdAddFinalizer, EnvFound,
                EnvMissing, PatchPending
  <1>4. prodLog' # prodLog => \E v \in ProdVersion : ProdSound(v) /\ WriteProd(p, v)
    <2>2. CASE ProdRemoveFinalizer(p)
      <3>1. ProdGone(c.rv) \in ProdVersion /\ ProdSound(ProdGone(c.rv))
        BY <1>2, ProdGoneVersion DEF ProdVersion
      <3> QED
        BY <2>2, <3>1 DEF ProdRemoveFinalizer
    <2>3. CASE ProdAddFinalizer(p)
      <3> DEFINE new == [c EXCEPT !.fin = TRUE]
      <3>1. new \in ProdVersion /\ ProdSound(new) /\ WriteProd(p, new)
        BY <1>2, <2>3 DEF ProdVersion, ProdSound, ProdAddFinalizer
      <3> HIDE DEF new
      <3> QED
        BY <3>1
    <2>4. ASSUME NEW m, PatchPending(p, m[2]), prodLog' # prodLog
          PROVE  \E v \in ProdVersion : ProdSound(v) /\ WriteProd(p, v)
      <3> DEFINE new == [now EXCEPT !.phase = Patched(@, m[2].phase, "Pending")]
      <3>1. new \in ProdVersion /\ ProdSound(new)
        BY <1>2 DEF Patched, ProdVersion, ProdSound
      <3>2. WriteProd(p, new)
        BY <2>4 DEF PatchPending
      <3> HIDE DEF new
      <3> QED
        BY <3>1, <3>2
    <2> QED
      BY <1>1, <2>2, <2>3, <2>4 DEF ProdNotFound, EnvFound, EnvMissing
  <1> QED
    BY <1>2, <1>3, <1>4, ProdCacheKept DEF OnlyWritten

LEMMA WritesRemember ==
  ASSUME TypeInv, NoneForgotten, WorkerServes, OnlyWritten
  PROVE  NoneForgotten' /\ WorkerServes'
  <1> USE DEF OnlyWritten
  <1>1. \A e \in Envs : \A v : MadeOf(v, prodLog, e) => MadeOf(v, prodLog', e)
    BY MadeKept
  <1>2. pc' = pc /\ cur' = cur
    BY DEF envVars
  <1>3. ASSUME NEW e \in Envs
        PROVE  Remembered(e)'
    BY <1>1, <1>2, StaysRemembered DEF NoneForgotten
  <1>4. WorkerServes'
    <2> SUFFICES ASSUME pc # "idle"
                 PROVE  \/ Asked(cur)'
                        \/ /\ ~Asked(cur)
                           /\ Cached(envLog'[cur]) = Cached(envLog[cur])
                           /\ \A v : MadeOf(v, prodLog, cur) => MadeOf(v, prodLog', cur)
      BY WorkKept
    <2>1. cur \in Envs
      BY RelType
    <2>2. Asked(cur) => Asked(cur)'
      BY <1>2, <2>1 DEF Asked
    <2> QED
      BY <1>1, <2>1, <2>2
  <1> QED
    BY <1>3, <1>4 DEF NoneForgotten

\* What is delivered wakes the environments it is about.
LEMMA DeliveryRemembers ==
  ASSUME TypeInv, NoneForgotten, WorkerServes, Deliver, UNCHANGED envVars
  PROVE  NoneForgotten' /\ WorkerServes'
  <1>1. /\ release' = release /\ envQ \subseteq envQ'
        /\ pc' = pc /\ cur' = cur
    BY DEF Deliver, DeliverEnv, DeliverProd, envVars
  <1>2. ASSUME NEW e \in Envs
        PROVE  \/ e \in envQ'
               \/ /\ envLog'[e] = envLog[e]
                  /\ \A v : MadeOf(v, prodLog, e) => MadeOf(v, prodLog', e)
    <2>1. ASSUME NEW f \in Envs, DeliverEnv(f)
          PROVE  e \in envQ' \/ (envLog'[e] = envLog[e] /\ prodLog' = prodLog)
      <3>1. prodLog' = prodLog /\ f \in envQ'
        BY <2>1 DEF DeliverEnv
      <3>2. e # f => envLog'[e] = envLog[e]
        BY <2>1, Parts, DeliverEnvLog DEF TypeParts
      <3> QED
        BY <3>1, <3>2
    <2>2. ASSUME NEW p \in Products, DeliverProd(p), e \notin envQ'
          PROVE  /\ envLog' = envLog
                 /\ \A v : MadeOf(v, prodLog, e) => MadeOf(v, prodLog', e)
      BY <2>2, Parts, ProdWakes DEF TypeParts, DeliverProd
    <2> QED
      BY <2>1, <2>2 DEF Deliver
  <1>3. ASSUME NEW e \in Envs
        PROVE  Remembered(e)'
    <2>1. CASE e \in envQ'
      BY <2>1 DEF Remembered, Asked
    <2>2. CASE e \notin envQ'
      BY <1>1, <1>2, <2>2, StaysRemembered DEF NoneForgotten
    <2> QED
      BY <2>1, <2>2
  <1>4. WorkerServes'
    <2> SUFFICES ASSUME pc # "idle"
                 PROVE  \/ Asked(cur)'
                        \/ /\ ~Asked(cur)
                           /\ Cached(envLog'[cur]) = Cached(envLog[cur])
                           /\ \A v : MadeOf(v, prodLog, cur) => MadeOf(v, prodLog', cur)
      BY <1>1, WorkKept
    <2>1. cur \in Envs
      BY RelType
    <2>2. CASE cur \in envQ'
      BY <1>1, <2>2 DEF Asked
    <2>3. CASE cur \notin envQ'
      <3>1. Asked(cur) => Asked(cur)'
        BY <1>1, <1>2, <2>1, <2>3 DEF Asked
      <3> QED
        BY <1>2, <2>1, <2>3, <3>1
    <2> QED
      BY <2>2, <2>3
  <1> QED
    BY <1>3, <1>4 DEF NoneForgotten

\* A restart enqueues every environment there is.
LEMMA RestartRemembers ==
  ASSUME TypeInv, Crash
  PROVE  NoneForgotten' /\ WorkerServes'
  <1>1. pc' = "idle" /\ {e \in Envs : Current(envLog[e]).live} \subseteq envQ'
    BY DEF Crash, Return
  <1>2. \A e \in Envs : Cached(envLog'[e]) = Current(envLog[e])
    BY CrashLogs
  <1>3. \A e \in Envs : Remembered(e)'
    BY <1>1, <1>2 DEF Remembered, Asked
  <1> QED
    BY <1>1, <1>3 DEF NoneForgotten, WorkerServes, Deploying

LEMMA StepAwake ==
  ASSUME OwnNames, TypeInv, Tracked, Telling, Awake, [Next]_vars
  PROVE  Awake'
  <1> USE DEF Awake
  <1>1. CASE EnvStep
    <2>1. CASE \E e \in Envs : Reconcile(e)
      BY <2>1, TakesRequest, AddWrites, WritesRemember DEF Reconcile
    <2>2. CASE ChartFails \/ DownloadChart \/ InstallOrUpgrade \/ HelmDone \/ Uninstall
      BY <2>2, HelmRemembers, HelmServes
    <2>3. CASE PatchStatus \/ \E p \in Products : updateProductStatus(p)
      BY <2>3, PatchRemembers, ProductsRemember
    <2>4. CASE ReconcileDone \/ PatchStatusFails \/ UninstallDone \/ RemoveFinalizer
      BY <2>4, DoneRemembers, StopsRemembering
    <2> QED
      BY <1>1, <2>1, <2>2, <2>3, <2>4 DEF EnvStep
  <1>2. CASE ProdStep /\ UNCHANGED envVars
    BY <1>2, ProductsWrite, WritesRemember
  <1>3. CASE Deliver /\ UNCHANGED envVars
    BY <1>3, DeliveryRemembers
  <1>4. CASE UserStep
    BY <1>4, UsersOnlyWrite, WritesRemember
  <1>5. CASE Crash
    BY <1>5, RestartRemembers
  <1>6. CASE UNCHANGED vars
    BY <1>6, WritesRemember DEF vars, clusterVars, OnlyWritten
  <1> QED
    BY <1>1, <1>2, <1>3, <1>4, <1>5, <1>6 DEF Next

LEMMA InitAwake == Init => Awake
  <1> SUFFICES ASSUME Init PROVE Awake
    OBVIOUS
  <1>1. pc = "idle" /\ \A e \in Envs : ~Cached(envLog[e]).live
    BY DEF Init, ClusterInit, EnvInit, EnvGone, Cached
  <1> QED
    BY <1>1 DEF Awake, NoneForgotten, Remembered, WorkerServes, Deploying

\* As long as no two environments share the name of a release, an environment
\* that nobody has to look at again, or is at work on, is deployed as the cache
\* shows it.
THEOREM AwakeAlways ==
  ASSUME OwnNames
  PROVE  Spec => []Awake
  <1> DEFINE Inv == TypeInv /\ Tracked /\ Telling /\ Awake
  <1>1. Init => Inv
    BY InitType, InitTracked, InitTelling, InitAwake
  <1>2. Inv /\ [Next]_vars => Inv'
    BY StepType, StepTracked, StepTelling, StepAwake
  <1>3. Inv => Awake
    OBVIOUS
  <1> QED
    BY <1>1, <1>2, <1>3, PTL DEF Spec

\* At rest the cache shows what there is, and nobody has to look at it again.
LEMMA RestDeployed ==
  ASSUME Awake
  PROVE  QuietDeployed
  <1> SUFFICES ASSUME EnvQuiet, NEW e \in Envs, EnvNow(e).live
               PROVE  Deployed(e)
    BY DEF QuietDeployed
  <1>1. /\ pc = "idle" /\ ~Asked(e)
        /\ \A p \in Products : Cached(prodLog[p]) = ProdNow(p)
        /\ Cached(envLog[e]) = EnvNow(e)
    BY DEF EnvQuiet, Asked, Cached, ProdNow, EnvNow, Current
  <1>2. Served(e)
    BY <1>1 DEF Awake, NoneForgotten, Remembered
  <1>3. \A v : MadeOf(v, prodLog, e) =>
          \E S \in Firsts(Members(e)) : v.prods = {<<p, ProdNow(p).spec>> : p \in S}
    <2>1. {p \in Products : Cached(prodLog[p]).live /\ Cached(prodLog[p]).ref = e}
            = Members(e)
      BY <1>1 DEF Members
    <2>2. ASSUME NEW S \in Firsts(Members(e))
          PROVE  {<<p, Cached(prodLog[p]).spec>> : p \in S} = {<<p, ProdNow(p).spec>> : p \in S}
      <3>1. S \subseteq Products
        BY DEF Firsts, Members
      <3> QED
        BY <1>1, <3>1
    <2> QED
      BY <2>1, <2>2 DEF MadeOf
  <1> QED
    BY <1>1, <1>2, <1>3 DEF Served, Deployed, ReleaseNow

\* As long as no two environments share the name of a release, no wake-up is
\* lost: when the environment controller rests, every environment is deployed as
\* it stands, with the products there are, and says so.
THEOREM NoWakeUpLost ==
  ASSUME OwnNames
  PROVE  Spec => []QuietDeployed
  BY AwakeAlways, RestDeployed, PTL

==============================================================================
