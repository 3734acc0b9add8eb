---------------------------- MODULE ProductProofs ----------------------------
(***************************************************************************)
(* When the environment controller rests, every product of an environment  *)
(* says that it is ready and names the release it is part of, although two *)
(* controllers patch its status from copies of different age.              *)
(***************************************************************************)
EXTENDS WakeProofs

EnvsShow == \A e \in Envs : EnvShows(e)
ProdsShow == \A p \in Products, e \in Envs : ProdShows(p, e)

-----------------------------------------------------------------------------
\* While the worker is where it is, an environment that was awaited still is, or
\* the cache shows the same of it and of its products.
LEMMA ShownKept ==
  ASSUME TypeInv, AllShow, UNCHANGED envVars,
         \A e \in Envs :
           \/ Asked(e)'
           \/ ~Asked(e) /\ Cached(envLog'[e]) = Cached(envLog[e]),
         \A p \in Products, e \in Envs :
           \/ Asked(e)'
           \/ Len(prodLog'[p]) # 1
           \/ Cached(prodLog'[p]).ref # e
           \/ Len(prodLog[p]) = 1 /\ Cached(prodLog'[p]) = Cached(prodLog[p])
  PROVE  AllShow'
  <1>1. UNCHANGED <<pc, cur, copy, lists, outcome, todo>> /\ relName' = relName
    BY DEF envVars, relName
  <1>2. \A e \in Envs : ~Awaited(e)' =>
          /\ ~Asked(e)' /\ ~Awaited(e)
          /\ Cached(envLog'[e]) = Cached(envLog[e])
    BY <1>1 DEF Awaited
  <1>3. EnvsShow'
    BY <1>2 DEF AllShow, EnvsShow, EnvShows
  <1>4. ProdsShow'
    BY <1>2 DEF AllShow, ProdsShow, ProdShows
  <1>5. WorkerShows'
    <2> SUFFICES ASSUME pc \in Deploying, NEW e \in Envs, e = cur, ~Asked(e)'
                 PROVE  WorkerShows'
      <3>1. pc \in Deploying => cur \in Envs
        BY RelType DEF Deploying
      <3> QED
        BY <1>1, <3>1 DEF WorkerShows
    <2>1. ~Asked(cur) /\ Cached(envLog'[cur]) = Cached(envLog[cur])
      OBVIOUS
    <2>2. \A p \in Products : Len(prodLog'[p]) = 1 /\ Cached(prodLog'[p]).ref = cur =>
            Len(prodLog[p]) = 1 /\ Cached(prodLog'[p]) = Cached(prodLog[p])
      OBVIOUS
    <2> QED
      BY <1>1, <2>1, <2>2 DEF AllShow, WorkerShows
  <1> QED
    BY <1>3, <1>4, <1>5 DEF AllShow, EnvsShow, ProdsShow

\* Writes.
LEMMA WritesShow ==
  ASSUME TypeInv, AllShow, OnlyWritten
  PROVE  AllShow'
  <1>1. \A e \in Envs : Asked(e)' \/ ~Asked(e)
    BY DEF OnlyWritten, Asked
  <1>2. ASSUME NEW p \in Products
        PROVE  Len(prodLog'[p]) # 1 \/ Len(prodLog[p]) = 1
    <2>1. Len(prodLog[p]) \in Nat \ {0}
      BY Parts, Ends DEF TypeParts, ProdLogsOK
    <2>2. \A n \in Nat \ {0} : n = 1 \/ n > 1
      OBVIOUS
    <2>3. \A n \in {1} : ~(n > 1)
      OBVIOUS
    <2> QED
      BY <2>1, <2>2, <2>3 DEF OnlyWritten
  <1> QED
    BY <1>1, <1>2, ShownKept DEF OnlyWritten

\* Deliveries: they wake the environments they are about.
LEMMA DeliveriesShow ==
  ASSUME TypeInv, AllShow, Deliver, UNCHANGED envVars
  PROVE  AllShow'
  <1>1. ASSUME NEW e \in Envs, DeliverEnv(e)
        PROVE  AllShow'
    <2>1. prodLog' = prodLog /\ \A f \in Envs \ {e} : envLog'[f] = envLog[f]
      BY <1>1, Parts, DeliverEnvLog DEF TypeParts, DeliverEnv
    <2>2. Asked(e)' /\ envQ' = envQ \cup {e}
      BY <1>1 DEF DeliverEnv, Asked
    <2>3. \A f \in Envs \ {e} : Asked(f)' \/ ~Asked(f)
      BY <2>1, <2>2 DEF Asked
    <2> QED
      BY <1>1, <2>1, <2>2, <2>3, ShownKept
  <1>2. ASSUME NEW p \in Products, DeliverProd(p)
        PROVE  AllShow'
    <2> DEFINE log == prodLog[p]
    <2>1. /\ envLog' = envLog /\ envQ \subseteq envQ'
          /\ Len(log) > 1
          /\ prodLog' = [prodLog EXCEPT ![p] = Tail(log)]
          /\ enqueueFromEnvironmentRef(log[2]) \subseteq envQ'
      BY <1>2 DEF DeliverProd
    <2>2. \A q \in Products \ {p} : prodLog'[q] = prodLog[q]
      BY <2>1
    <2>3. Cached(prodLog'[p]) = log[2]
      <3>1. log \in Seq(ProdVersion) /\ prodLog \in [Products -> Seq(ProdVersion)]
        BY Parts DEF TypeParts, ProdLogsOK
      <3> QED
        BY <2>1, <3>1, TailLog
    <2>4. \A e \in Envs : e \in envQ' \/ Cached(prodLog'[p]).ref # e
      BY <2>1, <2>3 DEF enqueueFromEnvironmentRef
    <2>5. \A e \in Envs : Asked(e)' \/ (~Asked(e) /\ envLog'[e] = envLog[e])
      BY <2>1 DEF Asked
    <2>6. ASSUME NEW q \in Products, NEW e \in Envs, ~Asked(e)'
          PROVE  \/ Len(prodLog'[q]) # 1
                 \/ Cached(prodLog'[q]).ref # e
                 \/ Len(prodLog[q]) = 1 /\ Cached(prodLog'[q]) = Cached(prodLog[q])
      <3>1. CASE q = p
        BY <2>4, <2>6, <3>1 DEF Asked
      <3>2. CASE q # p
        BY <2>2, <3>2
      <3> QED
        BY <3>1, <3>2
    <2> QED
      BY <2>5, <2>6, ShownKept
  <1> QED
    BY <1>1, <1>2 DEF Deliver

\* A restart enqueues every environment there is.
LEMMA RestartShows ==
  ASSUME TypeInv, Crash
  PROVE  AllShow'
  <1>1. pc' = "idle" /\ {e \in Envs : Current(envLog[e]).live} \subseteq envQ'
    BY DEF Crash, Return
  <1>2. \A e \in Envs : Cached(envLog'[e]) = Current(envLog[e])
    BY CrashLogs
  <1>3. \A e \in Envs : Cached(envLog'[e]).live => Awaited(e)'
    BY <1>1, <1>2 DEF Awaited, Asked
  <1>4. EnvsShow'
    BY <1>3 DEF EnvsShow, EnvShows
  <1>5. ProdsShow'
    BY <1>3 DEF ProdsShow, ProdShows
  <1>6. WorkerShows'
    BY <1>1 DEF WorkerShows, Deploying
  <1> QED
    BY <1>4, <1>5, <1>6 DEF AllShow, EnvsShow, ProdsShow

-----------------------------------------------------------------------------
\* The steps of the worker.

\* They only write and enqueue; the worker stays at its environment, or leaves
\* it awaited, or shown.
LEMMA WorkerKeeps ==
  ASSUME TypeInv, EnvsShow, ProdsShow, pc # "idle",
         envQ \subseteq envQ',
         \A e \in Envs : /\ Cached(envLog'[e]) = Cached(envLog[e])
                         /\ Len(envLog[e]) > 1 => Len(envLog'[e]) > 1,
         \A p \in Products : /\ Cached(prodLog'[p]) = Cached(prodLog[p])
                             /\ Len(prodLog[p]) > 1 => Len(prodLog'[p]) > 1,
         \/ pc' # "idle" /\ cur' = cur
         \/ \A e \in Envs : e = cur =>
              Asked(e)' \/ (EnvShows(e)' /\ \A p \in Products : ProdShows(p, e)')
  PROVE  EnvsShow' /\ ProdsShow'
  <1>1. \A e \in Envs : ~Awaited(e)' =>
          \/ ~Awaited(e)
          \/ e = cur /\ EnvShows(e)' /\ \A p \in Products : ProdShows(p, e)'
    BY DEF Awaited, Asked
  <1>2. ASSUME NEW p \in Products
        PROVE  Len(prodLog'[p]) # 1 \/ Len(prodLog[p]) = 1
    <2>1. Len(prodLog[p]) \in Nat \ {0}
      BY Parts, Ends DEF TypeParts, ProdLogsOK
    <2>2. \A n \in Nat \ {0} : n = 1 \/ n > 1
      OBVIOUS
    <2>3. \A n \in {1} : ~(n > 1)
      OBVIOUS
    <2> QED
      BY <2>1, <2>2, <2>3
  <1>3. ASSUME NEW e \in Envs
        PROVE  EnvShows(e)'
    BY <1>1 DEF EnvsShow, EnvShows
  <1>4. ASSUME NEW e \in Envs, NEW p \in Products
        PROVE  ProdShows(p, e)'
    BY <1>1, <1>2 DEF ProdsShow, ProdShows
  <1> QED
    BY <1>3, <1>4 DEF EnvsShow, ProdsShow

\* Helm's steps, up to the report.
LEMMA HelmShows ==
  ASSUME TypeInv, AllShow,
         ChartFails \/ DownloadChart \/ InstallOrUpgrade \/ HelmDone \/ Uninstall
  PROVE  AllShow'
  <1>1. /\ pc # "idle" /\ pc' \notin {"idle", "products"} /\ cur' = cur
        /\ pc' \in Deploying => pc \in Deploying
        /\ UNCHANGED <<envLog, prodLog, envQ, copy, lists>>
    BY DEF ChartFails, DownloadChart, InstallOrUpgrade, HelmDone, Uninstall,
           Report, clusterVars, envVars, Deploying
  <1>2. EnvsShow' /\ ProdsShow'
    BY <1>1, WorkerKeeps DEF AllShow, EnvsShow, ProdsShow
  <1>3. WorkerShows'
    BY <1>1 DEF AllShow, WorkerShows, Asked
  <1> QED
    BY <1>2, <1>3 DEF AllShow, EnvsShow, ProdsShow

\* The patch of the environment's status.
LEMMA PatchShows ==
  ASSUME TypeInv, AllShow, PatchStatus
  PROVE  AllShow'
  <1>1. /\ pc = "status" /\ pc' = "products" /\ StatusLands
        /\ UNCHANGED <<cur, copy, lists, outcome, prodLog, envQ>>
        /\ todo' = {p \in Products : lists[p].live}
    BY DEF PatchStatus
  <1>2. EnvsShow' /\ ProdsShow'
    BY <1>1, PatchFacts, WorkerKeeps DEF AllShow, EnvsShow, ProdsShow
  <1>3. cur \in Envs /\ Len(envLog[cur]) \in Nat \ {0}
    BY <1>1, RelType, Parts, EnvEnds DEF TypeParts
  <1>4. ~Asked(cur)' => ~Asked(cur) /\ Len(envLog'[cur]) # Len(envLog[cur]) + 1
    BY <1>1, <1>3, PatchFacts DEF Asked
  <1>5. ASSUME ~Asked(cur)'
        PROVE  /\ copy = Cached(envLog'[cur])
               /\ outcome = "Ready" => copy.rel = relName
    <2>1. copy = Cached(envLog[cur])
      BY <1>1, <1>4, <1>5 DEF AllShow, WorkerShows, Deploying
    <2>2. EnvNow(cur) = copy
      <3>1. ~(Len(envLog[cur]) > 1)
        BY <1>4, <1>5 DEF Asked
      <3>2. \A n \in Nat \ {0} : n = 1 \/ n > 1
        OBVIOUS
      <3>3. Len(envLog[cur]) = 1
        BY <1>3, <3>1, <3>2
      <3> QED
        BY <2>1, <3>3 DEF EnvNow, Current, Cached
    <2> QED
      BY <1>1, <1>3, <1>4, <1>5, <2>1, <2>2, PatchFacts, NothingToReport
  <1>6. ASSUME ~Asked(cur)', NEW p \in Products,
               Cached(prodLog[p]).live, Cached(prodLog[p]).ref = cur,
               Len(prodLog[p]) = 1
        PROVE  lists[p] = Cached(prodLog[p]) /\ p \in todo'
    BY <1>1, <1>4, <1>6 DEF AllShow, WorkerShows, Deploying
  <1>7. WorkerShows'
    BY <1>1, <1>5, <1>6 DEF WorkerShows, relName
  <1> QED
    BY <1>2, <1>7 DEF AllShow, EnvsShow, ProdsShow

\* A product that has been read with the phase and the release reported, and so
\* has got no patch, is as it was.
LEMMA NothingToPatch ==
  ASSUME TypeInv, pc = "products", NEW d \in ProdVersion,
         ProdPatch(d, d, ProdReported(d)) = d
  PROVE  d.phase = outcome /\ (outcome = "Ready" => d.rel = relName)
  <1>1. /\ ProdReported(d).phase = outcome
        /\ outcome = "Ready" => ProdReported(d).rel = relName
    BY DEF ProdReported, ProdVersion
  <1>2. ASSUME NEW b
        PROVE  /\ ProdPatch(d, d, b).phase = b.phase
               /\ ProdPatch(d, d, b).rel = b.rel
    BY DEF ProdPatch, Patched, ProdVersion
  <1> QED
    BY <1>1, <1>2

LEMMA ProductsShow ==
  ASSUME TypeInv, AllShow, faults'["patch"] = 0,
         NEW p \in Products, updateProductStatus(p)
  PROVE  AllShow'
  <1>1. /\ pc = "products"
        /\ UNCHANGED <<pc, cur, copy, lists, outcome, envLog, envQ>>
        /\ todo' = todo \ {p}
    BY DEF updateProductStatus
  <1>2. EnvsShow' /\ ProdsShow'
    BY <1>1, ProductFacts, WorkerKeeps DEF AllShow, EnvsShow, ProdsShow
  <1>3. ASSUME NEW q \in Products, Len(prodLog'[q]) = 1
        PROVE  Len(prodLog[q]) = 1 /\ Cached(prodLog'[q]) = Cached(prodLog[q])
    <2>1. Len(prodLog[q]) \in Nat \ {0}
      BY Parts, Ends DEF TypeParts, ProdLogsOK
    <2>2. \A n \in Nat \ {0} : n = 1 \/ n > 1
      OBVIOUS
    <2>3. \A n \in {1} : ~(n > 1)
      OBVIOUS
    <2> QED
      BY <1>3, <2>1, <2>2, <2>3, ProductFacts
  <1>4. ASSUME Len(prodLog'[p]) = 1, lists[p] = Cached(prodLog[p]), lists[p].live,
               outcome = "Ready"
        PROVE  lists[p].phase = "Ready" /\ lists[p].rel = relName
    <2>1. Current(prodLog[p]) = lists[p]
      BY <1>3, <1>4 DEF Current, Cached
    <2>2. ProdPatch(lists[p], lists[p], ProdReported(lists[p])) = lists[p]
      BY <1>4, <2>1, ProductFacts
    <2>3. lists[p] \in ProdVersion
      BY Parts DEF TypeParts, EnvTypeOK
    <2> QED
      BY <1>1, <1>4, <2>2, <2>3, NothingToPatch
  <1>5. WorkerShows'
    <2> SUFFICES ASSUME ~Asked(cur)
                 PROVE  WorkerShows'
      BY <1>1 DEF WorkerShows, Asked
    <2>1. ASSUME NEW q \in Products, Cached(prodLog'[q]).live,
                 Cached(prodLog'[q]).ref = cur, Len(prodLog'[q]) = 1
          PROVE  /\ lists[q] = Cached(prodLog'[q])
                 /\ outcome = "Ready" /\ q \notin todo' =>
                      lists[q].phase = "Ready" /\ lists[q].rel = relName
      <3>1. Len(prodLog[q]) = 1 /\ Cached(prodLog'[q]) = Cached(prodLog[q])
        BY <1>3, <2>1
      <3>2. /\ lists[q] = Cached(prodLog[q])
            /\ outcome = "Ready" /\ q \notin todo =>
                 lists[q].phase = "Ready" /\ lists[q].rel = relName
        BY <1>1, <2>1, <3>1 DEF AllShow, WorkerShows, Deploying
      <3> QED
        BY <1>1, <1>4, <2>1, <3>1, <3>2
    <2> QED
      BY <1>1, <2>1 DEF AllShow, WorkerShows, Deploying, relName
  <1> QED
    BY <1>2, <1>5 DEF AllShow, EnvsShow, ProdsShow

\* The request is done: the worker asks for it again, or all of it is shown.
LEMMA DoneShows ==
  ASSUME TypeInv, AllShow, ReconcileDone
  PROVE  AllShow'
  <1>1. /\ pc = "products" /\ pc' = "idle" /\ todo = {}
        /\ UNCHANGED <<envLog, prodLog>>
        /\ envQ' = IF outcome = "Failed" THEN envQ \cup {cur} ELSE envQ
    BY DEF ReconcileDone, Return
  <1>2. /\ cur \in Envs /\ outcome \in {"Ready", "Failed"}
        /\ relName = ReleaseOf[cur][copy.spec]
    BY <1>1, RelType, Parts DEF TypeParts, EnvTypeOK
  <1>3. ASSUME NEW e \in Envs, e = cur, ~Asked(e)'
        PROVE  EnvShows(e)' /\ \A p \in Products : ProdShows(p, e)'
    <2>1. outcome = "Ready" /\ ~Asked(cur)
      BY <1>1, <1>2, <1>3 DEF Asked
    <2>2. /\ copy = Cached(envLog[e]) /\ copy.rel = relName
          /\ \A p \in Products :
               LET d == Cached(prodLog[p]) IN
               d.live /\ d.ref = e /\ Len(prodLog[p]) = 1 =>
                 d.phase = "Ready" /\ d.rel = relName
      BY <1>1, <1>3, <2>1 DEF AllShow, WorkerShows, Deploying
    <2>3. EnvShows(e)'
      BY <1>1, <1>2, <1>3, <2>2 DEF EnvShows
    <2>4. \A p \in Products : ProdShows(p, e)'
      BY <1>1, <1>2, <1>3, <2>2 DEF ProdShows
    <2> QED
      BY <2>3, <2>4
  <1>4. EnvsShow' /\ ProdsShow'
    BY <1>1, <1>3, WorkerKeeps DEF AllShow, EnvsShow, ProdsShow
  <1>5. WorkerShows'
    BY <1>1 DEF WorkerShows, Deploying
  <1> QED
    BY <1>4, <1>5 DEF AllShow, EnvsShow, ProdsShow

LEMMA StopShows ==
  ASSUME TypeInv, Tracked, AllShow,
         PatchStatusFails \/ UninstallDone \/ RemoveFinalizer
  PROVE  AllShow'
  <1>1. EnvsShow' /\ ProdsShow'
    BY StopFacts, WorkerKeeps DEF AllShow, EnvsShow, ProdsShow
  <1>2. WorkerShows'
    BY StopFacts DEF WorkerShows, Deploying
  <1> QED
    BY <1>1, <1>2 DEF AllShow, EnvsShow, ProdsShow

\* The worker takes a request: what it reads is what the cache shows.
LEMMA TakesShown ==
  ASSUME TypeInv, AllShow, NEW e \in Envs,
         ReconcileNotFound(e) \/ ReconcileDeletion(e) \/ ReconcileDeploy(e)
  PROVE  AllShow'
  <1>1. /\ pc = "idle" /\ envQ' = envQ \ {e}
        /\ UNCHANGED <<envLog, prodLog>>
    BY DEF ReconcileNotFound, ReconcileDeletion, ReconcileDeploy, Dequeue, Take
  <1>2. \/ ~Cached(envLog[e]).live /\ pc' = "idle"
        \/ pc' = "uninstall" /\ cur' = e
        \/ /\ pc' = "deploy" /\ cur' = e /\ copy' = Cached(envLog[e])
           /\ \A p \in Products :
                Cached(prodLog[p]).live /\ Cached(prodLog[p]).ref = e =>
                  lists'[p] = Cached(prodLog[p])
    BY <1>1 DEF ReconcileNotFound, ReconcileDeletion, ReconcileDeploy, Take,
                listed, envVars
  <1>3. \A f \in Envs : Cached(envLog[f]).live /\ ~Awaited(f)' => ~Awaited(f)
    BY <1>1, <1>2 DEF Awaited, Asked
  <1>4. EnvsShow'
    BY <1>1, <1>3 DEF AllShow, EnvsShow, EnvShows
  <1>5. ProdsShow'
    BY <1>1, <1>3 DEF AllShow, ProdsShow, ProdShows
  <1>6. WorkerShows'
    BY <1>1, <1>2 DEF WorkerShows, Deploying
  <1> QED
    BY <1>4, <1>5, <1>6 DEF AllShow, EnvsShow, ProdsShow

-----------------------------------------------------------------------------
\* Faults are counted and never forgotten.
LEMMA FaultsStay ==
  ASSUME TypeInv, [Next]_vars, faults'["patch"] = 0
  PROVE  faults["patch"] = 0
  <1>1. faults \in [FaultKinds -> Nat] /\ "patch" \in FaultKinds
    BY Parts DEF TypeParts, FaultKinds
  <1>2. ASSUME NEW k, Fault(k)
        PROVE  faults["patch"] = 0
    BY <1>1, <1>2 DEF Fault
  <1>3. CASE EnvStep
    BY <1>2, <1>3
       DEF EnvStep, Reconcile, ReconcileNotFound, ReconcileDeletion, AddFinalizer,
           ReconcileDeploy, Take, ChartFails, clusterVars, DownloadChart,
           InstallOrUpgrade, ReleaseExists, HelmDone, PatchStatus,
           PatchStatusFails, updateProductStatus, ReconcileDone, Uninstall,
           UninstallDone, RemoveFinalizer
  <1>4. CASE ProdStep
    BY <1>2, <1>4
       DEF ProdStep, ProdNotFound, ProdRemoveFinalizer, ProdAddFinalizer,
           EnvFound, EnvMissing, PatchPending
  <1>5. CASE Deliver
    BY <1>5 DEF Deliver, DeliverEnv, DeliverProd
  <1>6. CASE UserStep
    BY <1>6, UserWrites DEF UserUnchanged
  <1>7. CASE Crash
    BY <1>2, <1>7 DEF Crash
  <1>8. CASE UNCHANGED vars
    BY <1>8 DEF vars, clusterVars
  <1> QED
    BY <1>3, <1>4, <1>5, <1>6, <1>7, <1>8 DEF Next

LEMMA StepShown ==
  ASSUME TypeInv, Tracked, Shown, [Next]_vars
  PROVE  Shown'
  <1> SUFFICES ASSUME faults'["patch"] = 0
               PROVE  AllShow'
    BY DEF Shown
  <1>0. AllShow
    BY FaultsStay DEF Shown
  <1>1. CASE EnvStep
    <2>1. CASE \E e \in Envs : Reconcile(e)
      BY <1>0, <2>1, TakesShown, AddWrites, WritesShow DEF Reconcile
    <2>2. CASE ChartFails \/ DownloadChart \/ InstallOrUpgrade \/ HelmDone \/ Uninstall
      BY <1>0, <2>2, HelmShows
    <2>3. CASE PatchStatus \/ ReconcileDone \/ \E p \in Products : updateProductStatus(p)
      BY <1>0, <2>3, PatchShows, ProductsShow, DoneShows
    <2>4. CASE PatchStatusFails \/ UninstallDone \/ RemoveFinalizer
      BY <1>0, <2>4, StopShows
    <2> QED
      BY <1>1, <2>1, <2>2, <2>3, <2>4 DEF EnvStep
  <1>2. CASE ProdStep /\ UNCHANGED envVars
    BY <1>0, <1>2, ProductsWrite, WritesShow
  <1>3. CASE Deliver /\ UNCHANGED envVars
    BY <1>0, <1>3, DeliveriesShow
  <1>4. CASE UserStep
    BY <1>0, <1>4, UsersOnlyWrite, WritesShow
  <1>5. CASE Crash
    BY <1>5, RestartShows
  <1>6. CASE UNCHANGED vars
    BY <1>0, <1>6, WritesShow DEF vars, clusterVars, OnlyWritten
  <1> QED
    BY <1>1, <1>2, <1>3, <1>4, <1>5, <1>6 DEF Next

LEMMA InitShown == Init => Shown
  <1> SUFFICES ASSUME Init PROVE AllShow
    BY DEF Shown
  <1>1. pc = "idle" /\ \A e \in Envs : ~Cached(envLog[e]).live
    BY DEF Init, ClusterInit, EnvInit, EnvGone, Cached
  <1> QED
    BY <1>1 DEF AllShow, EnvShows, ProdShows, WorkerShows, Deploying

LEMMA ShownInvariant == Spec => [](TypeInv /\ Shown)
  <1> DEFINE Inv == TypeInv /\ Tracked /\ Shown
  <1>1. Init => Inv
    BY InitType, InitTracked, InitShown
  <1>2. Inv /\ [Next]_vars => Inv'
    BY StepType, StepTracked, StepShown
  <1>3. Inv => TypeInv /\ Shown
    OBVIOUS
  <1> QED
    BY <1>1, <1>2, <1>3, PTL DEF Spec

\* Unless a patch of a product has failed, an environment that nobody has to look
\* at, or is at work on, names its release, and so do its products, ready.
THEOREM ShownAlways == Spec => []Shown
  BY ShownInvariant, PTL

\* At rest the cache shows what there is, and nobody has to look at it.
LEMMA RestReported ==
  ASSUME TypeInv, Shown
  PROVE  QuietReported
  <1> SUFFICES ASSUME EnvQuiet, faults["patch"] = 0, NEW p \in Products,
                      ProdNow(p).live, EnvNow(ProdNow(p).ref).live
               PROVE  /\ ProdNow(p).phase = "Ready"
                      /\ ProdNow(p).rel = EnvNow(ProdNow(p).ref).rel
    BY DEF QuietReported
  <1> DEFINE e == ProdNow(p).ref
  <1>1. e \in Envs
    BY Parts, ProdEnds DEF TypeParts, ProdSound, ProdNow
  <1>2. /\ ~Awaited(e) /\ Len(prodLog[p]) = 1
        /\ Cached(prodLog[p]) = ProdNow(p) /\ Cached(envLog[e]) = EnvNow(e)
    BY <1>1 DEF EnvQuiet, Awaited, Asked, Cached, ProdNow, EnvNow, Current
  <1>3. EnvShows(e) /\ ProdShows(p, e)
    BY <1>1 DEF Shown, AllShow
  <1> QED
    BY <1>2, <1>3 DEF EnvShows, ProdShows

\* Unless a patch of a product has failed, at rest every product of an
\* environment reports Ready and the release that it is part of, whatever names
\* the releases have, and whatever else fails.
THEOREM ReportedAtRest == Spec => []QuietReported
  BY ShownInvariant, RestReported, PTL
==============================================================================
