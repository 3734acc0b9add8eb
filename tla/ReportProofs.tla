----------------------------- MODULE ReportProofs -----------------------------
(***************************************************************************)
(* What the status of an environment says: the observed generation never   *)
(* goes back, and Ready means deployed, whatever users write and whatever  *)
(* fails.                                                                  *)
(***************************************************************************)
EXTENDS CacheProofs

\* What the logs and the copy tell.
Telling == LogsTell /\ CopyTells

-----------------------------------------------------------------------------
\* The steps of the worker that end its work or go on with it, and leave the
\* environments alone.
LEMMA TellingKept ==
  ASSUME TypeInv, Telling, SameWork, envLog' = envLog
  PROVE  Telling'
  <1>1. LogsTell'
    BY DEF Telling, LogsTell
  <1>2. CopyTells'
    BY DEF Telling, CopyTells, SameWork
  <1> QED
    BY <1>1, <1>2 DEF Telling

\* A write that the versions in the log, and the copy of the worker, tell of.
LEMMA TellingWrite ==
  ASSUME TypeInv, Telling, SameWork,
         NEW e \in Envs, NEW v \in EnvVersion, EnvSound(v), WriteEnv(e, v),
         Observed(v),
         \A i \in 1 .. Len(envLog[e]) : Tells(envLog[e][i], v),
         pc' # "idle" /\ cur = e => Tells(copy, v)
  PROVE  Telling'
  <1> DEFINE log == envLog[e]
             new == envLog'[e]
             w == [v EXCEPT !.rv = Current(log).rv + 1]
  <1>0. EnvLogsOK
    BY Parts DEF TypeParts
  <1>1. /\ \A f \in Envs \ {e} : envLog'[f] = envLog[f]
        /\ \/ new = log
           \/ /\ Len(new) = Len(log) + 1
              /\ \A i \in 1 .. Len(log) : new[i] = log[i]
              /\ new[Len(log) + 1] = w
    BY <1>0, WriteEnvLog
  <1>2. Len(log) \in Nat \ {0}
    BY <1>0, EnvEnds
  <1>3. /\ Observed(w) /\ Tells(w, w)
        /\ \A i \in 1 .. Len(log) : Tells(log[i], w)
        /\ pc' # "idle" /\ cur = e => Tells(copy, w)
    <2>1. /\ w.live = v.live /\ w.fin = v.fin /\ w.del = v.del /\ w.gen = v.gen
          /\ w.obs = v.obs /\ w.spec = v.spec /\ w.phase = v.phase
          /\ v.gen \in Nat
      BY DEF EnvVersion
    <2> HIDE DEF w
    <2> QED
      BY <2>1 DEF Observed, Tells, Held
  <1> HIDE DEF w
  <1>4. ASSUME NEW i \in 1 .. Len(new), NEW j \in 1 .. Len(new), i <= j
        PROVE  Observed(new[i]) /\ Tells(new[i], new[j])
    <2>1. \A a, b \in 1 .. Len(log) : a <= b => Observed(log[a]) /\ Tells(log[a], log[b])
      BY DEF Telling, LogsTell
    <2>2. CASE new = log
      BY <1>4, <2>1, <2>2
    <2>3. CASE new # log /\ j <= Len(log)
      <3>1. i \in 1 .. Len(log) /\ j \in 1 .. Len(log)
        BY <1>2, <1>4, <2>3
      <3>2. new[i] = log[i] /\ new[j] = log[j]
        BY <1>1, <2>3, <3>1
      <3> QED
        BY <1>4, <2>1, <3>1, <3>2
    <2>4. CASE new # log /\ j > Len(log)
      <3>1. j = Len(log) + 1 /\ new[j] = w
        BY <1>1, <1>2, <2>4
      <3>2. CASE i = j
        BY <1>3, <3>1, <3>2
      <3>3. CASE i < j
        <4>1. i \in 1 .. Len(log) /\ i <= i
          BY <1>2, <3>1, <3>3
        <4>2. new[i] = log[i]
          BY <1>1, <2>4, <4>1
        <4> QED
          BY <1>3, <2>1, <3>1, <4>1, <4>2
      <3> QED
        BY <1>4, <3>2, <3>3
    <2> QED
      BY <1>2, <2>2, <2>3, <2>4
  <1>5. LogsTell'
    BY <1>1, <1>4 DEF Telling, LogsTell
  <1>6. CopyTells'
    <2> SUFFICES ASSUME pc' # "idle"
                 PROVE  /\ pc' \in Deploying => Held(copy')
                        /\ \A i \in 1 .. Len(envLog'[cur']) : Tells(copy', envLog'[cur'][i])
      BY DEF CopyTells
    <2>1. /\ pc # "idle" /\ cur' = cur /\ copy' = copy
          /\ pc' \in Deploying => pc \in Deploying
      BY DEF SameWork
    <2>2. cur \in Envs
      BY <2>1, RelType
    <2>3. \A i \in 1 .. Len(envLog[cur]) : Tells(copy, envLog[cur][i])
      BY <2>1 DEF Telling, CopyTells
    <2>4. CASE cur = e
      <3>1. ASSUME NEW i \in 1 .. Len(new) PROVE Tells(copy, new[i])
        <4>1. CASE new = log
          BY <2>3, <2>4, <3>1, <4>1
        <4>2. CASE new # log /\ i <= Len(log)
          <5>1. i \in 1 .. Len(log)
            BY <1>2, <4>2
          <5>2. new[i] = log[i]
            BY <1>1, <4>2, <5>1
          <5> QED
            BY <2>3, <2>4, <5>1, <5>2
        <4>3. CASE new # log /\ i > Len(log)
          <5>1. i = Len(log) + 1 /\ new[i] = w
            BY <1>1, <1>2, <4>3
          <5> QED
            BY <1>3, <2>4, <5>1
        <4> QED
          BY <1>2, <4>1, <4>2, <4>3
      <3> QED
        BY <2>1, <2>4, <3>1 DEF Telling, CopyTells
    <2>5. CASE cur # e
      BY <1>1, <2>1, <2>2, <2>3, <2>5 DEF Telling, CopyTells
    <2> QED
      BY <2>4, <2>5
  <1> QED
    BY <1>5, <1>6 DEF Telling

-----------------------------------------------------------------------------
\* What is held in the log, or was when the worker took it, is held now.
LEMMA HeldNow ==
  ASSUME TypeInv, Tracked, NEW e \in Envs
  PROVE  /\ \A i \in 1 .. Len(envLog[e]) :
              Held(envLog[e][i]) => EnvNow(e).live /\ EnvNow(e).fin
         /\ pc # "idle" /\ cur = e /\ Held(copy) => EnvNow(e).live /\ EnvNow(e).fin
  <1>1. Len(envLog[e]) \in Nat \ {0}
    BY Parts, EnvEnds DEF TypeParts
  <1>2. ASSUME NEW i \in 1 .. Len(envLog[e]), Held(envLog[e][i])
        PROVE  EnvNow(e).live /\ EnvNow(e).fin
    <2>1. i <= Len(envLog[e]) /\ Len(envLog[e]) \in 1 .. Len(envLog[e])
      BY <1>1
    <2> QED
      BY <1>2, <2>1 DEF Held, Tracked, HeldOnceSeen, EnvNow, Current
  <1>3. pc # "idle" => pc \in Deploying \/ pc \in Deleting
    BY Parts DEF TypeParts, EnvTypeOK, Steps, Deploying, Deleting
  <1> QED
    BY <1>2, <1>3 DEF Tracked, WorkerHolds, WorkerDeletes, Held

\* What tells of the present version tells of the one a user writes next.
LEMMA UserTells ==
  ASSUME NEW a \in EnvVersion, NEW now \in EnvVersion, NEW v \in EnvVersion,
         UserWrote(now, v), UserCounted(now, v), Tells(a, now),
         Held(a) => now.live /\ now.fin
  PROVE  Tells(a, v)
  <1>1. /\ now.gen \in Nat /\ v.gen \in Nat /\ a.gen \in Nat
        /\ now.obs \in Nat /\ v.obs \in Nat
    BY DEF EnvVersion
  <1>2. CASE ~v.live
    <2>1. v.fin = FALSE
      BY <1>2 DEF UserCounted, EnvGone
    <2> QED
      BY <1>2, <2>1 DEF Tells, UserWrote
  <1>3. CASE v.live
    <2>1. /\ v.gen = IF now.live THEN now.gen + 1 ELSE 1
          /\ v.obs = now.obs
      BY <1>3 DEF UserCounted, EnvGone
    <2>2. CASE now.live
      BY <1>1, <1>3, <2>1, <2>2 DEF Tells, UserWrote
    <2>3. CASE ~now.live
      BY <1>3, <2>1, <2>3 DEF Tells, UserWrote
    <2> QED
      BY <2>2, <2>3
  <1> QED
    BY <1>2, <1>3

LEMMA UserObserved ==
  ASSUME NEW now \in EnvVersion, NEW v \in EnvVersion,
         EnvSound(now), UserWrote(now, v), UserCounted(now, v), Observed(now)
  PROVE  Observed(v)
  <1>1. /\ now.gen \in Nat /\ v.gen \in Nat
        /\ now.obs \in Nat /\ v.obs \in Nat
    BY DEF EnvVersion
  <1>2. CASE ~v.live
    BY <1>2 DEF UserCounted, EnvGone, Observed
  <1>3. CASE v.live
    BY <1>1, <1>3 DEF UserWrote, UserCounted, Observed, EnvSound
  <1> QED
    BY <1>2, <1>3

\* What tells of the present version, and has reached the generation reported,
\* tells of the version with the report.
LEMMA ReportTells ==
  ASSUME NEW a \in EnvVersion, NEW now \in EnvVersion, NEW v \in EnvVersion,
         NEW n \in Nat,
         v.live = now.live, v.fin = now.fin, v.del = now.del, v.spec = now.spec,
         v.gen = now.gen, v.obs \in {now.obs, n},
         Tells(a, now), Held(a) => n <= a.gen
  PROVE  Tells(a, v)
  BY DEF Tells

-----------------------------------------------------------------------------
\* What a version of the log is, and the present one.
LEMMA LogTells ==
  ASSUME TypeInv, Telling, NEW e \in Envs
  PROVE  /\ Len(envLog[e]) \in Nat \ {0}
         /\ EnvNow(e) \in EnvVersion /\ EnvSound(EnvNow(e)) /\ Observed(EnvNow(e))
         /\ \A i \in 1 .. Len(envLog[e]) :
              envLog[e][i] \in EnvVersion /\ Tells(envLog[e][i], EnvNow(e))
         /\ pc # "idle" /\ cur = e => copy \in EnvVersion /\ Tells(copy, EnvNow(e))
  <1>0. EnvLogsOK
    BY Parts DEF TypeParts
  <1>1. /\ Len(envLog[e]) \in Nat \ {0}
        /\ EnvNow(e) \in EnvVersion /\ EnvSound(EnvNow(e))
    BY <1>0, EnvEnds DEF EnvNow
  <1>2. \A i \in 1 .. Len(envLog[e]) : envLog[e][i] \in EnvVersion
    BY <1>0 DEF EnvLogsOK
  <1>3. Len(envLog[e]) \in 1 .. Len(envLog[e]) /\ Len(envLog[e]) <= Len(envLog[e])
    BY <1>1
  <1>4. \A i \in 1 .. Len(envLog[e]) : i <= Len(envLog[e])
    BY <1>1
  <1>5. /\ Observed(EnvNow(e))
        /\ \A i \in 1 .. Len(envLog[e]) : Tells(envLog[e][i], EnvNow(e))
    BY <1>3, <1>4 DEF Telling, LogsTell, EnvNow, Current
  <1>6. pc # "idle" /\ cur = e => copy \in EnvVersion /\ Tells(copy, EnvNow(e))
    BY <1>3, RelType DEF Telling, CopyTells, EnvNow, Current
  <1> QED
    BY <1>1, <1>2, <1>5, <1>6

\* Users write.
LEMMA TellingUsers ==
  ASSUME TypeInv, Tracked, Telling, UserStep
  PROVE  Telling'
  <1>1. SameWork
    BY UserWrites DEF UserUnchanged, SameWork, envVars
  <1>2. CASE envLog' = envLog
    BY <1>1, <1>2, TellingKept
  <1>3. ASSUME NEW e \in Envs, NEW v \in EnvVersion, EnvSound(v),
               UserWrote(Current(envLog[e]), v), UserCounted(Current(envLog[e]), v),
               WriteEnv(e, v)
        PROVE  Telling'
    <2>1. UserWrote(EnvNow(e), v) /\ UserCounted(EnvNow(e), v)
      BY <1>3 DEF EnvNow
    <2>2. Observed(v)
      BY <2>1, LogTells, UserObserved
    <2>3. ASSUME NEW i \in 1 .. Len(envLog[e])
          PROVE  Tells(envLog[e][i], v)
      BY <2>1, LogTells, HeldNow, UserTells
    <2>4. pc' # "idle" /\ cur = e => Tells(copy, v)
      <3>1. pc' # "idle" => pc # "idle"
        BY <1>1 DEF SameWork
      <3> QED
        BY <2>1, <3>1, LogTells, HeldNow, UserTells
    <2> QED
      BY <1>1, <1>3, <2>2, <2>3, <2>4, TellingWrite
  <1> QED
    BY <1>2, <1>3, UserWrites

\* The worker reports: the generation of its copy, which none in the cache or on
\* its way precedes, or the one observed before.
LEMMA TellingReports ==
  ASSUME TypeInv, Tracked, Telling, PatchStatus \/ (PatchStatusFails /\ StatusLands)
  PROVE  Telling'
  <1> DEFINE new == EnvPatch(EnvNow(cur), copy, Reported(copy))
  <1>1. pc = "status" /\ SameWork
    BY DEF PatchStatus, PatchStatusFails, Return, SameWork, Deploying, Deleting
  <1>2. cur \in Envs /\ copy \in EnvVersion /\ copy.gen \in Nat
    BY <1>1, RelType DEF EnvVersion
  <1>3. /\ new \in EnvVersion
        /\ new.live = EnvNow(cur).live /\ new.spec = EnvNow(cur).spec
        /\ new.fin = EnvNow(cur).fin /\ new.del = EnvNow(cur).del
        /\ new.gen = EnvNow(cur).gen
        /\ new.obs \in {EnvNow(cur).obs, copy.gen}
    BY <1>1, EnvPatchType DEF EnvNow
  <1>4. WriteEnv(cur, new)
    BY DEF PatchStatus, PatchStatusFails, StatusLands, EnvNow
  <1> HIDE DEF new
  <1>5. Held(copy) /\ EnvNow(cur).live /\ EnvNow(cur).fin
    BY <1>1 DEF Telling, CopyTells, Tracked, WorkerHolds, Deploying
  <1>6. EnvSound(new) /\ Observed(new)
    <2>1. Tells(copy, EnvNow(cur)) /\ Observed(EnvNow(cur)) /\ EnvSound(EnvNow(cur))
      BY <1>1, <1>2, LogTells
    <2> QED
      BY <1>3, <1>5, <2>1 DEF EnvSound, Observed, Tells
  <1>7. ASSUME NEW i \in 1 .. Len(envLog[cur])
        PROVE  Tells(envLog[cur][i], new)
    <2>1. /\ envLog[cur][i] \in EnvVersion /\ EnvNow(cur) \in EnvVersion
          /\ Tells(envLog[cur][i], EnvNow(cur))
      BY <1>2, LogTells
    <2>2. Tells(copy, envLog[cur][i])
      BY <1>1 DEF Telling, CopyTells
    <2>3. copy.gen <= envLog[cur][i].gen
      BY <1>5, <2>2 DEF Tells
    <2> QED
      BY <1>2, <1>3, <2>1, <2>3, ReportTells
  <1>8. Tells(copy, new)
    <2>1. EnvNow(cur) \in EnvVersion /\ Tells(copy, EnvNow(cur)) /\ copy.gen <= copy.gen
      BY <1>1, <1>2, LogTells
    <2> QED
      BY <1>2, <1>3, <2>1, ReportTells
  <1> QED
    BY <1>1, <1>2, <1>3, <1>4, <1>6, <1>7, <1>8, TellingWrite

\* The finalizer is added to the version in the cache, which is the only one.
LEMMA TellingAdds ==
  ASSUME TypeInv, Tracked, Telling, NEW e \in Envs, AddFinalizer(e)
  PROVE  Telling'
  <1> DEFINE log == envLog[e]
             c == Cached(log)
             v == [c EXCEPT !.fin = TRUE]
  <1>0. EnvLogsOK
    BY Parts DEF TypeParts
  <1>1. c \in EnvVersion /\ EnvSound(c) /\ Current(log) \in EnvVersion
    BY <1>0, EnvEnds
  <1>2. /\ WriteEnv(e, v) /\ c.live /\ ~c.del /\ ~c.fin /\ Fresh(log, c)
        /\ SameWork /\ pc' = "idle"
    BY DEF AddFinalizer, SameWork, envVars
  <1>3. /\ v \in EnvVersion /\ v.live /\ v.spec = c.spec /\ v.phase = c.phase
        /\ v.gen = c.gen /\ v.obs = c.obs /\ v.fin
    BY <1>1, <1>2 DEF EnvVersion
  <1>4. Len(log) = 1 /\ c = EnvNow(e)
    <2>1. Current(log).rv <= c.rv
      BY <1>1, <1>2 DEF Fresh, EnvVersion
    <2> QED
      BY <1>0, <2>1, FreshOne DEF Tracked, EnvNow
  <1> HIDE DEF v
  <1>5. EnvSound(v) /\ Observed(v)
    BY <1>1, <1>2, <1>3, <1>4, LogTells DEF EnvSound, Observed
  <1>6. ASSUME NEW i \in 1 .. Len(log)
        PROVE  Tells(log[i], v)
    <2>1. i = 1
      BY <1>4
    <2> QED
      BY <1>2, <2>1 DEF Cached, Tells, Held
  <1> QED
    BY <1>2, <1>3, <1>5, <1>6, TellingWrite

\* The finalizer is taken away, and with it the object.
LEMMA TellingLetsGo ==
  ASSUME TypeInv, Tracked, Telling, RemoveFinalizer
  PROVE  Telling'
  <1> DEFINE log == envLog[cur]
             gone == EnvGone(copy.rv)
  <1>1. pc = "unfinalize" /\ pc' = "idle" /\ SameWork
    BY DEF RemoveFinalizer, Return, SameWork, Deploying, Deleting
  <1>2. cur \in Envs /\ copy.rv \in Nat
    BY <1>1, RelType DEF EnvVersion
  <1>3. CASE envLog' = envLog
    BY <1>1, <1>3, TellingKept
  <1>4. CASE Fresh(log, copy) /\ WriteEnv(cur, gone)
    <2>1. gone \in EnvVersion /\ EnvSound(gone)
      BY <1>2, EnvGoneVersion
    <2>2. Observed(gone) /\ ~gone.fin
      BY DEF EnvGone, Observed
    <2>3. Len(log) = 1 /\ log[1].del
      BY <1>1, <1>4, FreshCopy DEF Cached
    <2> HIDE DEF gone
    <2>4. ASSUME NEW i \in 1 .. Len(log)
          PROVE  Tells(log[i], gone)
      <3>1. i = 1
        BY <2>3
      <3> QED
        BY <2>2, <2>3, <3>1 DEF Tells, Held
    <2> QED
      BY <1>1, <1>2, <1>4, <2>1, <2>2, <2>4, TellingWrite
  <1> QED
    BY <1>3, <1>4 DEF RemoveFinalizer

\* The worker takes what the cache shows.
LEMMA TellingTakes ==
  ASSUME TypeInv, Telling, NEW e \in Envs,
         ReconcileDeletion(e) \/ ReconcileDeploy(e)
  PROVE  Telling'
  <1>1. /\ envLog' = envLog /\ cur' = e /\ copy' = Cached(envLog[e])
        /\ pc' \in Deploying => Held(Cached(envLog[e]))
    BY DEF ReconcileDeletion, ReconcileDeploy, Take, Deploying, Held
  <1>2. \A i \in 1 .. Len(envLog[e]) : Tells(Cached(envLog[e]), envLog[e][i])
    <2>1. Len(envLog[e]) \in Nat \ {0}
      BY LogTells
    <2>2. 1 \in 1 .. Len(envLog[e]) /\ \A i \in 1 .. Len(envLog[e]) : 1 <= i
      BY <2>1
    <2> QED
      BY <2>2 DEF Telling, LogsTell, Cached
  <1> QED
    BY <1>1, <1>2 DEF Telling, LogsTell, CopyTells

\* The cache moves on.
LEMMA TellingDelivers ==
  ASSUME TypeInv, Telling, NEW e \in Envs, DeliverEnv(e), UNCHANGED envVars
  PROVE  Telling'
  <1> DEFINE log == envLog[e]
             new == envLog'[e]
  <1>1. /\ \A f \in Envs \ {e} : envLog'[f] = envLog[f]
        /\ Len(new) = Len(log) - 1
        /\ \A i \in 1 .. Len(new) : new[i] = log[i + 1]
    BY Parts, DeliverEnvLog DEF TypeParts
  <1>2. /\ Len(log) \in Nat
        /\ pc' = pc /\ cur' = cur /\ copy' = copy
    BY LogTells DEF envVars
  <1>3. ASSUME NEW i \in 1 .. Len(new)
        PROVE  /\ i + 1 \in 1 .. Len(log) /\ new[i] = log[i + 1]
               /\ \A j \in 1 .. Len(new) : i <= j => i + 1 <= j + 1
    BY <1>1, <1>2
  <1>4. LogsTell'
    <2>1. \A i, j \in 1 .. Len(new) :
            i <= j => Observed(new[i]) /\ Tells(new[i], new[j])
      BY <1>3 DEF Telling, LogsTell
    <2> QED
      BY <1>1, <2>1 DEF Telling, LogsTell
  <1>5. CopyTells'
    <2> SUFFICES ASSUME pc # "idle"
                 PROVE  /\ pc \in Deploying => Held(copy)
                        /\ \A i \in 1 .. Len(envLog'[cur]) : Tells(copy, envLog'[cur][i])
      BY <1>2 DEF CopyTells
    <2>1. cur \in Envs
      BY RelType
    <2>2. CASE cur = e
      BY <1>3, <2>2 DEF Telling, CopyTells
    <2>3. CASE cur # e
      BY <1>1, <2>1, <2>3 DEF Telling, CopyTells
    <2> QED
      BY <2>2, <2>3
  <1> QED
    BY <1>4, <1>5 DEF Telling

\* After a crash each log is its last version.
LEMMA TellingRestarts ==
  ASSUME TypeInv, Telling, Crash
  PROVE  Telling'
  <1>1. /\ pc' = "idle"
        /\ \A e \in Envs : Len(envLog'[e]) = 1 /\ envLog'[e][1] = EnvNow(e)
    BY CrashLogs DEF Crash, Return, EnvNow, Current
  <1>2. ASSUME NEW e \in Envs, NEW i \in 1 .. Len(envLog'[e]), NEW j \in 1 .. Len(envLog'[e])
        PROVE  Observed(envLog'[e][i]) /\ Tells(envLog'[e][i], envLog'[e][j])
    <2>1. i = 1 /\ j = 1
      <3>1. Len(envLog'[e]) = 1
        BY <1>1
      <3> QED
        BY <3>1
    <2>2. Observed(EnvNow(e)) /\ EnvNow(e) \in EnvVersion
      BY LogTells
    <2>3. EnvNow(e).gen \in Nat
      BY <2>2 DEF EnvVersion
    <2> QED
      BY <1>1, <2>1, <2>2, <2>3 DEF Observed, Tells, Held
  <1> QED
    BY <1>1, <1>2 DEF Telling, LogsTell, CopyTells

\* The other steps of the worker write no environment.
LEMMA TellingGoesOn ==
  ASSUME TypeInv, Telling,
         \/ \E e \in Envs : ReconcileNotFound(e)
         \/ ChartFails \/ DownloadChart \/ InstallOrUpgrade \/ HelmDone
         \/ ReconcileDone \/ Uninstall \/ UninstallDone
         \/ PatchStatusFails /\ envLog' = envLog
         \/ \E p \in Products : updateProductStatus(p)
  PROVE  Telling'
  <1>1. envLog' = envLog
    BY DEF ReconcileNotFound, ChartFails, clusterVars, DownloadChart, HelmDone,
           InstallOrUpgrade, ReconcileDone, Uninstall, UninstallDone,
           updateProductStatus
  <1>2. SameWork
    <2>1. CASE \E e \in Envs : ReconcileNotFound(e)
      BY <2>1 DEF ReconcileNotFound, SameWork, envVars
    <2>2. CASE ChartFails \/ DownloadChart \/ InstallOrUpgrade \/ HelmDone
      BY <2>2 DEF ChartFails, DownloadChart, InstallOrUpgrade, HelmDone, Report,
                  envVars, SameWork, Deploying, Deleting
    <2>3. CASE PatchStatusFails \/ ReconcileDone
      BY <2>3 DEF PatchStatusFails, ReconcileDone, Return, SameWork, Deploying,
                  Deleting
    <2>4. CASE Uninstall \/ UninstallDone
      BY <2>4 DEF Uninstall, UninstallDone, Return, SameWork, Deploying, Deleting
    <2>5. CASE \E p \in Products : updateProductStatus(p)
      BY <2>5 DEF updateProductStatus, SameWork
    <2> QED
      BY <2>1, <2>2, <2>3, <2>4, <2>5
  <1> QED
    BY <1>1, <1>2, TellingKept

LEMMA StepTelling ==
  ASSUME TypeInv, Tracked, Telling, [Next]_vars
  PROVE  Telling'
  <1>1. CASE EnvStep
    <2>1. CASE PatchStatusFails
      BY <2>1, TellingGoesOn, TellingReports DEF PatchStatusFails
    <2> QED
      BY <1>1, <2>1, TellingGoesOn, TellingTakes, TellingReports, TellingAdds,
         TellingLetsGo DEF EnvStep, Reconcile
  <1>2. CASE UNCHANGED <<envLog, envVars>>
    <2>1. SameWork
      BY <1>2 DEF SameWork, envVars
    <2> QED
      BY <1>2, <2>1, TellingKept
  <1>3. CASE Deliver /\ UNCHANGED envVars
    BY <1>2, <1>3, ProductsKeep, TellingDelivers DEF Deliver
  <1>4. CASE Crash
    BY <1>4, TellingRestarts
  <1>5. CASE ProdStep /\ UNCHANGED envVars
    BY <1>2, <1>5, ProductsKeep
  <1>6. CASE UserStep
    BY <1>6, TellingUsers
  <1>7. CASE UNCHANGED vars
    BY <1>2, <1>7 DEF vars, clusterVars
  <1> QED
    BY <1>1, <1>3, <1>4, <1>5, <1>6, <1>7 DEF Next

LEMMA InitTelling == Init => Telling
  <1> SUFFICES ASSUME Init PROVE Telling
    OBVIOUS
  <1>1. ASSUME NEW e \in Envs, NEW i \in 1 .. Len(envLog[e])
        PROVE  i = 1 /\ envLog[e][i] = EnvGone(0)
    <2>1. envLog[e] = <<EnvGone(0)>> /\ Len(envLog[e]) = 1
      BY DEF Init, ClusterInit
    <2> QED
      BY <2>1
  <1>2. Observed(EnvGone(0)) /\ Tells(EnvGone(0), EnvGone(0))
    BY DEF EnvGone, Observed, Tells, Held
  <1>3. LogsTell
    BY <1>1, <1>2 DEF LogsTell
  <1> QED
    BY <1>3 DEF Init, EnvInit, Telling, CopyTells

-----------------------------------------------------------------------------
\* A status patch reports no older generation than the one reported.
LEMMA ReportsForward ==
  ASSUME TypeInv, Tracked, Telling, NEW e \in Envs, [Next]_vars,
         EnvNow(e).live, EnvNow(e)'.live
  PROVE  EnvNow(e)'.obs >= EnvNow(e).obs
  <1>0. EnvLogsOK /\ EnvNow(e) \in EnvVersion /\ EnvNow(e).obs \in Nat
    BY LogTells, Parts DEF TypeParts, EnvVersion
  <1>1. CASE EnvNow(e)' = EnvNow(e)
    BY <1>0, <1>1
  <1>2. ASSUME NEW f \in Envs, NEW v \in EnvVersion, EnvSound(v), WriteEnv(f, v),
               f = e => v.obs >= EnvNow(e).obs
        PROVE  EnvNow(e)'.obs >= EnvNow(e).obs
    <2> DEFINE w == [v EXCEPT !.rv = Current(envLog[f]).rv + 1]
    <2>1. /\ f # e => envLog'[e] = envLog[e]
          /\ envLog'[f] = envLog[f] \/ Current(envLog'[f]) = w
      BY <1>0, <1>2, WriteEnvLog
    <2>2. w.obs = v.obs
      BY DEF EnvVersion
    <2> HIDE DEF w
    <2> QED
      BY <1>0, <1>2, <2>1, <2>2 DEF EnvNow
  <1>3. CASE PatchStatus \/ (PatchStatusFails /\ StatusLands)
    <2> DEFINE new == EnvPatch(EnvNow(cur), copy, Reported(copy))
    <2>1. pc = "status"
      BY <1>3 DEF PatchStatus, PatchStatusFails
    <2>2. cur \in Envs
      BY <2>1, RelType
    <2>3. /\ new \in EnvVersion
          /\ new.live = EnvNow(cur).live /\ new.spec = EnvNow(cur).spec
          /\ new.fin = EnvNow(cur).fin /\ new.del = EnvNow(cur).del
          /\ new.obs \in {EnvNow(cur).obs, copy.gen}
      BY <2>1, EnvPatchType DEF EnvNow
    <2>4. WriteEnv(cur, new)
      BY <1>3 DEF PatchStatus, PatchStatusFails, StatusLands, EnvNow
    <2> HIDE DEF new
    <2>5. EnvSound(new)
      BY <2>2, <2>3, LogTells DEF EnvSound
    <2>6. EnvNow(cur).obs <= copy.gen
      BY <2>1, <2>2, LogTells DEF Telling, CopyTells, Deploying, Tells
    <2>7. EnvNow(cur).obs \in Nat /\ copy.gen \in Nat
      BY <2>1, <2>2, LogTells DEF EnvVersion
    <2> QED
      BY <1>2, <2>2, <2>3, <2>4, <2>5, <2>6, <2>7
  <1>4. ASSUME NEW f \in Envs, AddFinalizer(f)
        PROVE  EnvNow(e)'.obs >= EnvNow(e).obs
    <2> DEFINE c == Cached(envLog[f])
               v == [c EXCEPT !.fin = TRUE]
    <2>1. c \in EnvVersion /\ EnvSound(c) /\ Current(envLog[f]) \in EnvVersion
      BY <1>0, EnvEnds
    <2>2. WriteEnv(f, v) /\ c.live /\ Fresh(envLog[f], c)
      BY <1>4 DEF AddFinalizer
    <2>3. v \in EnvVersion /\ v.live /\ v.spec = c.spec /\ v.obs = c.obs
      BY <2>1, <2>2 DEF EnvVersion
    <2>4. c = EnvNow(f)
      <3>1. Current(envLog[f]).rv <= c.rv
        BY <2>1, <2>2 DEF Fresh, EnvVersion
      <3> QED
        BY <1>0, <3>1, FreshOne DEF Tracked, EnvNow
    <2> HIDE DEF v
    <2>5. EnvSound(v)
      BY <2>1, <2>2, <2>3 DEF EnvSound
    <2> QED
      BY <1>0, <1>2, <2>2, <2>3, <2>4, <2>5
  <1>5. CASE RemoveFinalizer
    <2>1. pc = "unfinalize"
      BY <1>5 DEF RemoveFinalizer
    <2>2. cur \in Envs /\ copy.rv \in Nat
      BY <2>1, RelType DEF EnvVersion
    <2>3. EnvGone(copy.rv) \in EnvVersion /\ EnvSound(EnvGone(copy.rv))
      BY <2>2, EnvGoneVersion
    <2>4. CASE WriteEnv(cur, EnvGone(copy.rv)) /\ cur = e
      <3>1. envLog'[e] = envLog[e] \/ ~EnvNow(e)'.live
        <4> DEFINE gone == EnvGone(copy.rv)
                   w == [gone EXCEPT !.rv = Current(envLog[e]).rv + 1]
        <4>1. gone \in EnvVersion /\ ~gone.live
          BY <2>2, EnvGoneVersion
        <4>2. w.live = gone.live
          BY <4>1 DEF EnvVersion
        <4> HIDE DEF gone, w
        <4>3. envLog'[e] = envLog[e] \/ Current(envLog'[e]) = w
          BY <1>0, <2>3, <2>4, WriteEnvLog DEF gone, w
        <4> QED
          BY <4>1, <4>2, <4>3 DEF EnvNow
      <3> QED
        BY <1>1, <3>1 DEF EnvNow
    <2>5. CASE WriteEnv(cur, EnvGone(copy.rv)) /\ cur # e
      BY <1>2, <2>2, <2>3, <2>5
    <2> QED
      BY <1>1, <1>5, <2>4, <2>5 DEF RemoveFinalizer, EnvNow
  <1>6. CASE UserStep
    <2>1. ASSUME NEW f \in Envs, NEW v \in EnvVersion, EnvSound(v),
                 UserCounted(EnvNow(f), v), WriteEnv(f, v)
          PROVE  EnvNow(e)'.obs >= EnvNow(e).obs
      <3>1. CASE v.live
        BY <1>0, <1>2, <2>1, <3>1 DEF UserCounted, EnvGone
      <3>2. CASE ~v.live /\ f = e
        <4> DEFINE w == [v EXCEPT !.rv = Current(envLog[e]).rv + 1]
        <4>1. w.live = v.live
          BY DEF EnvVersion
        <4> HIDE DEF w
        <4>2. envLog'[e] = envLog[e] \/ Current(envLog'[e]) = w
          BY <1>0, <2>1, <3>2, WriteEnvLog DEF w
        <4> QED
          BY <1>1, <3>2, <4>1, <4>2 DEF EnvNow
      <3>3. CASE f # e
        BY <1>2, <2>1, <3>3
      <3> QED
        BY <3>1, <3>2, <3>3
    <2>2. CASE envLog' = envLog
      BY <1>1, <2>2 DEF EnvNow
    <2> QED
      BY <1>6, <2>1, <2>2, UserWrites DEF EnvNow
  <1>7. CASE Deliver \/ Crash
    <2>1. EnvNow(e)' = EnvNow(e)
      BY <1>0, <1>7, CrashLogs, DeliverEnvLog, ProductsKeep DEF Deliver, EnvNow
    <2> QED
      BY <1>1, <2>1
  <1>8. CASE ProdStep \/ UNCHANGED vars
    BY <1>1, <1>8, ProductsKeep DEF EnvNow, vars, clusterVars
  <1>9. CASE EnvStep
    <2>1. CASE envLog' = envLog
      BY <1>1, <2>1 DEF EnvNow
    <2>2. CASE envLog' # envLog
      BY <1>3, <1>4, <1>5, <1>9, <2>2
         DEF EnvStep, Reconcile, ReconcileNotFound, ReconcileDeletion,
             ReconcileDeploy, Take, ChartFails, clusterVars, DownloadChart,
             InstallOrUpgrade, HelmDone, PatchStatusFails, ReconcileDone,
             Uninstall, UninstallDone, updateProductStatus
    <2> QED
      BY <2>1, <2>2
  <1> QED
    BY <1>6, <1>7, <1>8, <1>9 DEF Next

\* The observed generation of an environment never goes back while the object
\* exists: whatever users write, however stale the copy a status patch is
\* computed from, and though answers are lost and the operator dies.
THEOREM ObservedGoesForward == Spec => ObservedForward
  <1> DEFINE Inv == TypeInv /\ Tracked /\ Telling
  <1>1. Init => Inv
    BY InitType, InitTracked, InitTelling
  <1>2. Inv /\ [Next]_vars => Inv'
    BY StepType, StepTracked, StepTelling
  <1>3. Inv /\ [Next]_vars =>
          \A e \in Envs :
            EnvNow(e).live /\ EnvNow(e)'.live => EnvNow(e)'.obs >= EnvNow(e).obs
    BY ReportsForward
  <1> QED
    BY <1>1, <1>2, <1>3, PTL DEF Spec, ObservedForward

-----------------------------------------------------------------------------
\* A version that says Ready for its own generation, and a release from a spec.
SaysReady(v) == v.live /\ ~v.del /\ v.phase = "Ready" /\ v.obs = v.gen

MadeFrom(r, s) == NameInUse(r) /\ r.values.spec = s

LEMMA ReadyMeans ==
  /\ ReadyDeployed <=>
       \A e \in Envs : SaysReady(EnvNow(e)) => MadeFrom(ReleaseNow(e), EnvNow(e).spec)
  /\ ReadyDeployed' <=>
       \A e \in Envs :
         SaysReady(EnvNow(e)') => MadeFrom(ReleaseNow(e)', EnvNow(e)'.spec)
  BY DEF ReadyDeployed, SaysReady, MadeFrom

\* A write to an environment whose release is made from the spec written.
LEMMA ReadyWrite ==
  ASSUME TypeInv, ReadyDeployed, release' = release,
         NEW e \in Envs, NEW v \in EnvVersion, EnvSound(v), WriteEnv(e, v),
         SaysReady(v) => MadeFrom(release[ReleaseOf[e][v.spec]], v.spec)
  PROVE  ReadyDeployed'
  <1> DEFINE w == [v EXCEPT !.rv = Current(envLog[e]).rv + 1]
  <1>1. /\ \A f \in Envs \ {e} : envLog'[f] = envLog[f]
        /\ envLog'[e] = envLog[e] \/ Current(envLog'[e]) = w
    BY Parts, WriteEnvLog DEF TypeParts
  <1>2. /\ w.live = v.live /\ w.del = v.del /\ w.phase = v.phase
        /\ w.obs = v.obs /\ w.gen = v.gen /\ w.spec = v.spec
    BY DEF EnvVersion
  <1> HIDE DEF w
  <1>3. ASSUME NEW f \in Envs, SaysReady(EnvNow(f)')
        PROVE  MadeFrom(ReleaseNow(f)', EnvNow(f)'.spec)
    <2>1. CASE envLog'[f] = envLog[f]
      BY <1>3, <2>1, ReadyMeans DEF EnvNow, ReleaseNow
    <2>2. CASE f = e /\ Current(envLog'[e]) = w
      BY <1>2, <1>3, <2>2 DEF EnvNow, ReleaseNow, SaysReady
    <2> QED
      BY <1>1, <2>1, <2>2
  <1> QED
    BY <1>3, ReadyMeans

\* Helm writes one release, which is not that of an environment that says Ready
\* unless it is made from its spec.
LEMMA ReadyRelease ==
  ASSUME TypeInv, ReadyDeployed, envLog' = envLog,
         NEW n, \A m \in Releases \ {n} : release'[m] = release[m],
         \A e \in Envs :
           SaysReady(EnvNow(e)) /\ ReleaseOf[e][EnvNow(e).spec] = n
             => MadeFrom(release'[n], EnvNow(e).spec)
  PROVE  ReadyDeployed'
  <1>1. ASSUME NEW e \in Envs, SaysReady(EnvNow(e)')
        PROVE  MadeFrom(ReleaseNow(e)', EnvNow(e)'.spec)
    <2>1. EnvNow(e)' = EnvNow(e) /\ SaysReady(EnvNow(e))
      BY <1>1 DEF EnvNow
    <2>2. EnvNow(e).spec \in Specs
      BY <2>1, Parts, EnvEnds DEF TypeParts, EnvSound, SaysReady, EnvNow
    <2>3. ReleaseOf[e][EnvNow(e).spec] \in Releases
      BY <2>2, ReleasesAssumption
    <2> QED
      BY <2>1, <2>3, ReadyMeans DEF ReleaseNow
  <1> QED
    BY <1>1, ReadyMeans

\* An environment that says Ready and whose release the worker works on is the
\* one it works on; it deploys the spec there is, and uninstalls none.
LEMMA WorkerAgrees ==
  ASSUME OwnNames, TypeInv, Tracked, Telling, pc # "idle",
         NEW e \in Envs, SaysReady(EnvNow(e)),
         ReleaseOf[e][EnvNow(e).spec] = relName
  PROVE  e = cur /\ pc \in Deploying /\ EnvNow(e).spec = copy.spec
  <1>1. /\ cur \in Envs /\ copy.live /\ copy.spec \in Specs
        /\ relName = ReleaseOf[cur][copy.spec]
    BY RelType
  <1>2. EnvNow(e).spec \in Specs
    BY LogTells DEF EnvSound, SaysReady
  <1>3. e = cur
    BY <1>1, <1>2 DEF OwnNames
  <1>4. /\ Tells(copy, EnvNow(e)) /\ Observed(EnvNow(e))
        /\ copy.gen \in Nat /\ EnvNow(e).gen \in Nat
    BY <1>3, LogTells DEF EnvVersion
  <1>5. pc \notin Deleting
    BY <1>1, <1>4 DEF Tracked, WorkerDeletes, Tells, Observed, SaysReady
  <1>6. pc \in Deploying
    BY <1>5, Parts DEF TypeParts, EnvTypeOK, Steps, Deploying, Deleting
  <1>7. EnvNow(e).spec = copy.spec
    BY <1>4, <1>6 DEF Telling, CopyTells, Tells, SaysReady
  <1> QED
    BY <1>3, <1>6, <1>7

\* Helm's operations.
LEMMA HelmAgrees ==
  ASSUME OwnNames, TypeInv, Tracked, Telling, WorkerDeploys, ReadyDeployed,
         InstallOrUpgrade \/ HelmDone \/ Uninstall \/ UninstallDone
  PROVE  WorkerDeploys' /\ ReadyDeployed'
  <1>1. pc # "idle" /\ envLog' = envLog
    BY DEF InstallOrUpgrade, HelmDone, Uninstall, UninstallDone
  <1>2. /\ relName \in Releases /\ Rel = release[relName]
        /\ release \in [Releases -> Release] /\ Rel \in Release
    BY <1>1, RelType, Parts DEF TypeParts
  <1>3. CASE release' = release
    <2>1. ReadyDeployed'
      BY <1>1, <1>3 DEF ReadyDeployed, EnvNow, ReleaseNow
    <2>2. CASE InstallOrUpgrade
      <3>1. \/ pc' = "status" /\ outcome' = "Failed"
            \/ /\ pc' = "applying" /\ cur' = cur /\ copy' = copy
               /\ release' = [release EXCEPT ![relName] = Begun(values)]
               /\ values.spec = copy.spec
        BY <2>2 DEF InstallOrUpgrade, Report, WorkerDeploys
      <3>2. pc' = "applying" => release[relName] = Begun(values) /\ relName' = relName
        BY <1>2, <1>3, <3>1 DEF relName
      <3> QED
        BY <1>2, <1>3, <2>1, <3>1, <3>2 DEF WorkerDeploys, Begun, NameInUse, Rel
    <2>3. CASE HelmDone
      <3>1. pc = "applying" /\ pc' = "status" /\ cur' = cur /\ copy' = copy
        BY <2>3 DEF HelmDone, Report
      <3> QED
        BY <1>3, <2>1, <3>1 DEF WorkerDeploys, Rel, relName
    <2>4. CASE Uninstall \/ UninstallDone
      <3>1. pc' \in {"idle", "uninstalling", "unfinalize"}
        BY <2>4 DEF Uninstall, UninstallDone, Return
      <3> QED
        BY <2>1, <3>1 DEF WorkerDeploys
    <2> QED
      BY <2>2, <2>3, <2>4
  <1>4. ASSUME NEW r, release' = [release EXCEPT ![relName] = r],
               pc \in Deploying => MadeFrom(r, copy.spec)
        PROVE  ReadyDeployed'
    <2>1. /\ \A m \in Releases \ {relName} : release'[m] = release[m]
          /\ release'[relName] = r
      BY <1>2, <1>4
    <2>2. ASSUME NEW e \in Envs, SaysReady(EnvNow(e)),
                 ReleaseOf[e][EnvNow(e).spec] = relName
          PROVE  MadeFrom(release'[relName], EnvNow(e).spec)
      BY <1>1, <1>4, <2>1, <2>2, WorkerAgrees
    <2> QED
      BY <1>1, <2>1, <2>2, ReadyRelease
  <1>5. CASE InstallOrUpgrade /\ release' = [release EXCEPT ![relName] = Begun(values)]
              /\ pc' = "applying" /\ cur' = cur /\ copy' = copy
    <2>1. MadeFrom(Begun(values), copy.spec)
      BY <1>5 DEF InstallOrUpgrade, WorkerDeploys, MadeFrom, Begun, NameInUse
    <2>2. ReadyDeployed'
      BY <1>4, <1>5, <2>1
    <2>3. Rel' = Begun(values)
      BY <1>2, <1>5 DEF Rel, relName
    <2> QED
      BY <1>5, <2>1, <2>2, <2>3 DEF WorkerDeploys, MadeFrom
  <1>6. ASSUME NEW s \in {"deployed", "failed"}, HelmDone,
               release' = [release EXCEPT ![relName] = Applied(@, s)]
        PROVE  WorkerDeploys' /\ ReadyDeployed'
    <2>1. Applied(Rel, s).status = s /\ Applied(Rel, s).values = Rel.values
      BY <1>2 DEF Applied, Release
    <2>2. MadeFrom(Applied(Rel, s), copy.spec)
      BY <1>6, <2>1 DEF HelmDone, WorkerDeploys, MadeFrom, NameInUse
    <2>3. release' = [release EXCEPT ![relName] = Applied(Rel, s)]
      BY <1>2, <1>6
    <2>4. ReadyDeployed'
      BY <1>4, <2>2, <2>3
    <2>5. pc' = "status" /\ copy' = copy /\ Rel' = Applied(Rel, s)
      BY <1>2, <1>6, <2>3 DEF HelmDone, Report, Rel, relName
    <2> QED
      BY <2>2, <2>4, <2>5 DEF WorkerDeploys, MadeFrom
  <1>7. CASE Uninstall \/ UninstallDone
    <2>1. /\ pc \notin Deploying
          /\ pc' \in {"idle", "uninstalling", "unfinalize"}
      BY <1>7 DEF Uninstall, UninstallDone, Return, Deploying
    <2>2. \/ release' = release
          \/ \E r : release' = [release EXCEPT ![relName] = r]
      BY <1>7 DEF Uninstall, UninstallDone
    <2>3. ReadyDeployed'
      BY <1>3, <1>4, <2>1, <2>2
    <2> QED
      BY <2>1, <2>3 DEF WorkerDeploys
  <1> QED
    BY <1>3, <1>5, <1>6, <1>7 DEF InstallOrUpgrade, HelmDone

\* The worker says Ready of the environment it has deployed, if it is still the
\* generation deployed; a failure leaves what was said of the one before.
LEMMA ReportAgrees ==
  ASSUME OwnNames, TypeInv, Tracked, Telling, WorkerDeploys, ReadyDeployed,
         PatchStatus \/ (PatchStatusFails /\ StatusLands)
  PROVE  ReadyDeployed'
  <1> DEFINE now == EnvNow(cur)
             new == EnvPatch(now, copy, Reported(copy))
  <1>1. pc = "status" /\ release' = release
    BY DEF PatchStatus, PatchStatusFails
  <1>2. cur \in Envs /\ Rel = release[ReleaseOf[cur][copy.spec]]
    BY <1>1, RelType
  <1>3. /\ new \in EnvVersion
        /\ new.live = now.live /\ new.spec = now.spec
        /\ new.fin = now.fin /\ new.del = now.del
        /\ new.gen = now.gen /\ new.phase \in {now.phase, outcome}
        /\ new.obs = now.obs \/ (outcome = "Ready" /\ new.obs = copy.gen)
    BY <1>1, EnvPatchType DEF EnvNow
  <1>4. WriteEnv(cur, new)
    BY DEF PatchStatus, PatchStatusFails, StatusLands, EnvNow
  <1>5. /\ EnvSound(now) /\ now \in EnvVersion
        /\ copy \in EnvVersion /\ Tells(copy, now) /\ Held(copy)
    BY <1>1, <1>2, LogTells DEF Telling, CopyTells, Deploying
  <1> HIDE DEF new, now
  <1>6. EnvSound(new)
    BY <1>3, <1>5 DEF EnvSound
  <1>7. ASSUME SaysReady(new)
        PROVE  MadeFrom(release[ReleaseOf[cur][new.spec]], new.spec)
    <2>1. CASE outcome = "Ready"
      <3>1. copy.gen \in Nat /\ now.gen \in Nat /\ now.obs \in Nat
        BY <1>5 DEF EnvVersion
      <3>2. copy.gen = now.gen
        BY <1>3, <1>5, <1>7, <3>1 DEF Tells, SaysReady
      <3>3. new.spec = copy.spec
        BY <1>3, <1>5, <3>2 DEF Tells
      <3> QED
        BY <1>1, <1>2, <2>1, <3>3 DEF WorkerDeploys, MadeFrom
    <2>2. CASE outcome # "Ready"
      <3>1. SaysReady(now)
        BY <1>3, <1>7, <2>2 DEF SaysReady
      <3> QED
        BY <1>2, <1>3, <3>1, ReadyMeans DEF ReleaseNow, now
    <2> QED
      BY <2>1, <2>2
  <1> QED
    BY <1>1, <1>2, <1>3, <1>4, <1>6, <1>7, ReadyWrite

\* No other write of an environment makes one that says Ready: one just created
\* or just held has not been reported on, and an edit is a generation ahead.
LEMMA OthersAgree ==
  ASSUME TypeInv, Tracked, Telling, ReadyDeployed,
         UserStep \/ RemoveFinalizer \/ \E e \in Envs : AddFinalizer(e)
  PROVE  ReadyDeployed'
  <1>1. release' = release
    BY UserWrites DEF UserUnchanged, RemoveFinalizer, AddFinalizer
  <1>2. CASE envLog' = envLog
    BY <1>1, <1>2 DEF ReadyDeployed, EnvNow, ReleaseNow
  <1>3. ASSUME NEW e \in Envs, NEW v \in EnvVersion, EnvSound(v), WriteEnv(e, v),
               UserWrote(EnvNow(e), v), UserCounted(EnvNow(e), v)
        PROVE  ReadyDeployed'
    <2>1. /\ EnvNow(e).gen \in Nat /\ EnvNow(e).obs \in Nat
          /\ EnvSound(EnvNow(e)) /\ Observed(EnvNow(e))
      BY LogTells DEF EnvVersion
    <2>2. ~SaysReady(v)
      BY <1>3, <2>1 DEF UserWrote, UserCounted, EnvSound, Observed, SaysReady
    <2> QED
      BY <1>1, <1>3, <2>2, ReadyWrite
  <1>4. ASSUME NEW e \in Envs, AddFinalizer(e)
        PROVE  ReadyDeployed'
    <2> DEFINE c == Cached(envLog[e])
               v == [c EXCEPT !.fin = TRUE]
    <2>1. c \in EnvVersion /\ EnvSound(c) /\ Current(envLog[e]) \in EnvVersion
      BY Parts, EnvEnds DEF TypeParts
    <2>2. WriteEnv(e, v) /\ c.live /\ ~c.fin /\ Fresh(envLog[e], c)
      BY <1>4 DEF AddFinalizer
    <2>3. /\ v \in EnvVersion /\ v.live /\ v.spec = c.spec /\ v.phase = c.phase
      BY <2>1, <2>2 DEF EnvVersion
    <2>4. c = EnvNow(e)
      <3>1. Current(envLog[e]).rv <= c.rv
        BY <2>1, <2>2 DEF Fresh, EnvVersion
      <3> QED
        BY <3>1, Parts, FreshOne DEF Tracked, EnvNow, TypeParts
    <2> HIDE DEF v
    <2>5. EnvSound(v)
      BY <2>1, <2>2, <2>3 DEF EnvSound
    <2>6. ~SaysReady(v)
      BY <2>2, <2>3, <2>4, LogTells DEF Observed, SaysReady
    <2> QED
      BY <1>1, <2>2, <2>3, <2>5, <2>6, ReadyWrite
  <1>5. ASSUME RemoveFinalizer, WriteEnv(cur, EnvGone(copy.rv))
        PROVE  ReadyDeployed'
    <2>1. cur \in Envs /\ copy.rv \in Nat
      BY <1>5, RelType DEF RemoveFinalizer, EnvVersion
    <2>2. /\ EnvGone(copy.rv) \in EnvVersion /\ EnvSound(EnvGone(copy.rv))
          /\ ~SaysReady(EnvGone(copy.rv))
      BY <2>1, EnvGoneVersion DEF SaysReady
    <2> QED
      BY <1>1, <1>5, <2>1, <2>2, ReadyWrite
  <1> QED
    BY <1>2, <1>3, <1>4, <1>5, UserWrites DEF RemoveFinalizer, EnvNow

\* The steps of the worker, but for Helm's, go on to no report of Ready.
LEMMA WorkerGoesOn ==
  ASSUME TypeInv, WorkerDeploys, EnvStep,
         ~(InstallOrUpgrade \/ HelmDone \/ Uninstall \/ UninstallDone)
  PROVE  WorkerDeploys' /\ release' = release
  <1>1. CASE \E e \in Envs : ReconcileDeploy(e)
    <2>1. pc' = "deploy" /\ values'.spec = copy'.spec /\ release' = release
      BY <1>1 DEF ReconcileDeploy, Take
    <2> QED
      BY <2>1 DEF WorkerDeploys
  <1>2. CASE \E e \in Envs : ReconcileDeletion(e)
    BY <1>2 DEF ReconcileDeletion, WorkerDeploys
  <1>3. CASE UNCHANGED envVars /\ release' = release
    BY <1>3 DEF WorkerDeploys, envVars, Rel, relName
  <1>4. CASE ChartFails \/ DownloadChart
    BY <1>3, <1>4 DEF ChartFails, DownloadChart, Report, clusterVars, WorkerDeploys
  <1>5. CASE PatchStatus \/ PatchStatusFails \/ ReconcileDone \/ RemoveFinalizer
    BY <1>5 DEF PatchStatus, PatchStatusFails, ReconcileDone, RemoveFinalizer,
                Return, WorkerDeploys
  <1>6. CASE \E p \in Products : updateProductStatus(p)
    BY <1>6 DEF updateProductStatus, WorkerDeploys
  <1> QED
    BY <1>1, <1>2, <1>3, <1>4, <1>5, <1>6
       DEF EnvStep, Reconcile, ReconcileNotFound, AddFinalizer

LEMMA StepReady ==
  ASSUME OwnNames, TypeInv, Tracked, Telling, WorkerDeploys, ReadyDeployed,
         [Next]_vars
  PROVE  WorkerDeploys' /\ ReadyDeployed'
  <1>1. ASSUME release' = release, \A e \in Envs : EnvNow(e)' = EnvNow(e)
        PROVE  ReadyDeployed'
    BY <1>1 DEF ReadyDeployed, ReleaseNow
  <1>2. ASSUME UNCHANGED <<envVars, release>>
        PROVE  WorkerDeploys'
    BY <1>2 DEF WorkerDeploys, envVars, Rel, relName
  <1>3. CASE EnvStep /\ ~(InstallOrUpgrade \/ HelmDone \/ Uninstall \/ UninstallDone)
    <2>1. WorkerDeploys' /\ release' = release
      BY <1>3, WorkerGoesOn
    <2>2. CASE envLog' = envLog
      BY <1>1, <2>1, <2>2 DEF EnvNow
    <2>3. CASE envLog' # envLog
      <3>1. \/ PatchStatus \/ (PatchStatusFails /\ StatusLands)
            \/ RemoveFinalizer \/ \E e \in Envs : AddFinalizer(e)
        BY <1>3, <2>3
           DEF EnvStep, Reconcile, ReconcileNotFound, ReconcileDeletion,
               ReconcileDeploy, Take, ChartFails, clusterVars, DownloadChart,
               PatchStatusFails, ReconcileDone, updateProductStatus
      <3> QED
        BY <2>1, <3>1, ReportAgrees, OthersAgree
    <2> QED
      BY <2>1, <2>2, <2>3
  <1>4. CASE InstallOrUpgrade \/ HelmDone \/ Uninstall \/ UninstallDone
    BY <1>4, HelmAgrees
  <1>5. CASE ProdStep /\ UNCHANGED envVars
    <2>1. UNCHANGED <<envLog, release>>
      BY <1>5, ProductsKeep
    <2> QED
      BY <1>1, <1>2, <1>5, <2>1 DEF EnvNow
  <1>6. CASE Deliver /\ UNCHANGED envVars
    <2>1. release' = release /\ \A e \in Envs : EnvNow(e)' = EnvNow(e)
      <3>1. CASE \E e \in Envs : DeliverEnv(e)
        BY <3>1, DeliverEnvLog, Parts DEF DeliverEnv, TypeParts, EnvNow
      <3>2. CASE \E p \in Products : DeliverProd(p)
        BY <3>2 DEF DeliverProd, EnvNow
      <3> QED
        BY <1>6, <3>1, <3>2 DEF Deliver
    <2> QED
      BY <1>1, <1>2, <1>6, <2>1
  <1>7. CASE UserStep
    <2>1. UNCHANGED <<envVars, release>>
      BY <1>7, UserWrites DEF UserUnchanged
    <2> QED
      BY <1>2, <1>7, <2>1, OthersAgree
  <1>8. CASE Crash
    <2>1. /\ release' = release /\ \A e \in Envs : EnvNow(e)' = EnvNow(e)
          /\ pc' = "idle"
      BY <1>8, CrashLogs DEF Crash, Return, EnvNow
    <2> QED
      BY <1>1, <2>1 DEF WorkerDeploys
  <1>9. CASE UNCHANGED vars
    BY <1>1, <1>2, <1>9 DEF vars, clusterVars, EnvNow
  <1> QED
    BY <1>3, <1>4, <1>5, <1>6, <1>7, <1>8, <1>9 DEF Next

LEMMA InitReady == Init => WorkerDeploys /\ ReadyDeployed
  BY DEF Init, ClusterInit, EnvInit, WorkerDeploys, ReadyDeployed, EnvNow,
         Current, EnvGone

\* As long as no two environments share the name of a release, copies and caches
\* tell what the reports need: whatever is deployed under an older copy is told
\* from what is deployed under the present spec by its generation.
THEOREM ReportsTruthful ==
  ASSUME OwnNames
  PROVE  Spec => [](Truthful /\ ReadyDeployed)
  <1> DEFINE Inv == TypeInv /\ Tracked /\ Telling /\ WorkerDeploys /\ ReadyDeployed
  <1>1. Init => Inv
    BY InitType, InitTracked, InitTelling, InitReady
  <1>2. Inv /\ [Next]_vars => Inv'
    BY StepType, StepTracked, StepTelling, StepReady
  <1>3. Inv => Truthful /\ ReadyDeployed
    BY DEF Telling, Truthful
  <1> QED
    BY <1>1, <1>2, <1>3, PTL DEF Spec

\* As long as no two environments share the name of a release, an environment
\* that says Ready for its present generation has a release made from its
\* present spec: users may edit, rename, delete and create it again at any
\* moment, copies may be stale, and Helm, the API server and the operator fail.
THEOREM ReadyIsDeployed ==
  ASSUME OwnNames
  PROVE  Spec => []ReadyDeployed
  BY ReportsTruthful, PTL

==============================================================================
