----------------------------- MODULE CacheProofs -----------------------------
(***************************************************************************)
(* What the environment controller knows from its copies and caches:       *)
(* Tracked, whatever the names of releases are and whatever fails.         *)
(***************************************************************************)
EXTENDS PingOperatorProofs

\* The worker goes on with the work it has, or ends it.
SameWork == /\ pc' \in Deploying => pc \in Deploying
            /\ pc' \in Deleting => pc \in Deleting
            /\ pc' # "idle" => pc # "idle" /\ cur' = cur /\ copy' = copy

\* A version that leaves a held object held.
Keeps(old, new) == old.live /\ old.fin => new.live /\ new.fin

\* No object is let go.
HoldsOn == \A e \in Envs : Keeps(EnvNow(e), EnvNow(e)')

-----------------------------------------------------------------------------
\* Steps that leave the environments alone.
LEMMA TrackedKept ==
  ASSUME TypeInv, Tracked, SameWork, envLog' = envLog
  PROVE  Tracked' /\ HoldsOn
  <1>1. Ordered' /\ HeldOnceSeen'
    BY DEF Tracked, Ordered, HeldOnceSeen
  <1>2. WorkerHolds'
    BY DEF Tracked, WorkerHolds, SameWork, EnvNow, Deploying
  <1>3. WorkerDeletes'
    BY DEF Tracked, WorkerDeletes, SameWork, Deleting
  <1>4. CopySeen'
    BY DEF Tracked, CopySeen, SameWork
  <1>5. HoldsOn
    BY DEF HoldsOn, Keeps, EnvNow
  <1> QED
    BY <1>1, <1>2, <1>3, <1>4, <1>5 DEF Tracked

\* A write to one log that follows its last version keeps the logs in order.
LEMMA WriteLogs ==
  ASSUME EnvLogsOK, Ordered, HeldOnceSeen, NEW e \in Envs, NEW v \in EnvVersion,
         EnvSound(v), WriteEnv(e, v),
         \A i \in 1 .. Len(envLog[e]) :
           envLog[e][i].live /\ envLog[e][i].fin /\ ~envLog[e][i].del
             => v.live /\ v.fin
  PROVE  Ordered' /\ HeldOnceSeen'
  <1> DEFINE log == envLog[e]
             new == envLog'[e]
             w == [v EXCEPT !.rv = Current(log).rv + 1]
  <1>1. /\ \A f \in Envs \ {e} : envLog'[f] = envLog[f]
        /\ \/ new = log
           \/ /\ Len(new) = Len(log) + 1
              /\ \A i \in 1 .. Len(log) : new[i] = log[i]
              /\ new[Len(log) + 1] = w
    BY WriteEnvLog
  <1>2. /\ Len(log) \in Nat \ {0}
        /\ Current(log) \in EnvVersion
        /\ \A i \in 1 .. Len(log) : log[i] \in EnvVersion
    BY EnvEnds DEF EnvLogsOK
  <1>3. /\ w.live = v.live /\ w.fin = v.fin
        /\ w.rv = Current(log).rv + 1
    BY DEF EnvVersion
  <1>4. \A i \in 1 .. Len(log) : log[i].rv <= Current(log).rv
    <2> SUFFICES ASSUME NEW i \in 1 .. Len(log)
                 PROVE  log[i].rv <= Current(log).rv
      OBVIOUS
    <2>1. CASE i = Len(log)
      <3>1. log[i].rv \in Nat
        BY <1>2 DEF EnvVersion
      <3> QED
        BY <2>1, <3>1 DEF Current
    <2>2. CASE i < Len(log)
      <3>1. log[i].rv < log[Len(log)].rv
        BY <1>2, <2>2 DEF Ordered
      <3>2. \A k \in 1 .. Len(log) : log[k].rv \in Nat
        BY <1>2 DEF EnvVersion
      <3>3. Len(log) \in 1 .. Len(log)
        BY <1>2
      <3> QED
        BY <3>1, <3>2, <3>3 DEF Current
    <2> QED
      BY <1>2, <2>1, <2>2
  <1>5. \A i \in 1 .. Len(log) : log[i].rv < w.rv
    <2>1. /\ Current(log).rv \in Nat
          /\ \A i \in 1 .. Len(log) : log[i].rv \in Nat
      BY <1>2 DEF EnvVersion
    <2> HIDE DEF w
    <2> QED
      BY <1>3, <1>4, <2>1
  <1>6. \A i, j \in 1 .. Len(new) : i < j => new[i].rv < new[j].rv
    <2>1. \A i, j \in 1 .. Len(log) : i < j => log[i].rv < log[j].rv
      BY DEF Ordered
    <2> HIDE DEF w
    <2> SUFFICES ASSUME NEW i \in 1 .. Len(new), NEW j \in 1 .. Len(new), i < j
                 PROVE  new[i].rv < new[j].rv
      OBVIOUS
    <2>2. CASE new = log
      BY <2>1, <2>2
    <2>3. CASE new # log /\ j <= Len(log)
      <3>1. i \in 1 .. Len(log) /\ j \in 1 .. Len(log)
        BY <1>2, <2>3
      <3>2. new[i] = log[i] /\ new[j] = log[j]
        BY <1>1, <2>3, <3>1
      <3> QED
        BY <2>1, <3>1, <3>2
    <2>4. CASE new # log /\ j > Len(log)
      <3>1. j = Len(log) + 1 /\ new[j] = w
        BY <1>1, <1>2, <2>4
      <3>2. i \in 1 .. Len(log)
        BY <1>2, <3>1
      <3>3. new[i] = log[i]
        BY <1>1, <2>4, <3>2
      <3> QED
        BY <1>5, <3>1, <3>2, <3>3
    <2> QED
      BY <1>1, <1>2, <2>2, <2>3, <2>4
  <1>7. \A i, j \in 1 .. Len(new) :
          i <= j /\ new[i].live /\ new[i].fin /\ ~new[i].del => new[j].live /\ new[j].fin
    <2>1. \A i, j \in 1 .. Len(log) :
            i <= j /\ log[i].live /\ log[i].fin /\ ~log[i].del => log[j].live /\ log[j].fin
      BY DEF HeldOnceSeen
    <2>2. \A i \in 1 .. Len(log) :
            log[i].live /\ log[i].fin /\ ~log[i].del => w.live /\ w.fin
      BY <1>3
    <2> HIDE DEF w
    <2> SUFFICES ASSUME NEW i \in 1 .. Len(new), NEW j \in 1 .. Len(new), i <= j,
                        new[i].live, new[i].fin, ~new[i].del
                 PROVE  new[j].live /\ new[j].fin
      OBVIOUS
    <2>3. CASE new = log
      BY <2>1, <2>3
    <2>4. CASE new # log /\ j <= Len(log)
      <3>1. i \in 1 .. Len(log) /\ j \in 1 .. Len(log)
        BY <1>2, <2>4
      <3>2. new[i] = log[i] /\ new[j] = log[j]
        BY <1>1, <2>4, <3>1
      <3> QED
        BY <2>1, <3>1, <3>2
    <2>5. CASE new # log /\ j > Len(log)
      <3>1. j = Len(log) + 1 /\ new[j] = w
        BY <1>1, <1>2, <2>5
      <3>2. CASE i = j
        BY <3>2
      <3>3. CASE i < j
        BY <1>1, <1>2, <2>2, <2>5, <3>1, <3>3
      <3> QED
        BY <3>2, <3>3
    <2> QED
      BY <1>2, <2>3, <2>4, <2>5
  <1> QED
    BY <1>1, <1>6, <1>7 DEF Ordered, HeldOnceSeen

\* A version in the cache that is as new as the present one is the present one.
LEMMA FreshOne ==
  ASSUME EnvLogsOK, Ordered, NEW e \in Envs,
         Current(envLog[e]).rv <= Cached(envLog[e]).rv
  PROVE  Len(envLog[e]) = 1 /\ Cached(envLog[e]) = Current(envLog[e])
  <1> DEFINE log == envLog[e]
  <1>1. /\ Len(log) \in Nat \ {0}
        /\ Cached(log) = log[1] /\ Current(log) = log[Len(log)]
        /\ Cached(log) \in EnvVersion /\ Current(log) \in EnvVersion
    BY EnvEnds DEF Cached, Current
  <1>2. CASE 1 < Len(log)
    <2>1. log[1].rv < log[Len(log)].rv
      BY <1>1, <1>2 DEF Ordered
    <2>2. log[1].rv \in Nat /\ log[Len(log)].rv \in Nat
      BY <1>1 DEF EnvVersion
    <2> QED
      BY <1>1, <2>1, <2>2
  <1>3. \A n \in Nat \ {0} : n = 1 \/ 1 < n
    OBVIOUS
  <1> QED
    BY <1>1, <1>2, <1>3

\* A write by users, the finalizer added, a status patched: held objects stay
\* held.
LEMMA KeepingWrite ==
  ASSUME TypeInv, Tracked, SameWork,
         NEW e \in Envs, NEW v \in EnvVersion, EnvSound(v), WriteEnv(e, v),
         Keeps(Current(envLog[e]), v)
  PROVE  Tracked' /\ HoldsOn
  <1> DEFINE log == envLog[e]
  <1>0. EnvLogsOK
    BY Parts DEF TypeParts
  <1>1. Ordered' /\ HeldOnceSeen'
    <2>1. \A i \in 1 .. Len(log) :
            log[i].live /\ log[i].fin /\ ~log[i].del => v.live /\ v.fin
      <3> SUFFICES ASSUME NEW i \in 1 .. Len(log),
                          log[i].live, log[i].fin, ~log[i].del
                   PROVE  v.live /\ v.fin
        OBVIOUS
      <3>1. Len(log) \in Nat \ {0}
        BY <1>0, EnvEnds
      <3>2. i <= Len(log) /\ Len(log) \in 1 .. Len(log)
        BY <3>1
      <3>3. Current(log).live /\ Current(log).fin
        BY <3>2 DEF Tracked, HeldOnceSeen, Current
      <3> QED
        BY <3>3 DEF Keeps
    <2> QED
      BY <1>0, <2>1, WriteLogs DEF Tracked
  <1>2. /\ \A f \in Envs : Cached(envLog'[f]) = Cached(envLog[f])
        /\ \A f \in Envs \ {e} : Current(envLog'[f]) = Current(envLog[f])
        /\ Keeps(Current(log), Current(envLog'[e]))
    <2> DEFINE w == [v EXCEPT !.rv = Current(log).rv + 1]
    <2>1. /\ \A f \in Envs \ {e} : envLog'[f] = envLog[f]
          /\ \/ envLog'[e] = log
             \/ /\ \A i \in 1 .. Len(log) : envLog'[e][i] = log[i]
                /\ Current(envLog'[e]) = w
      BY <1>0, WriteEnvLog
    <2>2. w.live = v.live /\ w.fin = v.fin
      BY DEF EnvVersion
    <2>3. 1 \in 1 .. Len(log)
      BY <1>0, EnvEnds
    <2> HIDE DEF w
    <2> QED
      BY <2>1, <2>2, <2>3 DEF Keeps, Cached
  <1>3. HoldsOn
    BY <1>2 DEF HoldsOn, Keeps, EnvNow
  <1>4. WorkerHolds'
    <2> SUFFICES ASSUME pc' \in Deploying
                 PROVE  EnvNow(cur)'.live /\ EnvNow(cur)'.fin
      BY DEF WorkerHolds
    <2>1. pc \in Deploying /\ pc # "idle" /\ cur' = cur
      BY DEF SameWork, Deploying
    <2>2. cur \in Envs
      BY <2>1, RelType
    <2> QED
      BY <1>2, <2>1, <2>2 DEF Tracked, WorkerHolds, Keeps, EnvNow
  <1>5. WorkerDeletes'
    BY DEF Tracked, WorkerDeletes, SameWork, Deleting
  <1>6. CopySeen'
    <2> SUFFICES ASSUME pc' # "idle"
                 PROVE  /\ copy'.rv <= Cached(envLog'[cur']).rv
                        /\ copy'.rv = Cached(envLog'[cur']).rv
                             => copy' = Cached(envLog'[cur'])
      BY DEF CopySeen
    <2>1. pc # "idle" /\ cur' = cur /\ copy' = copy
      BY DEF SameWork
    <2>2. cur \in Envs
      BY <2>1, RelType
    <2> QED
      BY <1>2, <2>1, <2>2 DEF Tracked, CopySeen
  <1> QED
    BY <1>1, <1>3, <1>4, <1>5, <1>6 DEF Tracked

-----------------------------------------------------------------------------
\* A request taken: what the cache shows is current enough.
LEMMA TakesWork ==
  ASSUME TypeInv, Tracked, NEW e \in Envs,
         ReconcileDeletion(e) \/ ReconcileDeploy(e)
  PROVE  Tracked' /\ HoldsOn
  <1> DEFINE c == Cached(envLog[e])
             now == Current(envLog[e])
  <1>0. EnvLogsOK
    BY Parts DEF TypeParts
  <1>1. cur' = e /\ copy' = c /\ c.live /\ envLog' = envLog
    BY DEF ReconcileDeletion, ReconcileDeploy, Take
  <1>2. Ordered' /\ HeldOnceSeen' /\ HoldsOn
    BY <1>1 DEF Tracked, Ordered, HeldOnceSeen, HoldsOn, Keeps, EnvNow
  <1>3. CopySeen'
    <2>1. c.rv \in Nat
      BY <1>0, EnvEnds DEF EnvVersion
    <2> QED
      BY <1>1, <2>1 DEF CopySeen
  <1>4. WorkerHolds' /\ WorkerDeletes'
    <2>1. CASE ReconcileDeletion(e)
      BY <1>1, <2>1 DEF ReconcileDeletion, WorkerHolds, WorkerDeletes, Deploying
    <2>2. CASE ReconcileDeploy(e)
      <3>1. now.live /\ now.fin
        <4>1. Len(envLog[e]) \in Nat \ {0}
          BY <1>0, EnvEnds
        <4>2. /\ 1 \in 1 .. Len(envLog[e]) /\ Len(envLog[e]) \in 1 .. Len(envLog[e])
              /\ 1 <= Len(envLog[e])
          BY <4>1
        <4>3. c.live /\ c.fin /\ ~c.del
          BY <2>2 DEF ReconcileDeploy
        <4> QED
          BY <4>2, <4>3 DEF Tracked, HeldOnceSeen, Cached, Current
      <3> QED
        BY <1>1, <2>2, <3>1 DEF ReconcileDeploy, Take, WorkerHolds, WorkerDeletes,
                                Deleting, EnvNow
    <2> QED
      BY <2>1, <2>2
  <1> QED
    BY <1>2, <1>3, <1>4 DEF Tracked

\* The finalizer is taken from the version the worker has worked on, and from no
\* other: the conflict of Update sees to it.
LEMMA FreshCopy ==
  ASSUME TypeInv, Tracked, pc = "unfinalize", Fresh(envLog[cur], copy)
  PROVE  /\ Len(envLog[cur]) = 1
         /\ EnvNow(cur) = copy /\ Cached(envLog[cur]) = copy /\ copy.del
  <1>1. cur \in Envs /\ EnvLogsOK
    BY RelType, Parts DEF TypeParts
  <1>2. copy.rv <= Cached(envLog[cur]).rv /\ copy.rv = Current(envLog[cur]).rv
    BY DEF Tracked, CopySeen, Fresh
  <1>3. Len(envLog[cur]) = 1 /\ Cached(envLog[cur]) = Current(envLog[cur])
    BY <1>1, <1>2, FreshOne DEF Tracked
  <1> QED
    BY <1>2, <1>3 DEF Tracked, CopySeen, WorkerDeletes, Deleting, EnvNow

LEMMA TrackedLetsGo ==
  ASSUME TypeInv, Tracked, RemoveFinalizer
  PROVE  Tracked' /\ \A f \in Envs \ {cur} : Keeps(EnvNow(f), EnvNow(f)')
  <1> DEFINE log == envLog[cur]
             gone == EnvGone(copy.rv)
  <1>0. pc = "unfinalize" /\ pc' = "idle"
    BY DEF RemoveFinalizer, Return
  <1>1. cur \in Envs /\ copy \in EnvVersion
    BY <1>0, RelType
  <1>2. EnvLogsOK
    BY Parts DEF TypeParts
  <1>3. CASE Fresh(log, copy) /\ WriteEnv(cur, gone)
    <2>1. Len(log) = 1 /\ log[1] = copy /\ copy.del
      BY <1>0, <1>3, FreshCopy DEF Cached
    <2>2. gone \in EnvVersion /\ EnvSound(gone)
      <3>1. copy.rv \in Nat
        BY <1>1 DEF EnvVersion
      <3> QED
        BY <3>1, EnvGoneVersion
    <2>3. \A i \in 1 .. Len(log) : ~(log[i].live /\ log[i].fin /\ ~log[i].del)
      <3>1. \A i \in 1 .. Len(log) : i = 1
        BY <2>1
      <3> QED
        BY <2>1, <3>1
    <2> HIDE DEF gone
    <2>4. Ordered' /\ HeldOnceSeen'
      BY <1>1, <1>2, <1>3, <2>2, <2>3, WriteLogs DEF Tracked
    <2>5. \A f \in Envs \ {cur} : envLog'[f] = envLog[f]
      BY <1>1, <1>2, <1>3, <2>2, WriteEnvLog
    <2> QED
      BY <1>0, <2>4, <2>5 DEF Tracked, WorkerHolds, WorkerDeletes, CopySeen,
                              Deploying, Deleting, Keeps, EnvNow
  <1>4. CASE envLog' = envLog
    BY <1>0, <1>4, TrackedKept DEF SameWork, Deploying, Deleting, HoldsOn
  <1> QED
    BY <1>3, <1>4 DEF RemoveFinalizer

\* The cache moves on to a later version.
LEMMA TrackedDelivers ==
  ASSUME TypeInv, Tracked, NEW e \in Envs, DeliverEnv(e), UNCHANGED envVars
  PROVE  Tracked' /\ HoldsOn
  <1> DEFINE log == envLog[e]
             new == envLog'[e]
  <1>0. EnvLogsOK
    BY Parts DEF TypeParts
  <1>1. /\ \A f \in Envs \ {e} : envLog'[f] = envLog[f]
        /\ Len(new) = Len(log) - 1
        /\ \A i \in 1 .. Len(new) : new[i] = log[i + 1]
        /\ Current(new) = Current(log)
    BY <1>0, DeliverEnvLog
  <1>2. /\ Len(log) \in Nat /\ Len(log) > 1
        /\ pc' = pc /\ cur' = cur /\ copy' = copy
    BY <1>0, EnvEnds DEF DeliverEnv, envVars
  <1>3. \A f \in Envs : EnvNow(f)' = EnvNow(f)
    BY <1>1 DEF EnvNow
  <1>4. Ordered'
    <2>1. \A i, j \in 1 .. Len(new) : i < j => new[i].rv < new[j].rv
      <3> SUFFICES ASSUME NEW i \in 1 .. Len(new), NEW j \in 1 .. Len(new), i < j
                   PROVE  new[i].rv < new[j].rv
        OBVIOUS
      <3>1. i + 1 \in 1 .. Len(log) /\ j + 1 \in 1 .. Len(log) /\ i + 1 < j + 1
        BY <1>1, <1>2
      <3>2. log[i + 1].rv < log[j + 1].rv
        BY <3>1 DEF Tracked, Ordered
      <3> QED
        BY <1>1, <3>2
    <2> QED
      BY <1>1, <2>1 DEF Tracked, Ordered
  <1>5. HeldOnceSeen'
    <2>1. \A i, j \in 1 .. Len(new) :
            i <= j /\ new[i].live /\ new[i].fin /\ ~new[i].del
              => new[j].live /\ new[j].fin
      <3> SUFFICES ASSUME NEW i \in 1 .. Len(new), NEW j \in 1 .. Len(new), i <= j,
                          new[i].live, new[i].fin, ~new[i].del
                   PROVE  new[j].live /\ new[j].fin
        OBVIOUS
      <3>1. i + 1 \in 1 .. Len(log) /\ j + 1 \in 1 .. Len(log) /\ i + 1 <= j + 1
        BY <1>1, <1>2
      <3>2. new[i] = log[i + 1] /\ new[j] = log[j + 1]
        BY <1>1
      <3> QED
        BY <3>1, <3>2 DEF Tracked, HeldOnceSeen
    <2> QED
      BY <1>1, <2>1 DEF Tracked, HeldOnceSeen
  <1>6. CopySeen'
    <2> SUFFICES ASSUME pc # "idle"
                 PROVE  /\ copy.rv <= Cached(envLog'[cur]).rv
                        /\ copy.rv = Cached(envLog'[cur]).rv
                             => copy = Cached(envLog'[cur])
      BY <1>2 DEF CopySeen
    <2>1. cur \in Envs /\ copy \in EnvVersion
      BY RelType
    <2>2. CASE cur = e
      <3>1. 1 \in 1 .. Len(new) /\ 1 \in 1 .. Len(log) /\ 2 \in 1 .. Len(log)
        BY <1>1, <1>2
      <3>2. Cached(new) = log[2] /\ Cached(log) = log[1]
        BY <1>1, <3>1 DEF Cached
      <3>3. log[1].rv < log[2].rv
        BY <3>1 DEF Tracked, Ordered
      <3>4. log[1].rv \in Nat /\ log[2].rv \in Nat /\ copy.rv \in Nat
        <4>1. log[1] \in EnvVersion /\ log[2] \in EnvVersion
          BY <1>0, <3>1 DEF EnvLogsOK
        <4> QED
          BY <2>1, <4>1 DEF EnvVersion
      <3>5. copy.rv <= log[1].rv
        BY <2>2, <3>2 DEF Tracked, CopySeen
      <3> QED
        BY <2>2, <3>2, <3>3, <3>4, <3>5
    <2>3. CASE cur # e
      BY <1>1, <2>1, <2>3 DEF Tracked, CopySeen
    <2> QED
      BY <2>2, <2>3
  <1>7. WorkerHolds'
    <2> SUFFICES ASSUME pc \in Deploying
                 PROVE  EnvNow(cur)'.live /\ EnvNow(cur)'.fin
      BY <1>2 DEF WorkerHolds
    <2>1. cur \in Envs
      BY RelType DEF Deploying
    <2> QED
      BY <1>2, <1>3, <2>1 DEF Tracked, WorkerHolds
  <1>8. WorkerDeletes' /\ HoldsOn
    BY <1>2, <1>3 DEF Tracked, WorkerDeletes, HoldsOn, Keeps
  <1> QED
    BY <1>4, <1>5, <1>6, <1>7, <1>8 DEF Tracked

\* After a crash the caches are current and no worker is at work.
LEMMA TrackedRestarts ==
  ASSUME TypeInv, Crash
  PROVE  Tracked' /\ HoldsOn
  <1>1. /\ pc' = "idle"
        /\ \A e \in Envs : /\ EnvNow(e)' = EnvNow(e)
                           /\ Len(envLog'[e]) = 1
    BY CrashLogs DEF Crash, Return, EnvNow
  <1>2. \A e \in Envs : \A i \in 1 .. Len(envLog'[e]) : i = 1
    <2> SUFFICES ASSUME NEW e \in Envs, NEW i \in 1 .. Len(envLog'[e])
                 PROVE  i = 1
      OBVIOUS
    <2>1. Len(envLog'[e]) = 1
      BY <1>1
    <2> QED
      BY <2>1
  <1>3. Ordered' /\ HeldOnceSeen'
    BY <1>2 DEF Ordered, HeldOnceSeen
  <1> QED
    BY <1>1, <1>3 DEF Tracked, WorkerHolds, WorkerDeletes, CopySeen, Deploying,
                      Deleting, HoldsOn, Keeps

\* The step of the worker that adds the finalizer or patches the status.
LEMMA WritesStatus ==
  ASSUME TypeInv, Tracked,
         \/ PatchStatus
         \/ PatchStatusFails /\ StatusLands
         \/ \E e \in Envs : AddFinalizer(e)
  PROVE  Tracked' /\ HoldsOn
  <1>0. EnvLogsOK
    BY Parts DEF TypeParts
  <1>1. CASE PatchStatus \/ (PatchStatusFails /\ StatusLands)
    <2> DEFINE now == Current(envLog[cur])
               new == EnvPatch(now, copy, Reported(copy))
    <2>0. pc = "status"
      BY <1>1 DEF PatchStatus, PatchStatusFails
    <2>1. cur \in Envs
      BY <2>0, RelType
    <2>2. /\ new \in EnvVersion
          /\ new.live = now.live /\ new.spec = now.spec
          /\ new.fin = now.fin /\ new.del = now.del
      BY <2>0, EnvPatchType
    <2>3. EnvSound(new) /\ Keeps(now, new)
      BY <1>0, <2>1, <2>2, EnvEnds DEF EnvSound, Keeps
    <2>4. WriteEnv(cur, new)
      BY <1>1 DEF PatchStatus, PatchStatusFails, StatusLands
    <2>5. SameWork
      BY <1>1 DEF PatchStatus, PatchStatusFails, Return, SameWork, Deploying,
                  Deleting
    <2> HIDE DEF new
    <2> QED
      BY <2>1, <2>2, <2>3, <2>4, <2>5, KeepingWrite
  <1>2. ASSUME NEW e \in Envs, AddFinalizer(e)
        PROVE  Tracked' /\ HoldsOn
    <2> DEFINE c == Cached(envLog[e])
               v == [c EXCEPT !.fin = TRUE]
    <2>1. c \in EnvVersion /\ EnvSound(c)
      BY <1>0, EnvEnds
    <2>2. v \in EnvVersion /\ v.live = c.live /\ v.spec = c.spec /\ v.fin
      BY <2>1 DEF EnvVersion
    <2>3. WriteEnv(e, v) /\ c.live /\ SameWork
      BY <1>2 DEF AddFinalizer, SameWork, envVars
    <2> HIDE DEF v
    <2>4. EnvSound(v) /\ Keeps(Current(envLog[e]), v)
      BY <2>1, <2>2, <2>3 DEF EnvSound, Keeps
    <2> QED
      BY <2>2, <2>3, <2>4, KeepingWrite
  <1> QED
    BY <1>1, <1>2

\* The steps of the worker that write no environment.
LEMMA Proceeds ==
  ASSUME TypeInv, Tracked,
         \/ \E e \in Envs : ReconcileNotFound(e)
         \/ ChartFails \/ DownloadChart \/ InstallOrUpgrade \/ HelmDone
         \/ ReconcileDone \/ Uninstall \/ UninstallDone
         \/ PatchStatusFails /\ envLog' = envLog
         \/ \E p \in Products : updateProductStatus(p)
  PROVE  Tracked' /\ HoldsOn
  <1>1. envLog' = envLog
    BY DEF ReconcileNotFound, ChartFails, clusterVars, DownloadChart, HelmDone,
           InstallOrUpgrade, ReconcileDone, Uninstall, UninstallDone,
           updateProductStatus
  <1>2. CASE Uninstall \/ UninstallDone
    <2>1. /\ pc \in Deleting
          /\ pc' = "idle" \/ (pc' \in Deleting /\ cur' = cur /\ copy' = copy)
      BY <1>2 DEF Uninstall, UninstallDone, Return, Deleting
    <2> QED
      BY <1>1, <2>1, TrackedKept DEF SameWork, Deploying, Deleting
  <1>3. CASE HelmDone
    <2>1. SameWork
      BY <1>3 DEF HelmDone, Report, SameWork, Deploying, Deleting
    <2> QED
      BY <1>1, <2>1, TrackedKept
  <1>4. CASE ~(Uninstall \/ UninstallDone \/ HelmDone)
    <2>1. CASE \E e \in Envs : ReconcileNotFound(e)
      BY <1>1, <2>1, TrackedKept DEF ReconcileNotFound, SameWork, envVars
    <2>2. CASE ChartFails \/ DownloadChart \/ InstallOrUpgrade
      BY <1>1, <2>2, TrackedKept DEF ChartFails, DownloadChart, InstallOrUpgrade,
                  Report, envVars, SameWork, Deploying, Deleting
    <2>3. CASE PatchStatusFails \/ ReconcileDone
      BY <1>1, <2>3, TrackedKept DEF PatchStatusFails, ReconcileDone, Return,
                  SameWork, Deploying, Deleting
    <2>4. CASE \E p \in Products : updateProductStatus(p)
      BY <1>1, <2>4, TrackedKept DEF updateProductStatus, SameWork
    <2> QED
      BY <1>4, <2>1, <2>2, <2>3, <2>4
  <1> QED
    BY <1>2, <1>3, <1>4

\* The product controllers and the informers of products write no environment.
LEMMA ProductsKeep ==
  ASSUME ProdStep \/ \E p \in Products : DeliverProd(p)
  PROVE  UNCHANGED <<envLog, release>>
  BY DEF ProdStep, ProdNotFound, ProdRemoveFinalizer, ProdAddFinalizer, EnvFound,
         EnvMissing, PatchPending, DeliverProd

\* Users keep what is held.
LEMMA UsersKeep ==
  ASSUME TypeInv, Tracked, UserStep
  PROVE  Tracked' /\ HoldsOn /\ UNCHANGED <<envVars, release>>
  <1>1. UNCHANGED <<envVars, release>>
    BY UserWrites DEF UserUnchanged
  <1>2. SameWork
    BY <1>1 DEF SameWork, envVars
  <1>3. CASE envLog' = envLog
    BY <1>1, <1>2, <1>3, TrackedKept
  <1>4. ASSUME NEW e \in Envs, NEW v \in EnvVersion, EnvSound(v),
               UserWrote(Current(envLog[e]), v), WriteEnv(e, v)
        PROVE  Tracked' /\ HoldsOn
    <2>1. Keeps(Current(envLog[e]), v)
      BY <1>4 DEF UserWrote, Keeps
    <2> QED
      BY <1>2, <1>4, <2>1, KeepingWrite
  <1> QED
    BY <1>1, <1>3, <1>4, UserWrites

\* Only RemoveFinalizer lets an object go, and only the one it works on.
LEMMA StepTracked ==
  ASSUME TypeInv, Tracked, [Next]_vars
  PROVE  Tracked' /\ (RemoveFinalizer \/ HoldsOn)
  <1>1. CASE EnvStep
    <2>1. CASE PatchStatusFails
      BY <2>1, Proceeds, WritesStatus DEF PatchStatusFails
    <2>2. CASE RemoveFinalizer
      BY <2>2, TrackedLetsGo
    <2> QED
      BY <1>1, <2>1, <2>2, TakesWork, Proceeds, WritesStatus DEF EnvStep, Reconcile
  <1>2. CASE UNCHANGED <<envLog, envVars>>
    <2>1. SameWork
      BY <1>2 DEF SameWork, envVars
    <2> QED
      BY <1>2, <2>1, TrackedKept
  <1>3. CASE Deliver /\ UNCHANGED envVars
    BY <1>2, <1>3, ProductsKeep, TrackedDelivers DEF Deliver
  <1>4. CASE Crash
    BY <1>4, TrackedRestarts
  <1>5. CASE ProdStep /\ UNCHANGED envVars
    BY <1>2, <1>5, ProductsKeep
  <1>6. CASE UserStep
    BY <1>6, UsersKeep
  <1>7. CASE UNCHANGED vars
    BY <1>2, <1>7 DEF vars, clusterVars
  <1> QED
    BY <1>1, <1>3, <1>4, <1>5, <1>6, <1>7 DEF Next

LEMMA InitTracked == Init => Tracked
  <1> SUFFICES ASSUME Init PROVE Tracked
    OBVIOUS
  <1>1. \A e \in Envs : \A i \in 1 .. Len(envLog[e]) : i = 1
    <2> SUFFICES ASSUME NEW e \in Envs, NEW i \in 1 .. Len(envLog[e])
                 PROVE  i = 1
      OBVIOUS
    <2>1. envLog[e] = <<EnvGone(0)>> /\ Len(envLog[e]) = 1
      BY DEF Init, ClusterInit
    <2> QED
      BY <2>1
  <1>2. Ordered /\ HeldOnceSeen
    BY <1>1 DEF Ordered, HeldOnceSeen
  <1> QED
    BY <1>2 DEF Init, EnvInit, Tracked, WorkerHolds, WorkerDeletes, CopySeen,
                Deploying, Deleting

-----------------------------------------------------------------------------
\* The release of the worker's copy is not listed when the finalizer goes.
CopyReleased == pc = "unfinalize" => ~Listed(Rel)

\* Listing the releases does not fail.
LEMMA NoListFault ==
  ASSUME MaxFaults["list"] = 0, TypeInv
  PROVE  ~Fault("list")
  <1>1. "list" \in FaultKinds /\ faults["list"] \in Nat
    BY Parts DEF FaultKinds, TypeParts
  <1> QED
    BY <1>1 DEF Fault

\* The release is not listed, or not any more.
LEMMA Unlisted ==
  ASSUME MaxFaults["list"] = 0, TypeInv, Uninstall \/ UninstallDone
  PROVE  pc' = "unfinalize" => /\ cur' = cur /\ copy' = copy
                               /\ ~Listed(release'[relName])
  <1>1. relName \in Releases /\ Rel = release[relName]
    BY RelType DEF Uninstall, UninstallDone
  <1>2. release \in [Releases -> Release]
    BY Parts DEF TypeParts
  <1>3. CASE Uninstall
    BY <1>1, <1>3, NoListFault DEF Uninstall, ReleaseExists
  <1>4. CASE UninstallDone
    BY <1>1, <1>2, <1>4 DEF UninstallDone, Return, Listed, NoRelease
  <1> QED
    BY <1>3, <1>4

LEMMA StepReleased ==
  ASSUME MaxFaults["list"] = 0, TypeInv, CopyReleased, [Next]_vars
  PROVE  CopyReleased'
  <1>1. CASE Uninstall \/ UninstallDone
    BY <1>1, Unlisted DEF CopyReleased, Rel, relName
  <1>2. CASE pc' # "unfinalize"
    BY <1>2 DEF CopyReleased
  <1>3. CASE UNCHANGED <<release, envVars>>
    BY <1>3 DEF CopyReleased, Rel, relName, envVars
  <1>4. CASE EnvStep /\ ~(Uninstall \/ UninstallDone)
    BY <1>2, <1>3, <1>4
       DEF EnvStep, Reconcile, ReconcileNotFound, ReconcileDeletion, AddFinalizer,
           ReconcileDeploy, Take, ChartFails, DownloadChart, InstallOrUpgrade,
           HelmDone, Report, PatchStatus, PatchStatusFails, updateProductStatus,
           ReconcileDone, RemoveFinalizer, Return
  <1>5. CASE Deliver /\ UNCHANGED envVars
    BY <1>3, <1>5 DEF Deliver, DeliverEnv, DeliverProd
  <1>6. CASE ProdStep /\ UNCHANGED envVars
    BY <1>3, <1>6, ProductsKeep
  <1>7. CASE UserStep
    BY <1>3, <1>7, UserWrites DEF UserUnchanged
  <1>8. CASE Crash
    BY <1>2, <1>8 DEF Crash, Return
  <1>9. CASE UNCHANGED vars
    BY <1>3, <1>9 DEF vars, clusterVars
  <1> QED
    BY <1>1, <1>4, <1>5, <1>6, <1>7, <1>8, <1>9 DEF Next

\* As long as the releases can be listed, the finalizer never goes while the
\* release its object's last spec names is listed, whoever renames it when.
THEOREM LastReleaseIsGone ==
  ASSUME MaxFaults["list"] = 0
  PROVE  Spec => LastReleaseGone
  <1> DEFINE Inv == TypeInv /\ Tracked /\ CopyReleased
  <1>1. Init => Inv
    BY InitType, InitTracked DEF Init, EnvInit, CopyReleased
  <1>2. Inv /\ [Next]_vars => Inv'
    BY StepType, StepTracked, StepReleased
  <1>3. ASSUME Inv, [Next]_vars, NEW e \in Envs, EnvNow(e).fin, ~EnvNow(e)'.live
        PROVE  ~Listed(ReleaseNow(e))
    <2>1. EnvNow(e).live
      BY <1>3, EnvEnds, Parts DEF TypeParts, EnvSound, EnvNow
    <2>2. RemoveFinalizer /\ e = cur
      BY <1>3, <2>1, StepTracked, TrackedLetsGo DEF HoldsOn, Keeps
    <2>3. envLog' # envLog
      BY <1>3, <2>1 DEF EnvNow
    <2>4. pc = "unfinalize" /\ Fresh(envLog[cur], copy)
      BY <2>2, <2>3 DEF RemoveFinalizer
    <2>5. EnvNow(e) = copy
      BY <1>3, <2>2, <2>4, FreshCopy
    <2> QED
      BY <1>3, <2>2, <2>4, <2>5 DEF CopyReleased, ReleaseNow, Rel, relName
  <1>4. Inv /\ [Next]_vars =>
          \A e \in Envs :
            EnvNow(e).fin /\ ~EnvNow(e)'.live => ~Listed(ReleaseNow(e))
    BY <1>3
  <1> QED
    BY <1>1, <1>2, <1>4, PTL DEF Spec, LastReleaseGone
==============================================================================
