------------------------- MODULE PingOperatorProofs -------------------------
(***************************************************************************)
(* Theorems about PingOperator for all values of its constants.            *)
(***************************************************************************)
EXTENDS OperatorInvariant, TLAPS

\* Every version of an object that exists has a spec, a product's version also
\* the name of an environment; one that does not exist has no finalizer and no
\* deletionTimestamp.
EnvSound(v) == IF v.live THEN v.spec \in Specs ELSE ~v.fin /\ ~v.del

ProdSound(v) == v.live => v.spec \in Specs /\ v.ref \in Envs

LogsOK ==
  /\ \A e \in Envs : \A i \in 1 .. Len(envLog[e]) : EnvSound(envLog[e][i])
  /\ \A p \in Products : \A i \in 1 .. Len(prodLog[p]) : ProdSound(prodLog[p][i])

TypeInv == TypeOK /\ LogsOK

-----------------------------------------------------------------------------
\* Logs.

\* The first and the last version of a log that is not empty belong to it.
LEMMA Ends ==
  ASSUME NEW S, NEW log \in Seq(S), log # <<>>
  PROVE  /\ Len(log) \in Nat \ {0}
         /\ Cached(log) \in S
         /\ Current(log) \in S
  BY DEF Cached, Current

\* Storing a version leaves the log as it is or appends to it.
LEMMA StoredLog ==
  ASSUME NEW S, NEW log \in Seq(S), log # <<>>, NEW v,
         [v EXCEPT !.rv = Current(log).rv + 1] \in S
  PROVE  LET w == [v EXCEPT !.rv = Current(log).rv + 1]
             new == Stored(log, v)
         IN  /\ new \in Seq(S)
             /\ new # <<>>
             /\ \/ new = log /\ v = Current(log)
                \/ /\ Len(new) = Len(log) + 1
                   /\ \A i \in 1 .. Len(log) : new[i] = log[i]
                   /\ new[Len(log) + 1] = w
                   /\ Current(new) = w
  <1> DEFINE w == [v EXCEPT !.rv = Current(log).rv + 1]
  <1> HIDE DEF w
  <1>0. w \in S
    BY DEF w
  <1>1. CASE v = Current(log)
    BY <1>1 DEF Stored
  <1>2. CASE v # Current(log)
    <2>1. Stored(log, v) = Append(log, w)
      BY <1>2 DEF Stored, w
    <2>2. /\ Append(log, w) \in Seq(S)
          /\ Len(Append(log, w)) = Len(log) + 1
          /\ \A i \in 1 .. Len(log) : Append(log, w)[i] = log[i]
          /\ Append(log, w)[Len(log) + 1] = w
      BY <1>0
    <2>3. Append(log, w) # <<>>
      BY <1>0
    <2> QED
      BY <2>1, <2>2, <2>3 DEF Current, w
  <1> QED
    BY <1>1, <1>2

\* Delivering a version drops the first.
LEMMA TailLog ==
  ASSUME NEW S, NEW log \in Seq(S), Len(log) > 1
  PROVE  /\ Tail(log) \in Seq(S)
         /\ Tail(log) # <<>>
         /\ Len(Tail(log)) = Len(log) - 1
         /\ \A i \in 1 .. Len(Tail(log)) : Tail(log)[i] = log[i + 1]
         /\ Current(Tail(log)) = Current(log)
         /\ Cached(Tail(log)) = log[2]
  <1>1. /\ Tail(log) \in Seq(S)
        /\ Len(Tail(log)) = Len(log) - 1
        /\ \A i \in 1 .. Len(Tail(log)) : Tail(log)[i] = log[i + 1]
    OBVIOUS
  <1>2. Len(log) \in Nat
    OBVIOUS
  <1>3. Tail(log) # <<>>
    <2>1. Len(<<>>) = 0
      OBVIOUS
    <2>2. Len(Tail(log)) # 0
      BY <1>1, <1>2
    <2> QED
      BY <2>1, <2>2
  <1> QED
    BY <1>1, <1>2, <1>3 DEF Current, Cached

-----------------------------------------------------------------------------
\* Writes and deliveries, on the logs of all the objects.

EnvLogsOK == /\ envLog \in [Envs -> Seq(EnvVersion)]
             /\ \A e \in Envs : envLog[e] # <<>>
             /\ \A e \in Envs : \A i \in 1 .. Len(envLog[e]) :
                  EnvSound(envLog[e][i])

ProdLogsOK == /\ prodLog \in [Products -> Seq(ProdVersion)]
              /\ \A p \in Products : prodLog[p] # <<>>
              /\ \A p \in Products : \A i \in 1 .. Len(prodLog[p]) :
                   ProdSound(prodLog[p][i])

\* TypeInv, part by part.
TypeParts == /\ EnvLogsOK /\ ProdLogsOK
             /\ release \in [Releases -> Release]
             /\ envQ \subseteq Envs
             /\ prodQ \subseteq Products
             /\ faults \in [FaultKinds -> Nat]
             /\ ChartTypeOK /\ EnvTypeOK /\ ProdTypeOK /\ ops \in Nat

LEMMA Parts == (TypeInv <=> TypeParts) /\ (TypeInv' <=> TypeParts')
  BY DEF TypeInv, TypeOK, LogsOK, ClusterTypeOK, EnvLogsOK, ProdLogsOK, TypeParts

\* The parts that steps which leave their variables alone preserve.
LEMMA Frame ==
  /\ EnvLogsOK /\ envLog' = envLog => EnvLogsOK'
  /\ ProdLogsOK /\ prodLog' = prodLog => ProdLogsOK'
  /\ ChartTypeOK /\ chart' = chart => ChartTypeOK'
  /\ EnvTypeOK /\ UNCHANGED envVars => EnvTypeOK'
  /\ ProdTypeOK /\ UNCHANGED prodVars => ProdTypeOK'
  BY DEF EnvLogsOK, ProdLogsOK, ChartTypeOK, EnvTypeOK, ProdTypeOK, envVars, prodVars

\* A write to one environment leaves the logs well formed, and either changes
\* nothing or appends one version to its log.
LEMMA WriteEnvLog ==
  ASSUME EnvLogsOK, NEW e \in Envs, NEW v \in EnvVersion,
         EnvSound(v),
         WriteEnv(e, v)
  PROVE  /\ EnvLogsOK'
         /\ \A f \in Envs \ {e} : envLog'[f] = envLog[f]
         /\ \/ envLog'[e] = envLog[e] /\ v = Current(envLog[e])
            \/ /\ Len(envLog'[e]) = Len(envLog[e]) + 1
               /\ \A i \in 1 .. Len(envLog[e]) : envLog'[e][i] = envLog[e][i]
               /\ envLog'[e][Len(envLog[e]) + 1]
                    = [v EXCEPT !.rv = Current(envLog[e]).rv + 1]
               /\ Current(envLog'[e])
                    = [v EXCEPT !.rv = Current(envLog[e]).rv + 1]
  <1> DEFINE log == envLog[e]
             w == [v EXCEPT !.rv = Current(log).rv + 1]
  <1>1. /\ log \in Seq(EnvVersion)
        /\ log # <<>>
    BY DEF EnvLogsOK
  <1>2. Current(log) \in EnvVersion
    BY <1>1, Ends
  <1>3. /\ w \in EnvVersion
        /\ EnvSound(w)
    <2>1. Current(log).rv + 1 \in Nat
      BY <1>2 DEF EnvVersion
    <2> QED
      BY <2>1 DEF EnvVersion, EnvSound
  <1> HIDE DEF w
  <1>4. /\ Stored(log, v) \in Seq(EnvVersion)
        /\ Stored(log, v) # <<>>
        /\ \/ Stored(log, v) = log /\ v = Current(log)
           \/ /\ Len(Stored(log, v)) = Len(log) + 1
              /\ \A i \in 1 .. Len(log) : Stored(log, v)[i] = log[i]
              /\ Stored(log, v)[Len(log) + 1] = w
              /\ Current(Stored(log, v)) = w
    BY <1>1, <1>3, StoredLog DEF w
  <1>5. /\ envLog'[e] = Stored(log, v)
        /\ \A f \in Envs \ {e} : envLog'[f] = envLog[f]
        /\ envLog' \in [Envs -> Seq(EnvVersion)]
    BY <1>4 DEF WriteEnv, EnvLogsOK
  <1>6. \A f \in Envs : envLog'[f] # <<>>
    BY <1>4, <1>5 DEF EnvLogsOK
  <1>7. \A i \in 1 .. Len(envLog'[e]) : EnvSound(envLog'[e][i])
    <2>1. \A i \in 1 .. Len(log) : EnvSound(log[i])
      BY DEF EnvLogsOK
    <2>2. Len(log) \in Nat
      BY <1>1, Ends
    <2> QED
      BY <1>3, <1>4, <1>5, <2>1, <2>2
  <1>8. EnvLogsOK'
    BY <1>5, <1>6, <1>7 DEF EnvLogsOK
  <1> QED
    BY <1>4, <1>5, <1>8 DEF w

\* The same for a product.
LEMMA WriteProdLog ==
  ASSUME ProdLogsOK, NEW p \in Products, NEW v \in ProdVersion,
         ProdSound(v),
         WriteProd(p, v)
  PROVE  ProdLogsOK'
  <1> DEFINE log == prodLog[p]
             w == [v EXCEPT !.rv = Current(log).rv + 1]
  <1>1. /\ log \in Seq(ProdVersion)
        /\ log # <<>>
    BY DEF ProdLogsOK
  <1>2. Current(log) \in ProdVersion
    BY <1>1, Ends
  <1>3. /\ w \in ProdVersion
        /\ ProdSound(w)
    <2>1. Current(log).rv + 1 \in Nat
      BY <1>2 DEF ProdVersion
    <2> QED
      BY <2>1 DEF ProdVersion, ProdSound
  <1> HIDE DEF w
  <1>4. /\ Stored(log, v) \in Seq(ProdVersion)
        /\ Stored(log, v) # <<>>
        /\ \/ Stored(log, v) = log
           \/ /\ Len(Stored(log, v)) = Len(log) + 1
              /\ \A i \in 1 .. Len(log) : Stored(log, v)[i] = log[i]
              /\ Stored(log, v)[Len(log) + 1] = w
    BY <1>1, <1>3, StoredLog DEF w
  <1>5. /\ prodLog'[p] = Stored(log, v)
        /\ \A q \in Products \ {p} : prodLog'[q] = prodLog[q]
        /\ prodLog' \in [Products -> Seq(ProdVersion)]
    BY <1>4 DEF WriteProd, ProdLogsOK
  <1>6. \A q \in Products : prodLog'[q] # <<>>
    BY <1>4, <1>5 DEF ProdLogsOK
  <1>7. \A i \in 1 .. Len(prodLog'[p]) : ProdSound(prodLog'[p][i])
    <2>1. \A i \in 1 .. Len(log) : ProdSound(log[i])
      BY DEF ProdLogsOK
    <2>2. Len(log) \in Nat
      BY <1>1, Ends
    <2> QED
      BY <1>3, <1>4, <1>5, <2>1, <2>2
  <1> QED
    BY <1>5, <1>6, <1>7 DEF ProdLogsOK

\* A delivery drops the first version of one log and leaves the others alone.
LEMMA DeliverEnvLog ==
  ASSUME EnvLogsOK, NEW e \in Envs, DeliverEnv(e)
  PROVE  /\ EnvLogsOK'
         /\ \A f \in Envs \ {e} : envLog'[f] = envLog[f]
         /\ Len(envLog'[e]) = Len(envLog[e]) - 1
         /\ \A i \in 1 .. Len(envLog'[e]) : envLog'[e][i] = envLog[e][i + 1]
         /\ Current(envLog'[e]) = Current(envLog[e])
  <1> DEFINE log == envLog[e]
  <1>1. log \in Seq(EnvVersion) /\ Len(log) > 1
    BY DEF EnvLogsOK, DeliverEnv
  <1>2. /\ Tail(log) \in Seq(EnvVersion)
        /\ Tail(log) # <<>>
        /\ Len(Tail(log)) = Len(log) - 1
        /\ \A i \in 1 .. Len(Tail(log)) : Tail(log)[i] = log[i + 1]
        /\ Current(Tail(log)) = Current(log)
    BY <1>1, TailLog
  <1>3. /\ envLog'[e] = Tail(log)
        /\ \A f \in Envs \ {e} : envLog'[f] = envLog[f]
        /\ envLog' \in [Envs -> Seq(EnvVersion)]
    BY <1>2 DEF DeliverEnv, EnvLogsOK
  <1>4. \A f \in Envs : envLog'[f] # <<>>
    BY <1>2, <1>3 DEF EnvLogsOK
  <1>5. \A i \in 1 .. Len(envLog'[e]) : EnvSound(envLog'[e][i])
    <2>1. \A i \in 1 .. Len(log) : EnvSound(log[i])
      BY DEF EnvLogsOK
    <2>2. Len(log) \in Nat
      BY <1>1
    <2> QED
      BY <1>2, <1>3, <2>1, <2>2
  <1> QED
    BY <1>2, <1>3, <1>4, <1>5 DEF EnvLogsOK

LEMMA DeliverProdLog ==
  ASSUME ProdLogsOK, NEW p \in Products, DeliverProd(p)
  PROVE  ProdLogsOK'
  <1> DEFINE log == prodLog[p]
  <1>1. log \in Seq(ProdVersion) /\ Len(log) > 1
    BY DEF ProdLogsOK, DeliverProd
  <1>2. /\ Tail(log) \in Seq(ProdVersion)
        /\ Tail(log) # <<>>
        /\ Len(Tail(log)) = Len(log) - 1
        /\ \A i \in 1 .. Len(Tail(log)) : Tail(log)[i] = log[i + 1]
    BY <1>1, TailLog
  <1>3. /\ prodLog'[p] = Tail(log)
        /\ \A q \in Products \ {p} : prodLog'[q] = prodLog[q]
        /\ prodLog' \in [Products -> Seq(ProdVersion)]
    BY <1>2 DEF DeliverProd, ProdLogsOK
  <1>4. \A q \in Products : prodLog'[q] # <<>>
    BY <1>2, <1>3 DEF ProdLogsOK
  <1>5. \A i \in 1 .. Len(prodLog'[p]) : ProdSound(prodLog'[p][i])
    <2>1. \A i \in 1 .. Len(log) : ProdSound(log[i])
      BY DEF ProdLogsOK
    <2>2. Len(log) \in Nat
      BY <1>1
    <2> QED
      BY <1>2, <1>3, <2>1, <2>2
  <1> QED
    BY <1>3, <1>4, <1>5 DEF ProdLogsOK

\* The versions actions read are well formed.
LEMMA EnvEnds ==
  ASSUME EnvLogsOK, NEW e \in Envs
  PROVE  /\ Len(envLog[e]) \in Nat \ {0}
         /\ Cached(envLog[e]) \in EnvVersion
         /\ Current(envLog[e]) \in EnvVersion
         /\ EnvSound(Cached(envLog[e]))
         /\ EnvSound(Current(envLog[e]))
  <1>1. envLog[e] \in Seq(EnvVersion) /\ envLog[e] # <<>>
    BY DEF EnvLogsOK
  <1>2. /\ Len(envLog[e]) \in Nat \ {0}
        /\ Cached(envLog[e]) \in EnvVersion
        /\ Current(envLog[e]) \in EnvVersion
    BY <1>1, Ends
  <1> QED
    BY <1>2 DEF EnvLogsOK, Cached, Current

LEMMA ProdEnds ==
  ASSUME ProdLogsOK, NEW p \in Products
  PROVE  /\ Cached(prodLog[p]) \in ProdVersion
         /\ Current(prodLog[p]) \in ProdVersion
         /\ ProdSound(Cached(prodLog[p]))
         /\ ProdSound(Current(prodLog[p]))
  <1>1. prodLog[p] \in Seq(ProdVersion) /\ prodLog[p] # <<>>
    BY DEF ProdLogsOK
  <1>2. /\ Len(prodLog[p]) \in Nat \ {0}
        /\ Cached(prodLog[p]) \in ProdVersion
        /\ Current(prodLog[p]) \in ProdVersion
    BY <1>1, Ends
  <1> QED
    BY <1>2 DEF ProdLogsOK, Cached, Current

LEMMA EnvGoneVersion ==
  ASSUME NEW n \in Nat
  PROVE  /\ EnvGone(n) \in EnvVersion /\ EnvSound(EnvGone(n))
         /\ ~EnvGone(n).live /\ EnvGone(n).rv = n
  BY DEF EnvGone, EnvVersion, NoCond, EnvSound

LEMMA ProdGoneVersion ==
  ASSUME NEW n \in Nat
  PROVE  ProdGone(n) \in ProdVersion /\ ProdSound(ProdGone(n))
  BY DEF ProdGone, ProdVersion, ProdSound

LEMMA FaultType ==
  ASSUME faults \in [FaultKinds -> Nat], NEW k \in FaultKinds, Fault(k)
  PROVE  faults' \in [FaultKinds -> Nat]
  BY DEF Fault

LEMMA ReleaseExistsType ==
  ASSUME faults \in [FaultKinds -> Nat], NEW b, ReleaseExists(b)
  PROVE  faults' \in [FaultKinds -> Nat]
  BY FaultType DEF ReleaseExists, FaultKinds

LEMMA NotListedType == NotListed \in [Products -> ProdVersion]
  BY ProdGoneVersion DEF NotListed

LEMMA ReturnType == Return => EnvTypeOK'
  BY NotListedType, EnvGoneVersion DEF Return, EnvTypeOK, Steps

\* The release the environment controller works on.
LEMMA RelType ==
  ASSUME TypeInv, pc # "idle"
  PROVE  /\ cur \in Envs
         /\ copy \in EnvVersion /\ copy.live /\ copy.spec \in Specs
         /\ relName \in Releases
         /\ relName = ReleaseOf[cur][copy.spec]
         /\ Rel = release[relName]
         /\ Rel \in Release
  BY ReleasesAssumption DEF TypeInv, TypeOK, EnvTypeOK, ClusterTypeOK, relName, Rel

-----------------------------------------------------------------------------
\* Type correctness of the environment controller.

LEMMA ReconcileType ==
  ASSUME TypeInv, NEW e \in Envs,
         Reconcile(e),
         UNCHANGED <<chart, prodVars, ops>>
  PROVE  TypeInv'
  <1> USE Parts, Frame DEF TypeParts
  <1> DEFINE c == Cached(envLog[e])
  <1>0. c \in EnvVersion /\ EnvSound(c)
    BY EnvEnds
  <1>1. CASE ReconcileNotFound(e)
    BY <1>1 DEF ReconcileNotFound, Dequeue
  <1>2. CASE ReconcileDeletion(e)
    <2>1. EnvTypeOK'
      BY <1>0, <1>2 DEF ReconcileDeletion, EnvTypeOK, Steps, EnvSound
    <2> QED
      BY <1>2, <2>1 DEF ReconcileDeletion, Dequeue
  <1>3. CASE AddFinalizer(e)
    <2>1. [c EXCEPT !.fin = TRUE] \in EnvVersion
      BY <1>0 DEF EnvVersion
    <2>2. EnvSound([c EXCEPT !.fin = TRUE])
      BY <1>0, <1>3 DEF AddFinalizer, EnvVersion, EnvSound
    <2>3. EnvLogsOK'
      BY <1>0, <1>3, <2>1, <2>2, WriteEnvLog DEF AddFinalizer
    <2> QED
      BY <1>3, <2>3 DEF AddFinalizer
  <1>4. CASE ReconcileDeploy(e)
    <2>1. lists' \in [Products -> ProdVersion]
      BY <1>4, ProdEnds, ProdGoneVersion DEF ReconcileDeploy, Take
    <2>2. values' \in Values
      <3>1. PICK S \in Firsts(listed(e)) :
              values' = [spec |-> c.spec,
                         prods |-> {<<p, Cached(prodLog[p]).spec>> : p \in S}]
        BY <1>4 DEF ReconcileDeploy, Take
      <3>2. S \subseteq Products
        BY DEF Firsts, listed
      <3>3. {<<p, Cached(prodLog[p]).spec>> : p \in S}
              \in SUBSET (Products \X (Specs \cup {"none"}))
        <4>1. \A p \in S : Cached(prodLog[p]).spec \in Specs \cup {"none"}
          BY <3>2, ProdEnds DEF ProdVersion
        <4> QED
          BY <3>2, <4>1
      <3>4. c.spec \in Specs
        BY <1>0, <1>4 DEF ReconcileDeploy, EnvSound
      <3> QED
        BY <3>1, <3>3, <3>4 DEF Values
    <2>3. EnvTypeOK'
      BY <1>0, <1>4, <2>1, <2>2 DEF ReconcileDeploy, Take, EnvTypeOK, Steps,
                                    EnvSound
    <2> QED
      BY <1>4, <2>3 DEF ReconcileDeploy, Take, Dequeue
  <1> QED
    BY <1>1, <1>2, <1>3, <1>4 DEF Reconcile

LEMMA ReportType ==
  ASSUME EnvTypeOK, pc \in {"deploy", "applying"},
         NEW o \in {"Ready", "Failed"}, Report(o)
  PROVE  EnvTypeOK'
  BY DEF Report, EnvTypeOK, Steps

LEMMA DownloadType ==
  ASSUME TypeInv, DownloadChart, UNCHANGED <<prodVars, ops>>
  PROVE  TypeInv'
  <1> USE Parts, Frame DEF TypeParts
  <1>1. ChartTypeOK'
    BY DEF DownloadChart, Download, DownloadFails, CopyFails, ChartTypeOK
  <1>2. EnvTypeOK'
    BY ReportType DEF DownloadChart
  <1>3. faults' \in [FaultKinds -> Nat]
    BY FaultType DEF DownloadChart, FaultKinds
  <1> QED
    BY <1>1, <1>2, <1>3 DEF DownloadChart

LEMMA DeployType ==
  ASSUME TypeInv, ChartFails \/ InstallOrUpgrade \/ HelmDone,
         UNCHANGED <<chart, prodVars, ops>>
  PROVE  TypeInv'
  <1> USE Parts, Frame, FaultType DEF TypeParts, FaultKinds
  <1>1. CASE ChartFails
    <2>1. EnvTypeOK'
      BY <1>1, ReportType DEF ChartFails
    <2> QED
      BY <1>1, <2>1 DEF ChartFails, clusterVars
  <1>2. CASE InstallOrUpgrade
    <2>0. /\ relName \in Releases
          /\ values \in Values
      BY <1>2, RelType DEF InstallOrUpgrade, EnvTypeOK
    <2>1. faults' \in [FaultKinds -> Nat]
      BY <1>2, ReleaseExistsType DEF InstallOrUpgrade
    <2>2. /\ EnvTypeOK'
          /\ release' \in [Releases -> Release]
      <3>1. CASE release' = release /\ Report("Failed")
        BY <1>2, <3>1, ReportType DEF InstallOrUpgrade
      <3>2. CASE /\ release' = [release EXCEPT ![relName] = Begun(values)]
                 /\ pc' = "applying"
                 /\ UNCHANGED <<cur, copy, lists, values, outcome, todo>>
        <4>1. Begun(values) \in Release
          BY <2>0 DEF Begun, Release, Statuses
        <4>2. EnvTypeOK'
          BY <1>2, <3>2 DEF InstallOrUpgrade, EnvTypeOK, Steps
        <4> QED
          BY <3>2, <4>1, <4>2
      <3> QED
        BY <1>2, <3>1, <3>2 DEF InstallOrUpgrade
    <2> QED
      BY <1>2, <2>1, <2>2 DEF InstallOrUpgrade
  <1>3. CASE HelmDone
    <2>0. relName \in Releases
      BY <1>3, RelType DEF HelmDone
    <2>1. \A s \in {"deployed", "failed"} : Applied(release[relName], s) \in Release
      BY <2>0 DEF Applied, Release, Statuses
    <2>2. release' \in [Releases -> Release]
      BY <1>3, <2>0, <2>1 DEF HelmDone
    <2>3. EnvTypeOK'
      BY <1>3, ReportType DEF HelmDone
    <2> QED
      BY <1>3, <2>2, <2>3 DEF HelmDone
  <1> QED
    BY <1>1, <1>2, <1>3

\* What PatchStatus writes.
LEMMA EnvPatchType ==
  ASSUME TypeInv, pc = "status"
  PROVE  LET now == Current(envLog[cur])
             new == EnvPatch(now, copy, Reported(copy))
         IN  /\ new \in EnvVersion
             /\ new.live = now.live /\ new.spec = now.spec
             /\ new.fin = now.fin /\ new.del = now.del
             /\ new.rv = now.rv /\ new.gen = now.gen
             /\ new.phase \in {now.phase, outcome}
             /\ \/ new.obs = now.obs
                \/ outcome = "Ready" /\ new.obs = copy.gen
  <1> DEFINE now == Current(envLog[cur])
             rep == Reported(copy)
             new == EnvPatch(now, copy, rep)
  <1>1. /\ copy \in EnvVersion
        /\ relName \in Releases
        /\ cur \in Envs
    BY RelType
  <1>2. now \in EnvVersion
    BY <1>1, EnvEnds, Parts DEF TypeParts
  <1>3. /\ rep \in EnvVersion
        /\ rep.phase = outcome
        /\ rep.obs = copy.obs \/ (outcome = "Ready" /\ rep.obs = copy.gen)
    <2>1. outcome \in {"Ready", "Failed"}
      BY Parts DEF TypeParts, EnvTypeOK
    <2> QED
      BY <1>1, <2>1 DEF Reported, EnvVersion
  <1>4. ASSUME NEW a \in EnvVersion, NEW b \in EnvVersion, NEW c \in EnvVersion
        PROVE  /\ EnvPatch(a, b, c) \in EnvVersion
               /\ EnvPatch(a, b, c).live = a.live
               /\ EnvPatch(a, b, c).spec = a.spec
               /\ EnvPatch(a, b, c).fin = a.fin
               /\ EnvPatch(a, b, c).del = a.del
               /\ EnvPatch(a, b, c).rv = a.rv
               /\ EnvPatch(a, b, c).gen = a.gen
               /\ EnvPatch(a, b, c).phase \in {a.phase, c.phase}
               /\ EnvPatch(a, b, c).obs = IF c.obs = b.obs THEN a.obs ELSE c.obs
    <2>1. /\ Patched(a.phase, b.phase, c.phase) \in {"none", "Ready", "Failed"}
          /\ Patched(a.rel, b.rel, c.rel) \in Releases \cup {"none"}
          /\ Patched(a.obs, b.obs, c.obs) \in Nat
          /\ Patched(a.cond, b.cond, c.cond) \in {"none", "True", "False"} \X Nat
      BY DEF Patched, EnvVersion
    <2>2. /\ Patched(a.phase, b.phase, c.phase) \in {a.phase, c.phase}
          /\ Patched(a.obs, b.obs, c.obs) = IF c.obs = b.obs THEN a.obs ELSE c.obs
      BY DEF Patched
    <2>3. /\ EnvPatch(a, b, c) \in EnvVersion
          /\ EnvPatch(a, b, c).live = a.live
          /\ EnvPatch(a, b, c).spec = a.spec
          /\ EnvPatch(a, b, c).fin = a.fin
          /\ EnvPatch(a, b, c).del = a.del
          /\ EnvPatch(a, b, c).rv = a.rv
          /\ EnvPatch(a, b, c).gen = a.gen
      BY <2>1 DEF EnvPatch, EnvVersion
    <2>4. /\ EnvPatch(a, b, c).phase = Patched(a.phase, b.phase, c.phase)
          /\ EnvPatch(a, b, c).obs = Patched(a.obs, b.obs, c.obs)
      BY DEF EnvPatch, EnvVersion
    <2> QED
      BY <2>2, <2>3, <2>4
  <1> HIDE DEF now, rep
  <1>5. /\ new \in EnvVersion
        /\ new.live = now.live /\ new.spec = now.spec
        /\ new.fin = now.fin /\ new.del = now.del
        /\ new.rv = now.rv /\ new.gen = now.gen
        /\ new.phase \in {now.phase, outcome}
        /\ \/ new.obs = now.obs
           \/ outcome = "Ready" /\ new.obs = copy.gen
    BY <1>1, <1>2, <1>3, <1>4
  <1> QED
    BY <1>5 DEF now, rep

LEMMA StatusType ==
  ASSUME TypeInv,
         \/ PatchStatus \/ PatchStatusFails \/ ReconcileDone
         \/ \E p \in Products : updateProductStatus(p),
         UNCHANGED <<chart, prodVars, ops>>
  PROVE  TypeInv'
  <1> USE Parts, Frame, FaultType DEF TypeParts, FaultKinds
  <1>0. ASSUME pc = "status", StatusLands
        PROVE  EnvLogsOK'
    <2> DEFINE now == Current(envLog[cur])
               new == EnvPatch(now, copy, Reported(copy))
    <2>1. cur \in Envs
      BY <1>0, RelType
    <2>2. /\ new \in EnvVersion
          /\ new.live = now.live /\ new.spec = now.spec
          /\ new.fin = now.fin /\ new.del = now.del
      BY <1>0, EnvPatchType
    <2>3. EnvSound(new)
      BY <2>1, <2>2, EnvEnds DEF EnvSound
    <2>4. WriteEnv(cur, new)
      BY <1>0 DEF StatusLands
    <2> HIDE DEF new
    <2> QED
      BY <2>1, <2>2, <2>3, <2>4, WriteEnvLog
  <1>1. CASE PatchStatus
    <2>1. EnvTypeOK'
      BY <1>1 DEF PatchStatus, EnvTypeOK, Steps
    <2> QED
      BY <1>0, <1>1, <2>1 DEF PatchStatus
  <1>2. CASE PatchStatusFails
    <2>1. cur \in Envs
      BY <1>2, RelType DEF PatchStatusFails
    <2>2. EnvLogsOK'
      BY <1>0, <1>2 DEF PatchStatusFails
    <2> QED
      BY <1>2, <2>1, <2>2, ReturnType DEF PatchStatusFails
  <1>3. CASE ReconcileDone
    <2>1. cur \in Envs
      BY <1>3, RelType DEF ReconcileDone
    <2> QED
      BY <1>3, <2>1, ReturnType DEF ReconcileDone
  <1>4. ASSUME NEW p \in Products, updateProductStatus(p)
        PROVE  TypeInv'
    <2> DEFINE now == Current(prodLog[p])
               new == ProdPatch(now, lists[p], ProdReported(lists[p]))
    <2>1. /\ relName \in Releases
          /\ outcome \in {"Ready", "Failed"}
      BY <1>4, RelType DEF updateProductStatus, EnvTypeOK
    <2>2. now \in ProdVersion /\ ProdSound(now)
      BY ProdEnds
    <2>3. lists[p] \in ProdVersion
      BY DEF EnvTypeOK
    <2>4. new \in ProdVersion /\ ProdSound(new)
      BY <2>1, <2>2, <2>3 DEF ProdPatch, ProdReported, Patched, ProdVersion,
                              ProdSound
    <2>5. ProdLogsOK'
      <3>1. CASE WriteProd(p, new)
        <4> HIDE DEF new
        <4> QED
          BY <2>2, <2>4, <3>1, WriteProdLog
      <3>2. CASE prodLog' = prodLog
        BY <3>2
      <3> QED
        BY <1>4, <3>1, <3>2 DEF updateProductStatus
    <2>6. EnvTypeOK'
      BY <1>4 DEF updateProductStatus, EnvTypeOK, Steps
    <2> QED
      BY <1>4, <2>5, <2>6 DEF updateProductStatus
  <1> QED
    BY <1>1, <1>2, <1>3, <1>4

LEMMA DeletionType ==
  ASSUME TypeInv, Uninstall \/ UninstallDone \/ RemoveFinalizer,
         UNCHANGED <<chart, prodVars, ops>>
  PROVE  TypeInv'
  <1> USE Parts, Frame, FaultType DEF TypeParts, FaultKinds
  <1>0. /\ cur \in Envs
        /\ relName \in Releases
        /\ release[relName] \in Release
        /\ copy \in EnvVersion
    BY RelType DEF Uninstall, UninstallDone, RemoveFinalizer
  <1>1. CASE Uninstall
    <2>1. faults' \in [FaultKinds -> Nat]
      BY <1>1, ReleaseExistsType DEF Uninstall
    <2>2. Marked(release[relName]) \in Release
      BY <1>0 DEF Marked, Release, Statuses
    <2>3. release' \in [Releases -> Release]
      BY <1>0, <1>1, <2>2 DEF Uninstall
    <2>4. EnvTypeOK'
      BY <1>1 DEF Uninstall, EnvTypeOK, Steps
    <2> QED
      BY <1>1, <2>1, <2>3, <2>4 DEF Uninstall
  <1>2. CASE UninstallDone
    <2>1. NoRelease \in Release
      BY DEF NoRelease, NoValues, Release, Statuses
    <2>2. release' \in [Releases -> Release]
      BY <1>0, <1>2, <2>1 DEF UninstallDone
    <2>3. EnvTypeOK'
      BY <1>2, ReturnType DEF UninstallDone, EnvTypeOK, Steps
    <2> QED
      BY <1>0, <1>2, <2>2, <2>3 DEF UninstallDone
  <1>3. CASE RemoveFinalizer
    <2>1. /\ EnvGone(copy.rv) \in EnvVersion
          /\ EnvSound(EnvGone(copy.rv))
      BY <1>0, EnvGoneVersion DEF EnvVersion
    <2>2. EnvLogsOK'
      <3>1. CASE WriteEnv(cur, EnvGone(copy.rv))
        BY <1>0, <2>1, <3>1, WriteEnvLog
      <3>2. CASE envLog' = envLog
        BY <3>2
      <3> QED
        BY <1>3, <3>1, <3>2 DEF RemoveFinalizer
    <2> QED
      BY <1>0, <1>3, <2>2, ReturnType DEF RemoveFinalizer
  <1> QED
    BY <1>1, <1>2, <1>3

-----------------------------------------------------------------------------
\* Type correctness of the product controllers, the informers, the users and
\* crashes.

LEMMA ProdStepType ==
  ASSUME TypeInv, ProdStep, UNCHANGED <<envVars, chart, ops>>
  PROVE  TypeInv'
  <1> USE Parts, Frame DEF TypeParts
  <1>1. PICK p \in Products :
          \/ ProdNotFound(p) \/ ProdRemoveFinalizer(p) \/ ProdAddFinalizer(p)
          \/ EnvFound(p) \/ EnvMissing(p)
          \/ \E m \in pending[KindOf[p]] : m[1] = p /\ PatchPending(p, m[2])
    BY DEF ProdStep
  <1> DEFINE c == Cached(prodLog[p])
             now == Current(prodLog[p])
  <1>2. /\ KindOf[p] \in Kinds
        /\ c \in ProdVersion
        /\ ProdSound(c)
        /\ now \in ProdVersion
        /\ ProdSound(now)
    BY ProdEnds DEF Kinds
  <1>3. CASE ProdNotFound(p) \/ EnvFound(p)
    BY <1>3 DEF ProdNotFound, EnvFound, ProdDequeue
  <1>4. CASE ProdRemoveFinalizer(p)
    <2>1. ProdGone(c.rv) \in ProdVersion /\ ProdSound(ProdGone(c.rv))
      BY <1>2, ProdGoneVersion DEF ProdVersion
    <2>2. ProdLogsOK'
      BY <1>4, <2>1, WriteProdLog DEF ProdRemoveFinalizer
    <2> QED
      BY <1>4, <2>2 DEF ProdRemoveFinalizer, ProdDequeue
  <1>5. CASE ProdAddFinalizer(p)
    <2> DEFINE new == [c EXCEPT !.fin = TRUE]
    <2>1. new \in ProdVersion /\ ProdSound(new)
      BY <1>2 DEF ProdVersion, ProdSound
    <2>2. WriteProd(p, new)
      BY <1>5 DEF ProdAddFinalizer
    <2> HIDE DEF new
    <2>3. ProdLogsOK'
      BY <1>2, <2>1, <2>2, WriteProdLog
    <2> QED
      BY <1>5, <2>3 DEF ProdAddFinalizer
  <1>6. CASE EnvMissing(p)
    <2>1. {<<p, c>>} \in SUBSET (Products \X ProdVersion)
      BY <1>2
    <2>2. ProdTypeOK'
      BY <1>2, <1>6, <2>1 DEF EnvMissing, ProdTypeOK
    <2> QED
      BY <1>6, <2>2 DEF EnvMissing, ProdDequeue
  <1>7. ASSUME NEW m \in pending[KindOf[p]], PatchPending(p, m[2])
        PROVE  TypeInv'
    <2> DEFINE new == [now EXCEPT !.phase = Patched(@, m[2].phase, "Pending")]
    <2>1. new \in ProdVersion /\ ProdSound(new)
      BY <1>2 DEF Patched, ProdVersion, ProdSound
    <2>2. WriteProd(p, new) \/ prodLog' = prodLog
      BY <1>7 DEF PatchPending
    <2> HIDE DEF new
    <2>3. ProdLogsOK'
      BY <1>2, <2>1, <2>2, WriteProdLog
    <2>4. ProdTypeOK'
      BY <1>7 DEF PatchPending, ProdTypeOK
    <2>5. faults' \in [FaultKinds -> Nat]
      BY <1>7, FaultType DEF PatchPending, FaultKinds
    <2> QED
      BY <1>7, <2>3, <2>4, <2>5 DEF PatchPending
  <1> QED
    BY <1>1, <1>3, <1>4, <1>5, <1>6, <1>7

LEMMA DeliverType ==
  ASSUME TypeInv, Deliver, UNCHANGED <<envVars, prodVars, chart, ops>>
  PROVE  TypeInv'
  <1> USE Parts, Frame DEF TypeParts
  <1>1. ASSUME NEW e \in Envs, DeliverEnv(e)
        PROVE  TypeInv'
    BY <1>1, DeliverEnvLog DEF DeliverEnv
  <1>2. ASSUME NEW p \in Products, DeliverProd(p)
        PROVE  TypeInv'
    <2>1. envQ' \subseteq Envs
      BY <1>2 DEF DeliverProd, enqueueFromEnvironmentRef
    <2> QED
      BY <1>2, <2>1, DeliverProdLog DEF DeliverProd
  <1> QED
    BY <1>1, <1>2 DEF Deliver

\* How a version that users write follows the one before it.
UserWrote(old, new) ==
  \/ ~old.live /\ new.live /\ ~new.fin /\ ~new.del
  \/ old.live /\ new.live /\ new.fin = old.fin /\ (old.del => new.del)
  \/ old.live /\ ~old.fin /\ ~new.live

\* What that does to the generation, and leaves of the status: an object is
\* created with the first generation, and each write is one more.
UserCounted(old, new) ==
  \/ ~new.live /\ new = EnvGone(old.rv)
  \/ /\ new.live
     /\ new.gen = IF old.live THEN old.gen + 1 ELSE 1
     /\ new.obs = old.obs /\ new.phase = old.phase

LEMMA UserWrites ==
  ASSUME TypeInv, UserStep
  PROVE  /\ \/ /\ prodLog' = prodLog
               /\ \E e \in Envs, v \in EnvVersion :
                    /\ EnvSound(v)
                    /\ UserWrote(Current(envLog[e]), v)
                    /\ UserCounted(Current(envLog[e]), v)
                    /\ WriteEnv(e, v)
            \/ /\ envLog' = envLog
               /\ \E p \in Products, v \in ProdVersion :
                    ProdSound(v) /\ WriteProd(p, v)
         /\ UserUnchanged
         /\ ops' = ops + 1
  <1> USE Parts DEF TypeParts
  <1>1. ASSUME NEW e \in Envs, NEW s \in Specs, CreateEnv(e, s)
        PROVE  \E v \in EnvVersion : /\ EnvSound(v)
                                     /\ UserWrote(Current(envLog[e]), v)
                                     /\ UserCounted(Current(envLog[e]), v)
                                     /\ WriteEnv(e, v)
    <2> DEFINE now == Current(envLog[e])
               v == [now EXCEPT !.live = TRUE, !.spec = s, !.gen = 1]
    <2>1. now \in EnvVersion /\ EnvSound(now)
      BY EnvEnds
    <2>2. v \in EnvVersion /\ EnvSound(v) /\ UserWrote(now, v) /\ UserCounted(now, v)
      BY <1>1, <2>1 DEF CreateEnv, EnvVersion, EnvSound, UserWrote, UserCounted
    <2>3. WriteEnv(e, v)
      BY <1>1 DEF CreateEnv
    <2> HIDE DEF v
    <2> QED
      BY <2>2, <2>3
  <1>2. ASSUME NEW e \in Envs, NEW s \in Specs, EditEnv(e, s)
        PROVE  \E v \in EnvVersion : /\ EnvSound(v)
                                     /\ UserWrote(Current(envLog[e]), v)
                                     /\ UserCounted(Current(envLog[e]), v)
                                     /\ WriteEnv(e, v)
    <2> DEFINE now == Current(envLog[e])
               v == [now EXCEPT !.spec = s, !.gen = @ + 1]
    <2>1. now \in EnvVersion /\ EnvSound(now)
      BY EnvEnds
    <2>2. v \in EnvVersion /\ EnvSound(v) /\ UserWrote(now, v) /\ UserCounted(now, v)
      <3>1. now.live /\ now.gen + 1 \in Nat
        BY <1>2, <2>1 DEF EditEnv, EnvVersion
      <3>2. v \in EnvVersion
        BY <2>1, <3>1 DEF EnvVersion
      <3>3. /\ v.live /\ v.spec = s /\ v.fin = now.fin /\ v.del = now.del
            /\ v.gen = now.gen + 1 /\ v.obs = now.obs /\ v.phase = now.phase
        BY <2>1, <3>1 DEF EnvVersion
      <3> HIDE DEF v
      <3> QED
        BY <3>1, <3>2, <3>3 DEF EnvSound, UserWrote, UserCounted
    <2>3. WriteEnv(e, v)
      BY <1>2 DEF EditEnv
    <2> HIDE DEF v
    <2> QED
      BY <2>2, <2>3
  <1>3. ASSUME NEW e \in Envs, DeleteEnv(e)
        PROVE  \E v \in EnvVersion : /\ EnvSound(v)
                                     /\ UserWrote(Current(envLog[e]), v)
                                     /\ UserCounted(Current(envLog[e]), v)
                                     /\ WriteEnv(e, v)
    <2> DEFINE now == Current(envLog[e])
               v == IF now.fin THEN [now EXCEPT !.del = TRUE, !.gen = @ + 1]
                               ELSE EnvGone(now.rv)
    <2>1. now \in EnvVersion /\ EnvSound(now)
      BY EnvEnds
    <2>2. v \in EnvVersion /\ EnvSound(v) /\ UserWrote(now, v) /\ UserCounted(now, v)
      <3> DEFINE dying == [now EXCEPT !.del = TRUE, !.gen = @ + 1]
      <3>0. now.live /\ now.rv \in Nat /\ now.gen + 1 \in Nat
        BY <1>3, <2>1 DEF DeleteEnv, EnvVersion
      <3>1. /\ dying \in EnvVersion
            /\ dying.live /\ dying.fin = now.fin /\ dying.del
            /\ dying.spec = now.spec /\ dying.gen = now.gen + 1
            /\ dying.obs = now.obs /\ dying.phase = now.phase
        BY <2>1, <3>0 DEF EnvVersion
      <3>2. EnvGone(now.rv) \in EnvVersion /\ EnvSound(EnvGone(now.rv))
            /\ ~EnvGone(now.rv).live
        BY <3>0, EnvGoneVersion
      <3> HIDE DEF dying
      <3>3. CASE now.fin
        <4>1. v = dying
          BY <3>3 DEF dying
        <4> QED
          BY <2>1, <3>0, <3>1, <4>1 DEF UserWrote, UserCounted, EnvSound
      <3>4. CASE ~now.fin
        <4>1. v = EnvGone(now.rv)
          BY <3>4
        <4> HIDE DEF v
        <4> QED
          BY <3>0, <3>2, <3>4, <4>1 DEF UserWrote, UserCounted
      <3> QED
        BY <3>3, <3>4
    <2>3. WriteEnv(e, v)
      BY <1>3 DEF DeleteEnv
    <2> HIDE DEF v
    <2> QED
      BY <2>2, <2>3
  <1>4. ASSUME NEW p \in Products, NEW s \in Specs, NEW e \in Envs,
               CreateProd(p, s, e) \/ EditProd(p, s, e)
        PROVE  \E v \in ProdVersion : ProdSound(v) /\ WriteProd(p, v)
    <2> DEFINE now == Current(prodLog[p])
               v == [now EXCEPT !.live = TRUE, !.spec = s, !.ref = e]
               w == [now EXCEPT !.spec = s, !.ref = e]
    <2>1. now \in ProdVersion /\ ProdSound(now)
      BY ProdEnds
    <2>2. /\ v \in ProdVersion /\ ProdSound(v)
          /\ w \in ProdVersion /\ ProdSound(w)
      BY <2>1 DEF ProdVersion, ProdSound
    <2>3. WriteProd(p, v) \/ WriteProd(p, w)
      BY <1>4 DEF CreateProd, EditProd
    <2> HIDE DEF v, w
    <2> QED
      BY <2>2, <2>3
  <1>5. ASSUME NEW p \in Products, DeleteProd(p)
        PROVE  \E v \in ProdVersion : ProdSound(v) /\ WriteProd(p, v)
    <2> DEFINE now == Current(prodLog[p])
               v == IF now.fin THEN [now EXCEPT !.del = TRUE] ELSE ProdGone(now.rv)
    <2>1. now \in ProdVersion /\ ProdSound(now)
      BY ProdEnds
    <2>2. v \in ProdVersion /\ ProdSound(v)
      <3>1. now.rv \in Nat
        BY <2>1 DEF ProdVersion
      <3>2. [now EXCEPT !.del = TRUE] \in ProdVersion
            /\ ProdSound([now EXCEPT !.del = TRUE])
        BY <2>1 DEF ProdVersion, ProdSound
      <3> QED
        BY <3>1, <3>2, ProdGoneVersion
    <2>3. WriteProd(p, v)
      BY <1>5 DEF DeleteProd
    <2> HIDE DEF v
    <2> QED
      BY <2>2, <2>3
  <1>6. UserUnchanged /\ ops' = ops + 1
    BY DEF UserStep, CreateEnv, EditEnv, DeleteEnv, CreateProd, EditProd,
           DeleteProd, UserOp
  <1>7. CASE \E e \in Envs : \/ \E s \in Specs : CreateEnv(e, s) \/ EditEnv(e, s)
                             \/ DeleteEnv(e)
    <2>1. prodLog' = prodLog
      BY <1>7 DEF CreateEnv, EditEnv, DeleteEnv
    <2> QED
      BY <1>1, <1>2, <1>3, <1>6, <1>7, <2>1
  <1>8. CASE \E p \in Products :
               \/ \E s \in Specs, e \in Envs : CreateProd(p, s, e) \/ EditProd(p, s, e)
               \/ DeleteProd(p)
    <2>1. envLog' = envLog
      BY <1>8 DEF CreateProd, EditProd, DeleteProd
    <2> QED
      BY <1>4, <1>5, <1>6, <1>8, <2>1
  <1> QED
    BY <1>7, <1>8 DEF UserStep

LEMMA UserType ==
  ASSUME TypeInv, UserStep
  PROVE  TypeInv'
  <1> USE Parts, Frame DEF TypeParts
  <1>1. EnvLogsOK' /\ ProdLogsOK'
    BY UserWrites, WriteEnvLog, WriteProdLog
  <1>2. ops' \in Nat
    BY UserWrites
  <1> QED
    BY <1>1, <1>2, UserWrites DEF UserUnchanged

\* After a crash each log is its last version.
LEMMA CrashLogs ==
  ASSUME TypeInv, Crash
  PROVE  /\ EnvLogsOK' /\ ProdLogsOK'
         /\ \A e \in Envs : /\ envLog'[e] = <<Current(envLog[e])>>
                            /\ Current(envLog'[e]) = Current(envLog[e])
                            /\ Cached(envLog'[e]) = Current(envLog[e])
                            /\ Len(envLog'[e]) = 1
  <1> USE Parts DEF TypeParts
  <1>1. ASSUME NEW S, NEW x \in S
        PROVE  /\ <<x>> \in Seq(S) /\ <<x>> # <<>> /\ Len(<<x>>) = 1
               /\ \A i \in 1 .. Len(<<x>>) : <<x>>[i] = x
               /\ Current(<<x>>) = x /\ Cached(<<x>>) = x
    BY DEF Current, Cached
  <1>2. \A e \in Envs : envLog'[e] = <<Current(envLog[e])>>
    BY DEF Crash
  <1>3. EnvLogsOK'
    BY <1>1, <1>2, EnvEnds DEF Crash, EnvLogsOK
  <1>4. ProdLogsOK'
    BY <1>1, ProdEnds DEF Crash, ProdLogsOK
  <1> QED
    BY <1>1, <1>2, <1>3, <1>4, EnvEnds

LEMMA CrashType ==
  ASSUME TypeInv, Crash
  PROVE  TypeInv'
  <1> USE Parts, Frame DEF TypeParts
  <1>1. ProdTypeOK'
    BY DEF Crash, ProdTypeOK
  <1>2. envQ' \subseteq Envs /\ prodQ' \subseteq Products
    BY ProdEnds DEF Crash, ProdSound
  <1>3. faults' \in [FaultKinds -> Nat]
    BY FaultType DEF Crash, FaultKinds
  <1>4. ChartTypeOK'
    BY DEF Crash, ChartTypeOK
  <1> QED
    BY <1>1, <1>2, <1>3, <1>4, CrashLogs, ReturnType DEF Crash

LEMMA InitType == Init => TypeInv
  <1> SUFFICES ASSUME Init PROVE TypeInv
    OBVIOUS
  <1> USE DEF Init
  <1>1. ASSUME NEW S, NEW x \in S
        PROVE  <<x>> \in Seq(S) /\ <<x>> # <<>> /\ \A i \in 1 .. Len(<<x>>) : <<x>>[i] = x
    OBVIOUS
  <1>2. EnvLogsOK
    BY <1>1, EnvGoneVersion DEF ClusterInit, EnvLogsOK
  <1>3. ProdLogsOK
    BY <1>1, ProdGoneVersion DEF ClusterInit, ProdLogsOK
  <1>4. release \in [Releases -> Release]
    BY DEF ClusterInit, NoRelease, NoValues, Release, Statuses
  <1>5. EnvTypeOK
    BY NotListedType, EnvGoneVersion DEF EnvInit, EnvTypeOK, Steps
  <1>6. ProdTypeOK
    BY DEF ProdInit, ProdTypeOK
  <1> QED
    BY <1>2, <1>3, <1>4, <1>5, <1>6, Parts
       DEF TypeParts, ClusterInit, ChartInit, ChartTypeOK

LEMMA StepType ==
  ASSUME TypeInv, [Next]_vars
  PROVE  TypeInv'
  <1>1. CASE EnvStep /\ UNCHANGED <<prodVars, ops>>
    BY <1>1, ReconcileType, DownloadType, DeployType, StatusType, DeletionType
       DEF EnvStep
  <1>2. CASE ProdStep /\ UNCHANGED <<envVars, chart, ops>>
    BY <1>2, ProdStepType
  <1>3. CASE Deliver /\ UNCHANGED <<envVars, prodVars, chart, ops>>
    BY <1>3, DeliverType
  <1>4. CASE UserStep
    BY <1>4, UserType
  <1>5. CASE Crash
    BY <1>5, CrashType
  <1>6. CASE UNCHANGED vars
    BY <1>6, Parts, Frame DEF TypeParts, vars, clusterVars
  <1> QED
    BY <1>1, <1>2, <1>3, <1>4, <1>5, <1>6 DEF Next

\* The type invariant holds in every state the operator reaches, whatever the
\* faults and the number of resources.
THEOREM TypeCorrect == Spec => []TypeOK
  <1>1. Init => TypeInv
    BY InitType
  <1>2. TypeInv /\ [Next]_vars => TypeInv'
    BY StepType
  <1>3. TypeInv => TypeOK
    BY DEF TypeInv
  <1> QED
    BY <1>1, <1>2, <1>3, PTL DEF Spec
=============================================================================
