--------------------------- MODULE MCPingOperator ---------------------------
(***************************************************************************)
(* Small instances of the operator.  Every kind of fault strikes at most   *)
(* once in the instances that have it.                                     *)
(***************************************************************************)
EXTENDS OperatorClaims, TLC

\* Every environment has one release name of its own, whatever its spec.
OneName == [e \in Envs |-> [s \in Specs |-> e]]

\* The name of an environment's release is part of its spec.
NamePerSpec == [e \in Envs |-> [s \in Specs |-> s]]

OneKind == [p \in Products |-> 1]

Once(K) == [k \in FaultKinds |-> IF k \in K THEN 1 ELSE 0]

Interchangeable == Permutations(Products)

NoFaults == Once({})
CrashPatch == Once({"crash", "patch"})
DiskFails == Once({"disk"})
AllButList == Once(FaultKinds \ {"list"})
ListFails == Once({"list"})
ApplyFails == Once({"apply"})
Crashes == Once({"crash"})
=============================================================================
