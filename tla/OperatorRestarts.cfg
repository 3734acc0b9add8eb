\* One environment and one product; the operator dies once, at any step, and
\* one status patch of the product fails.
SPECIFICATION FairSpec
CONSTANTS
  Envs = {e1}
  Products = {p1}
  KindOf <- OneKind
  Specs = {s1}
  BadSpecs = {}
  Releases = {e1}
  ReleaseOf <- OneName
  MaxFaults <- CrashPatch
  MaxKinds = 2
  MaxOps = 3
INVARIANTS
  TypeOK
  Guarded
  Lasting
  QuietDeployed
  QuietReported
PROPERTIES
  Lifecycle
  ComesToRest
  WaitingShown
CHECK_DEADLOCK FALSE
