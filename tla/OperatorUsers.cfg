\* One environment and one product, created, edited, deleted and created again
\* by users; no faults.
SPECIFICATION Spec
CONSTANTS
  Envs = {e1}
  Products = {p1}
  KindOf <- OneKind
  Specs = {s1, s2}
  BadSpecs = {s2}
  Releases = {e1}
  ReleaseOf <- OneName
  MaxFaults <- NoFaults
  MaxKinds = 1
  MaxOps = 4
INVARIANTS
  ReadyDeployed
  QuietDeployed
  QuietReported
CHECK_DEADLOCK FALSE
