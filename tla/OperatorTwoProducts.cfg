\* Two product CRs of one kind for one environment: the controller deploys
\* either.
SPECIFICATION Spec
CONSTANTS
  Envs = {e1}
  Products = {p1, p2}
  KindOf <- OneKind
  Specs = {s1}
  BadSpecs = {}
  Releases = {e1}
  ReleaseOf <- OneName
  MaxFaults <- NoFaults
  MaxKinds = 1
  MaxOps = 4
INVARIANTS
  QuietDeployed
  QuietReported
  Shown
CHECK_DEADLOCK FALSE
SYMMETRY Interchangeable
