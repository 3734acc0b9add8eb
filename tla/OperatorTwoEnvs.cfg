\* Two environments share the worker, and users move a product between them.
SPECIFICATION Spec
CONSTANTS
  Envs = {e1, e2}
  Products = {p1}
  KindOf <- OneKind
  Specs = {s1}
  BadSpecs = {}
  Releases = {e1, e2}
  ReleaseOf <- OneName
  MaxFaults <- NoFaults
  MaxKinds = 1
  MaxOps = 4
INVARIANTS
  ListedGuarded
  QuietDeployed
  Awake
CHECK_DEADLOCK FALSE
