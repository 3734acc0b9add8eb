\* The releases cannot be listed while an environment is deleted.
SPECIFICATION Spec
CONSTANTS
  Envs = {e1}
  Products = {}
  KindOf <- OneKind
  Specs = {s1}
  BadSpecs = {}
  Releases = {e1}
  ReleaseOf <- OneName
  MaxFaults <- ListFails
  MaxKinds = 1
  MaxOps = 2
INVARIANTS
  ListedGuarded
CHECK_DEADLOCK FALSE
