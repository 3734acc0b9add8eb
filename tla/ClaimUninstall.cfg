\* Helm fails to delete the resources of a release.
SPECIFICATION Spec
CONSTANTS
  Envs = {e1}
  Products = {}
  KindOf <- OneKind
  Specs = {s1}
  BadSpecs = {}
  Releases = {e1}
  ReleaseOf <- OneName
  MaxFaults <- ApplyFails
  MaxKinds = 1
  MaxOps = 2
INVARIANTS
  GoneUninstalled
CHECK_DEADLOCK FALSE
