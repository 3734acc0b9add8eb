\* The operator dies while Helm installs.
SPECIFICATION FairSpec
CONSTANTS
  Envs = {e1}
  Products = {}
  KindOf <- OneKind
  Specs = {s1}
  BadSpecs = {}
  Releases = {e1}
  ReleaseOf <- OneName
  MaxFaults <- Crashes
  MaxKinds = 1
  MaxOps = 1
PROPERTIES
  FailedRecovers
CHECK_DEADLOCK FALSE
