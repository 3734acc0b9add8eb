\* The disk is full when the chart is written to its file.
SPECIFICATION FairSpec
CONSTANTS
  Envs = {e1}
  Products = {}
  KindOf <- OneKind
  Specs = {s1}
  BadSpecs = {}
  Releases = {e1}
  ReleaseOf <- OneName
  MaxFaults <- DiskFails
  MaxKinds = 1
  MaxOps = 1
PROPERTIES
  FailedRecovers
CHECK_DEADLOCK FALSE
