\* One environment that users rename, one spec for each release name; any two
\* faults strike, but for a failed list of the releases.
SPECIFICATION FairSpec
CONSTANTS
  Envs = {e1}
  Products = {}
  KindOf <- OneKind
  Specs = {s1, s2}
  BadSpecs = {}
  Releases = {s1, s2}
  ReleaseOf <- NamePerSpec
  MaxFaults <- AllButList
  MaxKinds = 2
  MaxOps = 3
INVARIANTS
  Truthful
  ReadyDeployed
  QuietDeployed
PROPERTIES
  ObservedForward
  LastReleaseGone
  DeletionEnds
  Recovers
CHECK_DEADLOCK FALSE
