\* Overrides, ingresses, references, consoles, layered profiles, resources,
\* dependencies, annotations and raw extensions.
SPECIFICATION Spec
CONSTANT
  Inputs <- AllInputs
  Merge <- mergeMaps
  LeafPaths <- leafPaths
INVARIANTS
  TypeOK
  SectionsKept
  LastOverrideWins
  IngressesApart
  ReferenceKept
  ConsoleServed
  LayersTold
  ResourcesWhole
  WaitsResolved
CHECK_DEADLOCK FALSE
