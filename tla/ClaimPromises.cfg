\* A product whose reference, layers, dependencies and resources are, each, of
\* the sort that works or of the sort that does not.
SPECIFICATION Spec
CONSTANT
  Inputs <- PromiseInputs
  Merge <- mergeMaps
  LeafPaths <- leafPaths
INVARIANT
  SomePromiseKept
CHECK_DEADLOCK FALSE
