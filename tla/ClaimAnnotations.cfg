\* An override that adds an annotation to those of a service or an ingress.
SPECIFICATION Spec
CONSTANT
  Inputs <- AnnotationInputs
  Merge <- mergeMaps
  LeafPaths <- leafPaths
INVARIANT
  AnnotationsKept
CHECK_DEADLOCK FALSE
