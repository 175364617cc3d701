SPECIFICATION Spec
CONSTANT Builds <- MCBuilds
INVARIANTS
  LeavesExact
  LloydExact
  TreeComplete
  OpenableComplete
  CardinalitySound
PROPERTY BuildEnds
