SPECIFICATION Spec
CONSTANTS
  Step <- MCStep
  Group = {g}
  MaxBurstConcurrent = 2
INVARIANTS
  TypeOK
  DependenciesFirst
  FailureSpreads
  WavesAreDepths
