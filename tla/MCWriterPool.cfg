SPECIFICATION Spec
CONSTANTS
  NRanks = 3
  PatchVectors <- SomePatches
  MaxPoolSizes = {0, 1, 2}
  Variables <- MixedVariables
  StringLengths = {0, 2}
  TimeRanks <- NoTime
  varNumTagFactor = 1
INVARIANTS
  TilesInOrder
  PoolConsistent
PROPERTY SaveReturns
