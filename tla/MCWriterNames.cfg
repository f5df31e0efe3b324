SPECIFICATION Spec
CONSTANTS
  NRanks = 2
  PatchVectors <- TwoPatches
  MaxPoolSizes = {0, 1}
  Variables <- OneVariable
  StringLengths = {1}
  TimeRanks <- FirstTime
  varNumTagFactor = 1
INVARIANT OriginalNames
