SPECIFICATION SmallSpec
CONSTANTS
  NRanks = 3
  NLocs = 3
  MaxDist = 2
  Radius <- SameRadius
INVARIANTS
    PatchPartition
    GatherIndex
PROPERTIES
    ImplementsDistribution
    Terminates
