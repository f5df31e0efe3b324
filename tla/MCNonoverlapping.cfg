SPECIFICATION Spec
CONSTANTS
  NRanks = 3
  NLocs = 3
INVARIANTS
    GatherIndex
PROPERTIES
    ImplementsDistribution
