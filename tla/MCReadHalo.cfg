SPECIFICATION ReadHaloSpec
CONSTANTS
  NRanks = 2
  NLocs = 2
  NChans = 1
  MaxFrame = 2
  WindowStart = 0
  WindowEnd = 1
  SourceLoc <- TwoKeys
  MaxDist = 1
  Radius <- ZeroRadius
INVARIANTS
    EveryObsOnce
PROPERTIES
    ImplementsHalo
    Finishes
