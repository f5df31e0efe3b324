SPECIFICATION ReaderFairSpec
CONSTANTS
  NRanks = 1
  NLocs = 4
  NChans = 5
  MaxFrame = 3
  WindowStart = 0
  WindowEnd = 1
  SourceLoc <- Locations
INVARIANTS
    SourceReadOnce
    StoredWhole
PROPERTIES
    ReadsAll
