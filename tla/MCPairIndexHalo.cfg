SPECIFICATION Spec
CONSTANTS
  NRanks = 2
  NLocs = 2
  Levels = 2
  Kinds = {"general"}
INVARIANT PairIndex
