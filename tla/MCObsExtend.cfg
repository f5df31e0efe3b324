SPECIFICATION Spec
CONSTANTS
  NRanks = 3
  NLocs = 2
  Levels = 2
  Kinds = {"nonoverlapping", "identity", "general"}
INVARIANTS
    NumbersAgree
    ExtendedOnce
    ExtendedIndices
PROPERTIES
    Completes
