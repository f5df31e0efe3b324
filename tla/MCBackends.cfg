SPECIFICATION Spec
CONSTANTS
    Vars <- TestVars
    NLocs = 2
    MaxLocs = 3
    NChans = 2
    MaxOps = 3
    NetcdfFill = 9
CHECK_DEADLOCK FALSE
INVARIANTS
    BackendsInterchangeable
    ScalesMatch
    ReferenceListsMatch
    CopiesFaithful
