SPECIFICATION Spec
CONSTANTS
    Width = 2
    MaxReports = 3
    MaxRows = 3
    MaxHandles = 3
CHECK_DEADLOCK FALSE
INVARIANTS
    ReportsInPlace
    NamesResolved
    RowsMatch
    CellsDecoded
    ObservationTimesKept
    UpgradedFileSound
    PutIsGot
    OthersKept
    HandlesReliable
    DistributionInvisible
    ValuesFollowNames
    StorageKept
    NumbersKeepUnits
    VerdictRight
    KeysDecide
    RecordIndexRight
    CompanionsRight
