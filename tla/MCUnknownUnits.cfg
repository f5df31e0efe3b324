SPECIFICATION Spec
CONSTANTS
    Width = 2
    MaxReports = 3
    MaxRows = 3
    MaxHandles = 3
CHECK_DEADLOCK FALSE
INVARIANT UnknownUnitStored
