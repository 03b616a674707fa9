CONSTANTS
    MaxTasks = 5
    ScanLimit = 4
SPECIFICATION CtxSpec
INVARIANTS
    OwnSpace
