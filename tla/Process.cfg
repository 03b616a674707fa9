CONSTANTS
    MaxTasks = 6
    ScanLimit = 5
    MaxProc = 3
    MaxPid = 3
    Named = {}
    Killable = {4}
SPECIFICATION FairProcSpec
INVARIANTS
    OnePidEach
    OwnProcess
    ReapedByParent
    WaiterHasChild
PROPERTIES
    AnyChildIsReaped
    NoStarvation
