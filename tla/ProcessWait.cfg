CONSTANTS
    MaxTasks = 5
    ScanLimit = 4
    MaxProc = 3
    MaxPid = 3
    Named = {3}
    Killable = {}
SPECIFICATION FairProcSpec
PROPERTIES
    WantedChildIsReaped
