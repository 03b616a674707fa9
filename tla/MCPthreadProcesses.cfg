CONSTANTS
    MaxTasks = 6
    ScanLimit = 5
    Addr <- MCAddr
    SpaceOf <- TwoProcesses
    Killable = {}
    MaxRounds = 4
    MaxSeq = 0
SPECIFICATION PthreadSpec
INVARIANTS
    NoLostWakeup
