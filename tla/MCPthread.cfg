CONSTANTS
    MaxTasks = 5
    ScanLimit = 4
    Addr <- MCAddr
    SpaceOf <- OneProcess
    Killable = {4}
    MaxRounds = 4
    MaxSeq = 1
SPECIFICATION FairPthreadSpec
INVARIANTS
    QueueIsSleepers
    NoLostWakeup
    BroadcastMissesNobody
PROPERTIES
    ImplementsLock
    GetsTheMutex
