CONSTANTS
    MaxTasks = 5
    ScanLimit = 4
SPECIFICATION CtxSpec
INVARIANTS
    OneRunning
    RingIsCycle
    ReadyIsFound
    UserStackOwn
    KernelStackOwn
    FsOwn
    Cr3Own
    OwnSpaceWithoutThreads
PROPERTIES
    DeadStaysDead
