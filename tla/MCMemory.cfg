CONSTANTS
    MaxFrame = 16
    MaxProc = 3
    ImagePages = 1
    StackPages = 1
    MmapPages = 1
    BrkPages = 2
VIEW MemView
SPECIFICATION MemSpec
INVARIANTS
    OnePlace
    InUseIsMapped
    NothingLost
PROPERTIES
    PagesStay
CHECK_DEADLOCK FALSE
