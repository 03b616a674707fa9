CONSTANTS
    HeapSize = 26
    Header = 3
    MaxRequest = 5
SPECIFICATION HeapSpec
INVARIANTS
    BlocksTile
    FreeListIsWhole
    FreeIsMerged
PROPERTIES
    ImplementsAllocator
