CONSTANTS
    Names = {a, b}
    LastBlock = 4
    LastInode = 2
    DirectPtrs = 2
    Vnode = {v, w}
    Part = {p, q}
    MaxFaults = 1
    MaxCuts = 1
SYMMETRY Symmetry
VIEW Ext2View
SPECIFICATION Ext2Spec
INVARIANTS
    OneOwner
    NameHasFile
    NoneHidden
    AckedIsOnDisk
    OneName
CHECK_DEADLOCK FALSE
