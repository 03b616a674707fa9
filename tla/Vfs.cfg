CONSTANTS
    MaxPipes = 1
    PIPE_BUF_SIZE = 2
    Proc = {a, b}
    MAX_FDS = 5
    MaxVnodes = 4
    MaxBytes = 3
    MaxDups = 1
SPECIFICATION FairVfsSpec
INVARIANTS
    ParkedVnodeLives
    NothingDangles
PROPERTIES
    PipesAreChannels
    WriterGoesOn
CHECK_DEADLOCK FALSE
