CONSTANTS
    MaxPipes = 1
    PIPE_BUF_SIZE = 2
    Proc = {a, b}
    MAX_FDS = 5
    MaxVnodes = 3
    MaxBytes = 2
    MaxDups = 0
SPECIFICATION FairVfsSpec
PROPERTIES
    ReaderSeesEof
CHECK_DEADLOCK FALSE
