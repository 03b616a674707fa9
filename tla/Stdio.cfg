CONSTANTS
    Byte = {1, 2}
    BUFSIZ = 2
    MaxSize = 3
    MaxCall = 3
    MaxFaults = 1
    MemStart = 2
    MaxMem = 8
SPECIFICATION StdioSpec
INVARIANTS
    EofAtEnd
    MemStreamShown
PROPERTIES
    ImplementsStream
