SPECIFICATION FdSpec
CONSTANTS
    Capacity = 2
    PipeBuf = 1
    MaxFd = 5
    MaxBytes = 3
    BufSize = 2
INVARIANTS
    FdTypeOK
    Plumbing
    Output
PROPERTY
    Counts
