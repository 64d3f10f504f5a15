CONSTANTS
    NThreads = 3
    Tries = 2
    MsgLen = 2
SPECIFICATION Spec
INVARIANTS
    TypeOK
    NoByteLost
    BlocksWhole
    NoUseAfterFree
PROPERTIES
    ImplementsLog
    Termination
