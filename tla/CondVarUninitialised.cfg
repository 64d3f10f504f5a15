CONSTANTS
    MsgLen = 3
    FlagBytes = {0, 1, 255}
    MaxSpurious = 2
SPECIFICATION Spec
INVARIANTS
    WaitsForData
