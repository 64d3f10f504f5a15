SPECIFICATION Spec
CONSTANTS
    Capacity = 5
    PipeBuf = 2
    Short = 2
    Long = 3
    Limit = 5
INVARIANTS
    TypeOK
    Delivered
    KilledOnlyAsOrphan
PROPERTIES
    Finishes
    NoOrphanWriter
