CONSTANTS
    K = 4
SPECIFICATION Spec
INVARIANTS
    TypeOK
    AddsUp
    PrintsAllOrNothing
PROPERTIES
    Termination
