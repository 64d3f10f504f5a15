SPECIFICATION Spec
CONSTANT MaxInput = 4
INVARIANTS
    TypeOK
    OutputInOrder
    HeapSafe
PROPERTY
    Termination
