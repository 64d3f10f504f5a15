\* Everybody may wait for a signal that nobody sends.
CHECK_DEADLOCK FALSE
SPECIFICATION Spec
CONSTANTS
    Times = 3
    MaxSent = 2
INVARIANTS
    TypeOK
    CountsDelivered
    AsOftenAsSent
PROPERTY
    GoesOn
