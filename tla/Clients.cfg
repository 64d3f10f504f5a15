\* Up to three numbers, and room for one more request than that: ints in two parts.
CONSTANTS
    Size = 2
    MaxNumbers = 3
    MaxSent = 4
    MaxCopies = 1
    HelloClients = {1, 2}
SPECIFICATION Spec
INVARIANTS
    TypeOK
    RepliesMatch
PROPERTY
    Ends
