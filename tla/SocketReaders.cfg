\* Two streams, as the clients have, and up to two portions of data from each.
CONSTANTS
    N = 2
    MaxData = 2
SPECIFICATION Spec
\* read_data_and_count() waits for ever for a stream that is not in the epoll set.
CHECK_DEADLOCK FALSE
INVARIANTS
    TypeOK
    ReadsAll
PROPERTY
    Ends
