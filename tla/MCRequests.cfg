\* Pipelined requests with headers.
SPECIFICATION FairSpec
\* Both ends stop when the connection is gone.
CHECK_DEADLOCK FALSE
CONSTANTS
    Kind = "request"
    Messages <- WithHeaders
    InitialCapacity = 4
    MaxSent = 3
    WireCapacity = 4
INVARIANTS
    TypeOK
    StreamsFit
PROPERTIES
    ImplementsChannel
    AllDelivered
