\* Whether a pipelined request still starts with its method.
SPECIFICATION Spec
\* Both ends stop when the connection is gone.
CHECK_DEADLOCK FALSE
CONSTANTS
    Kind = "request"
    Messages <- WithHeaders
    InitialCapacity = 4
    MaxSent = 2
    WireCapacity = 100
INVARIANTS
    MethodIntact
