\* Pipelined responses, as the example server sends them, and some that go
\* out with NULL headers.
SPECIFICATION Spec
\* Both ends stop when the connection is gone.
CHECK_DEADLOCK FALSE
CONSTANTS
    Kind = "response"
    Messages <- OneWithout
    InitialCapacity = 3
    MaxSent = 3
    WireCapacity = 12
INVARIANTS
    HangsUpLast
    BytesConserved
PROPERTIES
    ImplementsChannel
