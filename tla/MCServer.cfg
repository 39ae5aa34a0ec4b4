\* A server whose handlers also connect, and a client: three connections.
SPECIFICATION Spec
CONSTANTS
    Pointer = {p, q, r}
    Descriptor = {d, e, f}
    NULL = NULL
    Roles = {"client", "listening"}
    AcceptBlocks = TRUE
    InitialCapacity = 1
    MaxPeers = 3
    MaxPackets = 1
SYMMETRY Symmetry
INVARIANTS
    TypeOK
    TableSound
    DescriptorsAccounted
PROPERTIES
    PollVisitsAll
