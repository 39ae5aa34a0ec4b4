\* Whether a server that could bind no address still calls accept.
SPECIFICATION Spec
CONSTANTS
    Pointer = {p, q}
    Descriptor = {d, e}
    NULL = NULL
    Roles = {"client", "listening", "unbound"}
    AcceptBlocks = TRUE
    InitialCapacity = 1
    MaxPeers = 2
    MaxPackets = 1
INVARIANTS
    AcceptsAsServer
