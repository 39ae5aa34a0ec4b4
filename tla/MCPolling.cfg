\* A server and a client that keep polling: three connections and two descriptors.
SPECIFICATION FairSpec
CONSTANTS
    Pointer = {p, q}
    Descriptor = {d, e}
    NULL = NULL
    Roles = {"client", "listening", "unbound"}
    AcceptBlocks = TRUE
    InitialCapacity = 1
    MaxPeers = 3
    MaxPackets = 1
PROPERTIES
    PollReturns
    EndsNoticed
