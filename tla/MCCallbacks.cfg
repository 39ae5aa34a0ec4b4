\* Three layers whose callbacks add, remove and raise events.
SPECIFICATION Spec
CONSTANTS
    Layer = {a, b, c}
    Phase = {0}
    Context = {}
    NULL = NULL
    InitialCapacity = 1
    Rules = {}
    Used = {"add", "remove", "bind", "event", "destroy"}
    MaxBindings = 1
    MaxAttached = 3
    MaxDepth = 4
    MaxCalls = 2
SYMMETRY LayerSymmetry
INVARIANTS
    TeardownDetachesAll
PROPERTIES
    DispatchReachesAll
