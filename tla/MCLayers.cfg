\* Two layers on two phases, and a client that may break every rule.
SPECIFICATION Spec
CONSTANTS
    Layer = {a, b}
    Phase = {0, 1}
    Context = {}
    NULL = NULL
    InitialCapacity = 1
    Rules = {}
    Used = {"add", "remove", "bind", "event"}
    MaxBindings = 2
    MaxAttached = 2
    MaxDepth = 4
    MaxCalls = 2
SYMMETRY LayerSymmetry
INVARIANTS
    TypeOK
    NoOverrun
    PhasesSorted
    BucketsMatchRegistry
    MemorySafe
PROPERTIES
    FrameCallsEachBinding
    DetachedNeverCalled
