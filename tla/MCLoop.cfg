\* A client that keeps the rules.
SPECIFICATION FairSpec
CONSTANTS
    Layer = {a, b}
    Phase = {0, 1}
    Context = {ctx}
    NULL = NULL
    InitialCapacity = 1
    Rules = {"bind_first", "bind_once", "phases_first", "add_once", "quiet_teardown"}
    Used = {"add", "remove", "bind", "context", "event", "destroy", "stop"}
    MaxBindings = 1
    MaxAttached = 2
    MaxDepth = 3
    MaxCalls = 2
INVARIANTS
    ContextFollowsPhase
PROPERTIES
    ImplementsLifecycle
    DestroyHonoured
    StopHonoured
