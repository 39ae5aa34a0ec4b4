\* Two http objects, clients or servers, in one process.
SPECIFICATION Spec
\* The process may end.
CHECK_DEADLOCK FALSE
CONSTANTS
    Http = {a, b}
    Builds = {"debug", "release"}
    MaxDescriptor = 3
    MaxAddresses = 2
SYMMETRY Symmetry
INVARIANTS
    TypeOK
    DescriptorsOwned
    AcceptsOwn
    FaultNeedsList
