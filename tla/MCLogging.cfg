\* Two processes that log in one directory.
SPECIFICATION Spec
\* Both processes end.
CHECK_DEADLOCK FALSE
CONSTANTS
    Process = {demo, demoserver}
    MaxLogged = 2
    MaxSecond = 2
    MaxDepth = 3
SYMMETRY Symmetry
INVARIANTS
    TypeOK
    MessagesKept
    ReasonOnDisk
    AssertsIfRefused
    ClosedLast
