\* A server that may be started again, and two clients.
SPECIFICATION FairSpec
\* Both programs may have been killed.
CHECK_DEADLOCK FALSE
CONSTANTS
    Client = {c, d}
    Localhost <- IPv6First
    Wildcard <- IPv4First
    Serves <- Reached
    MaxInstances = 2
INVARIANTS
    TypeOK
    AnswersOwnRequest
PROPERTIES
    ChannelsKept
    Served
