SPECIFICATION FairSpec
CONSTANTS
    p1 = p1
    p2 = p2
    c1 = c1
    c2 = c2
    NULL = NULL
    Threads <- MCThreads
    Producers <- MCProducers
    Consumers <- MCConsumers
    Pushes <- MCPushes
    Pulls <- MCPulls
    Nodes = {n1, n2, n3}
    max_size = 2
    MaxSpurious = 1
INVARIANTS ListOK NoLeak DestroyOK NoLostWakeup
PROPERTIES ImplementsFifo Termination
CHECK_DEADLOCK FALSE
