SPECIFICATION SyncSpec
CONSTANTS
    t1 = t1
    t2 = t2
    t3 = t3
    t4 = t4
    Threads <- MCThreads
    n_threads = 4
    Waits = 2
    MaxSpurious = 1
    Waiters <- MCWaiters
    Posters <- MCPosters
    Calls <- MCCalls
    Inits <- MCInits
    Exercised = {"barrier"}
INVARIANTS ReusableTestPasses
CHECK_DEADLOCK FALSE
