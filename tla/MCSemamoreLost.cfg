SPECIFICATION SyncSpec
CONSTANTS
    t1 = t1
    t2 = t2
    t3 = t3
    t4 = t4
    Threads <- MCThreads
    n_threads = 4
    Waits = 2
    MaxSpurious = 0
    Waiters <- MCWaiters
    Posters <- MCPosters
    Calls <- MCOneCall
    Inits <- MCTightInits
    Exercised = {"semamore"}
INVARIANTS PostersBlockAtMax
CHECK_DEADLOCK FALSE
