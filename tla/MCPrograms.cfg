SPECIFICATION ProgramsSpec
CONSTANTS
    t1 = t1
    t2 = t2
    t3 = t3
    t4 = t4
    Threads <- MCThreads
    n_threads = 4
    Waits = 4
    MaxSpurious = 1
    Waiters <- MCWaiters
    Posters <- MCPosters
    Calls <- MCCalls
    Inits <- MCInits
    None = None
    Crackers <- MCCrackers
    Strings1 = 4
    Inputs1 <- MCInputs1
    num_searchers = 2
    Strings2 = 3
    Inputs2 <- MCInputs2
    ReduceCalls <- MCReduceCalls
    num_mappers = 2
    Pieces = 2
    Capacity = 1
    MaxMessages = 2
    Exercised = {"barrier", "semamore", "chat client", "cracker1", "cracker2", "mapreduce", "par_reduce"}
INVARIANTS NoEarlyExit SemamoreAccounted WorkDivided  
PROPERTIES SyncReturns ProgramsEnd
CHECK_DEADLOCK FALSE
