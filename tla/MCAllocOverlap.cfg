SPECIFICATION StructuresSpec
CONSTANTS
    j1 = j1
    j2 = j2
    j3 = j3
    e1 = e1
    e2 = e2
    None = None
    Junk = Junk
    Exercised = {"alloc"}
    AllocSizes = {5, 40}
    AllocWords = {0, 999}
    MaxBreak = 128
    Addresses = {1, 2, 3}
    RequestSizes = {0, 1, 3}
    MaxCalls = 5
    Jobs = {j1, j2, j3}
    Workloads <- MCWorkloads
    MaxTime = 8
    Idle = Idle
    Pids = {0, 1}
    Pages <- MCPages
    Segmented <- MCSegmented
    Frames = {1, 2, 3, 4, 5, 6, 7, 8, 9, 10}
    TlbSize = 2
    Values = {7}
INVARIANTS BlocksLargeEnough
CHECK_DEADLOCK FALSE
