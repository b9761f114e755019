SPECIFICATION FairSpec
CONSTANTS
    NoThread = NoThread
    Threads = {t1, t2, t3}
    Drms = {d1, d2}
INVARIANTS RagMatchesOwners NoDeadlock SearchIsCorrect
PROPERTIES RefusalsJustified EveryWaitReturns
CHECK_DEADLOCK FALSE
