SPECIFICATION FairSpec
CONSTANTS
    Root = Root
    NULL = NULL
    a = a
    b = b
    c = c
    d = d
    cmd = cmd
    fails = fails
    NoName = NoName
    Rules <- MCRules
    Workers = {1, 2}
    Scenarios <- MCScenarios
INVARIANTS ParsesMakefile DropsExactlyCyclicGoals DependenciesFirst QuitMeansBuilt FailureSpreads
PROPERTIES TerminatesWithoutRace
CHECK_DEADLOCK FALSE
