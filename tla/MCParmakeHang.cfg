SPECIFICATION FairSpec
CONSTANTS
    Root = Root
    NULL = NULL
    a = a
    b = b
    c = c
    d = d
    cmd = cmd
    fails = fails
    NoName = NoName
    Rules <- MCRules
    Workers = {1, 2}
    Scenarios <- MCDiamond
PROPERTIES Terminates
CHECK_DEADLOCK FALSE
