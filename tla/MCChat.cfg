SPECIFICATION FairSpec
CONSTANTS
    c1 = c1
    c2 = c2
    c3 = c3
    None = None
    Clients <- MCClients
    MAX_CLIENTS = 2
    Scenarios <- MCScenarios
INVARIANTS SlotsConsistent BroadcastsAgree
PROPERTIES ClosesItsOwn 
CHECK_DEADLOCK FALSE
