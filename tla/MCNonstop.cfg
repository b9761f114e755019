SPECIFICATION FairSpec
CONSTANTS
    c1 = c1
    c2 = c2
    c3 = c3
    f = f
    g = g
    x = x
    y = y
    Absent = Absent
    MaxStops = 1
    Clients <- MCClients
    Names <- MCNames
    Requests <- MCRequests
    Sessions <- MCSessions
INVARIANTS ListingAgrees NoPartialFile 
PROPERTIES Answered
CHECK_DEADLOCK FALSE
