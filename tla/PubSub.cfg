SPECIFICATION Spec
CONSTANTS
    s1 = s1
    s2 = s2
    p1 = p1
    p2 = p2
    fA = fA
    tA = tA
    tB = tB
    All = All
    Subs <- MCSubsTwo
    Pubs <- MCPubsOne
    Filters <- MCFilters
    Topics <- MCTopics
    Covers <- MCCovers
    Hwms = {0, 1}
    MaxCalls = 3
    MaxDrops = 1
    MaxMsgs = 2
    MaxParts = 2
    MidMessage = FALSE
INVARIANTS TypeOK WholeMessages InOrder DistOK FiltersInstalled Agreement
PROPERTIES RoutesBySubscription ImplementsChannel
SYMMETRY MCSymmetry
CHECK_DEADLOCK FALSE
