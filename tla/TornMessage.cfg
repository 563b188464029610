SPECIFICATION Spec
CONSTANTS
    s1 = s1
    s2 = s2
    p1 = p1
    p2 = p2
    fA = fA
    tA = tA
    tB = tB
    All = All
    Subs <- MCSubsOne
    Pubs <- MCPubsOne
    Filters <- MCFilters
    Topics <- MCTopics
    Covers <- MCCovers
    Hwms = {1, 2}
    MaxCalls = 3
    MaxDrops = 1
    MaxMsgs = 3
    MaxParts = 2
    MidMessage = TRUE
INVARIANT AtomicDelivery
CHECK_DEADLOCK FALSE
