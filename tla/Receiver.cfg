SPECIFICATION Spec
CONSTANTS
    p1 = p1
    p2 = p2
    p3 = p3
    tA = tA
    tB = tB
    Pubs <- MCPubsTwo
    Topics <- MCTopicsTwo
    Cap = 2
    MaxParts = 2
    Ids = 3
    Careful = TRUE
INVARIANTS OneMessage NothingLost PollKeepsWord NoAbort
SYMMETRY MCSymmetry
CHECK_DEADLOCK FALSE
