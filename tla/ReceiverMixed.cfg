SPECIFICATION Spec
CONSTANTS
    p1 = p1
    p2 = p2
    p3 = p3
    tA = tA
    tB = tB
    Pubs <- MCPubsThree
    Topics <- MCTopicsOne
    Cap = 1
    MaxParts = 2
    Ids = 2
    Careful = TRUE
INVARIANT OneMessage
SYMMETRY MCSymmetry
CHECK_DEADLOCK FALSE
