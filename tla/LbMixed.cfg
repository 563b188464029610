SPECIFICATION LbSpec
CONSTANTS
    LbPipes = {"p1", "p2", "p3"}
    Hwm = 1
    MaxParts = 2
    LbIds = 2
INVARIANT WholePerPeer
