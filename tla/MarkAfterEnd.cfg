SPECIFICATION Spec
CONSTANTS
    Kinds = {"push"}
    Marks = {1, 2}
    Careful = FALSE
    Unbinds = {}
    MaxMsgs <- MCMaxMsgs
    MaxLosses = 1
INVARIANT NoFailure
CHECK_DEADLOCK FALSE
