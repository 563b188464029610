SPECIFICATION Spec
CONSTANTS
    Kinds = {"push"}
    Marks = {1}
    Careful = TRUE
    Unbinds = {"push"}
    MaxMsgs <- MCMaxMsgs
    MaxLosses = 1
INVARIANT NoFailure
CHECK_DEADLOCK FALSE
