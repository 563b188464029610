SPECIFICATION Spec
CONSTANTS
    Kinds = {"sub", "push", "other"}
    Marks = {1, 3}
    Careful = TRUE
    Unbinds = {"sub"}
    MaxMsgs <- MCMaxMsgs
    MaxLosses = 1
INVARIANTS NoFailure NoDangling Bounded Lingers
PROPERTIES Refills Terminates
CHECK_DEADLOCK FALSE
