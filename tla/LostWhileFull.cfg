SPECIFICATION Spec
CONSTANTS
    MaxTries = 1
    ConnectTimeouts = FALSE
    Lingers = {"ever"}
PROPERTY DelimiterRead
CHECK_DEADLOCK FALSE
