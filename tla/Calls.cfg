SPECIFICATION CallsSpec
CONSTANTS
    Cap = 1
    Hwm = 3
    PollRate = 2
    Senders = {"s1", "s2", "s3"}
    Entries <- mailEntries
    MaxItems = 4
INVARIANTS CallsTold OneSignal NothingTooLate
PROPERTIES ImplementsYpipe TurnComes CallsEnd AllGo
CHECK_DEADLOCK FALSE
