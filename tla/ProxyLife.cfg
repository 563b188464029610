SPECIFICATION LifeSpec
CONSTANT Kinds = {"XPubSubProxy"}
INVARIANT SocketsOutliveThread
CHECK_DEADLOCK FALSE
