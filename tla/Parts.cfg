SPECIFICATION PartsSpec
CONSTANTS
    Entries <- ypipeEntries
    MaxItems = 4
    Chunks = {1, 2, 3, 4}
    NoChunk = 0
    ChunkSize = 2
    MaxElements = 5
    LbPipes = {"q1", "q2"}
    Hwm = 1
    MaxParts = 3
    LbIds = 2
    Kinds = {"Broker"}
    Clients = {"c1", "c2"}
    Workers = {"w1"}
    Lines = {1, 2}
    MaxFaults = 1
    WorkerHwm = 1
    ArgKinds = {"rectangle", "string", "vector", "literal", "count"}
    Cells = {0, 1}
    MaxLength = 1
    MaxArgs = 2
    OutPipes = {"p1", "p2", "p3"}
    Contents = {1, 2}
    NoContent = 0
    Cap = 1
    DistPipes = {"p1", "p2", "p3"}
    DistHwm = 1
    DistParts = 2
INVARIANTS
    NoLostWakeUp ChunksAccounted RequestsAccounted ReadsBack WholePerPeer FreedOnceByTheLast
    LastToGo Carried TablesAgree DistributedRight
PROPERTIES
    ImplementsFifo AllArrive EventuallyCurrent Served Closes
CHECK_DEADLOCK FALSE
