SPECIFICATION LibrarySpec
CONSTANTS
    Parts = {"hnsw"}
    Formats <- SameChannels
    Conversations = {"c1"}
    MaxFaults = 1
    MaxTime = 8
    Vectors <- Line4
    \* the RingBuffer
    Thread = {"t1", "t2"}
    Value = {"a", "b"}
    Error = {"e"}
    None = None
    Capacity = 2
    CounterMod = 8
    WriteData <- RingBatches
    ReadLen = {0, 1, 2}
INVARIANTS CrowdedIsFound
CHECK_DEADLOCK FALSE
