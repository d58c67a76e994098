SPECIFICATION LibrarySpec
CONSTANTS
    Parts = {"ogg", "resampler", "mp3", "native", "memory", "graph", "hnsw",
             "topics", "paths", "luau", "ring"}
    Formats <- SameChannels
    Conversations = {"c1"}
    MaxFaults = 1
    MaxTime = 4
    Vectors <- Line3
    \* the RingBuffer
    Thread = {"t1", "t2"}
    Value = {"a", "b"}
    Error = {"e"}
    None = None
    Capacity = 2
    CounterMod = 8
    WriteData <- RingBatches
    ReadLen = {0, 1, 2}
INVARIANTS WindowOK CodecsReadBack NativeSafe MemoryKept LookupsAnswer LuauRuns
PROPERTIES QueueSpec
CHECK_DEADLOCK FALSE
