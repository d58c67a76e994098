SPECIFICATION LibrarySpec
CONSTANTS
    Parts = {"paths"}
    Formats <- SameChannels
    Conversations = {"c1"}
    MaxFaults = 1
    MaxTime = 8
    Vectors <- Line3
    \* the RingBuffer
    Thread = {"t1", "t2"}
    Value = {"a", "b"}
    Error = {"e"}
    None = None
    Capacity = 2
    CounterMod = 8
    WriteData <- RingBatches
    ReadLen = {0, 1, 2}
INVARIANTS HashCoversNone
CHECK_DEADLOCK FALSE
