SPECIFICATION LibrarySpec
CONSTANTS
    Parts = {"memory"}
    Formats <- SameChannels
    Conversations = {"c1", "c2"}
    MaxFaults = 0
    MaxTime = 10
    Vectors <- Line3
    \* the RingBuffer
    Thread = {"t1", "t2"}
    Value = {"a", "b"}
    Error = {"e"}
    None = None
    Capacity = 2
    CounterMod = 8
    WriteData <- RingBatches
    ReadLen = {0, 1, 2}
INVARIANTS SegmentsKept
CHECK_DEADLOCK FALSE
