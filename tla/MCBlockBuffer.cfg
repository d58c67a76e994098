SPECIFICATION Spec
CONSTANTS
    Thread = {t1, t2, t3}
    a = a
    b = b
    Value = {a, b}
    Error = {e}
    None = None
    Capacity = 2
    WriteData <- MCBatches
    ReadLen <- MCLens
SYMMETRY Symmetry
INVARIANTS TypeOK RingOK SleepersAreBlocked
PROPERTIES QueueSpec
