SPECIFICATION FairSpec
CONSTANTS
    Thread = {t1, t2, t3}
    a = a
    b = b
    Value = {a}
    Error = {e}
    None = None
    Capacity = 2
    WriteData <- MCDouble
    ReadLen = {1}
PROPERTIES ReadersProgress
