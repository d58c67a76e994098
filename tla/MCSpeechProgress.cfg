SPECIFICATION SpeechFairSpec
CONSTANTS
    Parts = {"stream", "utils", "oneturn", "bench", "recv", "websocket", "http", "onewriter"}
    Nil = Nil
    \* the BlockBuffer
    Thread = {t1, t2, t3}
    Value = {"a"}
    Error = {"e"}
    None = None
    Capacity = 2
    WriteData <- OneElement
    ReadLen = {1}
    \* the stream
    Producers = {"p1", "p2"}
    Handles = {"h1", "h2"}
    Size = 1
    MaxAdds = 2
    MayClose = TRUE
    Endings = {"done", "truncated", "blocked", "error", "abort"}
PROPERTIES StreamsEnd CallsReturn MixerEnds
CHECK_DEADLOCK FALSE
