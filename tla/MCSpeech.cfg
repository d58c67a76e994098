SPECIFICATION SpeechSpec
CONSTANTS
    Parts = {"block", "stream", "utils", "input", "realtime", "speech", "registry", "llm", "rules",
             "bench", "doubao", "sessions", "http", "frames", "lines",
             "mixer", "cli", "vecid", "clusters", "voiceprint"}
    Nil = Nil
    \* the BlockBuffer
    Thread = {t1, t2, t3}
    Value = {"a"}
    Error = {"e"}
    None = None
    Capacity = 2
    WriteData <- OneElement
    ReadLen = {1}
    \* the stream
    Producers = {"p1", "p2"}
    Handles = {"h1", "h2"}
    Size = 1
    MaxAdds = 2
    MayClose = TRUE
    Endings = {"done", "truncated", "blocked", "error", "abort"}
INVARIANTS NoLostWakeup EndsAgree AudioInOrder AnswersIntact RulesAgree NoneTwice
           CommandsSound IdsStable
PROPERTIES LastIsLast
CHECK_DEADLOCK FALSE
