CONSTANTS
    t1 = t1
    t2 = t2
    NoTask = NoTask
    Tasks = {t1, t2}
    NThreads = 2
    CtxSize = 6
    KvUnified = TRUE
    CachePrompt = TRUE
    CanShift = TRUE
    ShiftContext = TRUE
    RemovesRange = TRUE
    SlidingWindow = FALSE
    NKeep = 0
    NUbatch = 2
    DiscardFloor = 0
    DraftMax = 0
    MTP = FALSE
    DraftModel = FALSE
    BatchViewMax = 8
    MaxRetries = 1
    Prompts = {3}
    Streams = {}
    Throttled = {t1}
    MayClose = {t1,t2}
    Adapted = {}
    MaxTokens = {2}
SPECIFICATION FairSpec
PROPERTIES
    Answered
    DisconnectedRelease
