CONSTANTS
    t1 = t1
    t2 = t2
    NoTask = NoTask
    Tasks = {t1, t2}
    NThreads = 2
    CtxSize = 6
    KvUnified = TRUE
    CachePrompt = TRUE
    CanShift = TRUE
    ShiftContext = TRUE
    RemovesRange = TRUE
    SlidingWindow = FALSE
    NKeep = 0
    NUbatch = 2
    DiscardFloor = 0
    DraftMax = 1
    MTP = TRUE
    DraftModel = FALSE
    BatchViewMax = 8
    MaxRetries = 1
    Prompts = {1, 4}
    Streams = {}
    Throttled = {}
    MayClose = {}
    Adapted = {t1}
    MaxTokens <- UnlimitedOrTwo
SPECIFICATION Spec
INVARIANTS
    QuotaExact
    WithinQuota
PROPERTIES
    AdmissionKeepsHistory
    KeepsPromise
