CONSTANTS
    t1 = t1
    t2 = t2
    t3 = t3
    NoTask = NoTask
    Tasks = {t1, t2, t3}
    NThreads = 2
    CtxSize = 20
    KvUnified = FALSE
    CachePrompt = TRUE
    CanShift = TRUE
    ShiftContext = TRUE
    RemovesRange = FALSE
    SlidingWindow = FALSE
    NKeep = 0
    NUbatch = 2
    DiscardFloor = 0
    DraftMax = 0
    MTP = FALSE
    DraftModel = FALSE
    BatchViewMax = 8
    MaxRetries = 1
    Prompts = {1, 4}
    Streams = {t1,t2,t3}
    Throttled = {}
    MayClose = {t1,t2,t3}
    Adapted = {}
    MaxTokens = {2}
SPECIFICATION Spec
SYMMETRY TaskSymmetry
INVARIANTS
    KvAccounted
    SequencesOwned
CHECK_DEADLOCK FALSE
