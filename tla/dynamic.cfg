CONSTANTS
    t1 = t1
    t2 = t2
    t3 = t3
    NoTask = NoTask
    Tasks = {t1, t2, t3}
    NThreads = 2
    CtxSize = 8
    KvUnified = TRUE
    CachePrompt = TRUE
    CanShift = TRUE
    ShiftContext = TRUE
    RemovesRange = TRUE
    SlidingWindow = TRUE
    NKeep = 0
    NUbatch = 2
    DiscardFloor = 0
    DraftMax = 1
    MTP = FALSE
    DraftModel = TRUE
    BatchViewMax = 8
    MaxRetries = 1
    Prompts = {3}
    Streams = {}
    Throttled = {}
    MayClose = {t1,t2,t3}
    Adapted = {}
    MaxTokens = {2}
SPECIFICATION Spec
SYMMETRY TaskSymmetry
INVARIANTS
    TypeOK
    KvAccounted
    SequencesOwned
    RegistryExact
