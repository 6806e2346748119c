CONSTANTS
    e1 = e1
    k1 = k1
    c1 = c1
    c2 = c2
    Embeds = {e1}
    Reranks = {k1}
    Completions = {c1, c2}
    NThreads = 2
    SlotCtx = 7
    ShiftContext = TRUE
    CachePrompt = TRUE
    CanShift = TRUE
    Texts <- TextCounts
    Queries = {1}
    Documents <- DocumentCounts
    Scores = {0, 1, 2}
    MaxDocuments = 4
    PromptSize = 2
    MayClose = {k1}
    MayMiss = TRUE
SPECIFICATION FairSpec
INVARIANTS
    SequencesClean
    CountersExact
    EmbedsInOrder
    RankedByScore
PROPERTIES
    AnsweredUnlessLost
CHECK_DEADLOCK FALSE
