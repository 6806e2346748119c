CONSTANTS
    Media = {1, 2, 3, 4}
    Audio = {4}
    Grid <- SmallGrid
    Positions <- SmallPositions
    Failing = {2}
    max_projected_cache = 2
    CtxSize = 48
    SlotSize = 24
    NKeep = 2
    ShiftContext = TRUE
    Dynamic = FALSE
    Requests = {"r1", "r2", "r3"}
    Setups <- SmallSetups
    Slots = {0, 1}
    Limit = 30
    Generated = {2}
    MaxGenerated = 2
SPECIFICATION Spec
INVARIANTS
    TypeOK
    KvAccounted
    ContextKept
    PiecesTold
    RecentlyUsedCached
    PromptSaysMessage
    PromptFits
CHECK_DEADLOCK FALSE
