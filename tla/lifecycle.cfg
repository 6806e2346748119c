CONSTANTS
    h1 = h1
    h2 = h2
    NoRequest = NoRequest
    Requests = {"r1", "r2", "r3"}
    Threads = {h1, h2}
    Mixes <- SmallMixes
    ChunkSize = 2
    n_tps = 2
SPECIFICATION FairSpec
INVARIANTS
    CleanUnlessAbandoned
    EndIsLast
    PostedInOrder
    ImagesSent
    RateKept
PROPERTIES
    EndsSent
CHECK_DEADLOCK FALSE
