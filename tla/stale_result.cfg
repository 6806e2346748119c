CONSTANTS
    h1 = h1
    NoRequest = NoRequest
    Requests = {"r1", "r2"}
    Threads = {h1}
    Mixes <- StreamMixes
    ChunkSize = 2
    n_tps = 2
SPECIFICATION Spec
INVARIANTS
    OwnResults
CHECK_DEADLOCK FALSE
