SPECIFICATION Spec
CONSTANTS
    r1 = r1
    r2 = r2
    b1 = b1
    b2 = b2
    Requests = {r1, r2}
    Cancellable = {r1, r2}
    Constrained = {r2}
    Replicas = {0}
    BlocksOf <- OnePool
    Need <- SmallAndLarge
    MaxBatch = 2
    MaxTokens = 2
    PrefillSlots = 2
    TTL = FALSE
INVARIANT ReleasedBlocksQuiet
