SPECIFICATION Spec
CONSTANTS
    r1 = r1
    r2 = r2
    r3 = r3
    Requests = {r1, r2, r3}
    Cancellable = {}
    Constrained = {}
    Cached = {r3}
    Prompt <- GrowingPrompts
    MaxLength <- GrowingLengths
    BlockSize = 2
    NumBlocks = 3
    MaxBatchSize = 3
    TargetTokens = 2
    MaxPending = 2
    Configs <- WholePrompts
INVARIANT OnlyGenuineOOM
CHECK_DEADLOCK FALSE
