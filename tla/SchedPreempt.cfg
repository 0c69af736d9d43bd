SPECIFICATION FairSpec
CONSTANTS
    r1 = r1
    r2 = r2
    r3 = r3
    Requests = {r1, r2, r3}
    Cancellable = {r3}
    Constrained = {r1}
    Cached = {r3}
    Prompt <- GrowingPrompts
    MaxLength <- GrowingLengths
    BlockSize = 2
    NumBlocks = 4
    MaxBatchSize = 3
    TargetTokens = 2
    MaxPending = 2
    Configs <- UsualConfigs
INVARIANTS
    TypeOK
    InOneQueue
    CacheCoversTokens
    OneTerminalAnswer
PROPERTIES
    DeliveredTokensKept
    EveryRequestAnswered
CHECK_DEADLOCK FALSE
