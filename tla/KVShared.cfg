SPECIFICATION Spec
CONSTANTS
    r1 = r1
    r2 = r2
    h1 = h1
    h2 = h2
    None = None
    b1 = b1
    b2 = b2
    b3 = b3
    Requests = {r1, r2}
    Hashes = {h1, h2}
    Chain <- SharedChain
    PromptBlocks <- Prompts
    Blocks = {b1, b2, b3}
    MaxTransfers = 3
SYMMETRY BlockSymmetry
INVARIANTS
    TypeOK
    RefCountsExact
    ReadsItsOwnPrefix
    CacheHoldsItsHashes
    OffloadReadsItsBlocks
