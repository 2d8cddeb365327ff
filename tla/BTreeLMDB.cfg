\* A tree of three levels filled and emptied, and small trees changed in all
\* ways, with flushes, commits, new objects and crashes at up to three points, in
\* the middle of calls too.
CONSTANTS
    MIN_ITEMS = 2
    REBALANCE_THRESHOLD = 4
    MAX_ITEMS = 6
    N = 22
    Items <- AllItems
    Loads <- DrainOrFew
    MaxOps = 2
    OtherTree <- NoTree
    RecordsMove = FALSE
    MaxSaves = 3
SPECIFICATION LMDBSpec
INVARIANT CacheCoherent
INVARIANT FreshNodeIds
INVARIANT VerifyAcceptsInLMDB
PROPERTY ImplementsDurableSet
