\* A tree of three levels whose nodes share pages, filled, flushed and emptied in
\* one transaction.
CONSTANTS
    MIN_ITEMS = 2
    REBALANCE_THRESHOLD = 4
    MAX_ITEMS = 6
    N = 22
    Items <- AllItems
    Loads <- Drain
    MaxOps = 0
    OtherTree <- NoTree
    RecordsMove = TRUE
    MaxSaves = 1
SPECIFICATION LMDBSpec
INVARIANT VerifyAcceptsInLMDB
