\* Another tree in the same table, with nodes of which one has an id that this tree
\* has not.
CONSTANTS
    MIN_ITEMS = 2
    REBALANCE_THRESHOLD = 4
    MAX_ITEMS = 6
    N = 22
    Items <- AllItems
    Loads <- Drain
    MaxOps = 0
    OtherTree = {1, 2}
    RecordsMove = FALSE
    MaxSaves = 0
SPECIFICATION LMDBSpec
INVARIANT VerifyAcceptsInLMDB
