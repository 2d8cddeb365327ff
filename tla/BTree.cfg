\* Trees of three levels, filled and emptied in 144 pairs of orders, and all
\* operations on trees of two and three levels that are packed or nearly empty.
CONSTANTS
    MIN_ITEMS = 2
    REBALANCE_THRESHOLD = 4
    MAX_ITEMS = 6
    N = 40
    Items <- AllItems
    Loads <- Scripts
    MaxOps = 1
SPECIFICATION Spec
INVARIANT TypeOK
INVARIANT Balanced
INVARIANT SiblingsLinked
INVARIANT KeysAndTotals
INVARIANT HoldsContents
INVARIANT SearchFinds
INVARIANT IterationInOrder
INVARIANT FingerprintsOfRanges
INVARIANT LowerBounds
INVARIANT VerifyAccepts
INVARIANT VerifyDetects
