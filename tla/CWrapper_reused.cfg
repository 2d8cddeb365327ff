\* One struct, cleared once, for several calls.
CONSTANTS
    tree = tree
    range = range
    OverTrees <- TreeObjects
    OverRanges <- RangeObjects
    FirstResult <- Blank
    ZeroEachTime = FALSE
    MaxIds = 1
    MaxCalls = 3
SPECIFICATION Spec
INVARIANT FreesOnlyLive
