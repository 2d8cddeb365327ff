\* The caller clears the struct before every call: objects over a tree and over a range.
CONSTANTS
    tree = tree
    range = range
    OverTrees <- TreeObjects
    OverRanges <- RangeObjects
    FirstResult <- Blank
    ZeroEachTime = TRUE
    MaxIds = 2
    MaxCalls = 4
SPECIFICATION Spec
INVARIANT ResultReadable
INVARIANT NoLeak
