\* Carries and borrows over all words, two nodes, IDs of extreme words and small ones.
CONSTANTS
    Base = 4
    Ids <- ExtremeIds
    left = left
    right = right
    Nodes <- NodePair
    MaxOps = 3
SPECIFICATION Spec
INVARIANT SumOfIds
