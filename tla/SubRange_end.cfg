\* Every range of every vector and tree, ranges that end at an item as well.
CONSTANTS
    Items = {2, 4, 6}
    MaxBound = 8
    SizeModulus = 16
    MaxOps = 6
SPECIFICATION Spec
INVARIANT UpperBoundExclusive
