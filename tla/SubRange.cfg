\* Every range of every vector and tree that six calls make.
CONSTANTS
    Items = {2, 4, 6}
    MaxBound = 8
    SizeModulus = 16
    MaxOps = 6
SPECIFICATION Spec
INVARIANT TypeOK
INVARIANT VectorProxy
INVARIANT TreeProxy
