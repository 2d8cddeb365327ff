\* Every number below the limit of C++, also those with the sign bit of the 32-bit
\* integers that JavaScript shifts.
CONSTANTS
    Radix = 4
    Limit64 = 32
    Limit32 = 16
    Numbers <- AllNumbers
    IdPrefixes <- SomePrefixes
    MaxBounds = 1
SPECIFICATION Spec
INVARIANT ReadsEveryNumber
