\* Every number below the limit of C++, two bounds, cut at every byte.
CONSTANTS
    Radix = 4
    Limit64 = 32
    Limit32 = 16
    Numbers <- AllNumbers
    IdPrefixes <- SomePrefixes
    MaxBounds = 2
SPECIFICATION Spec
INVARIANT TypeOK
INVARIANT ReadsWhatWasWritten
INVARIANT NoticesTruncation
