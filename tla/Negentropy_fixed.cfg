\* Storages of eight or more of ten items, a limit at one peer or none.
CONSTANTS
    MAX_U64 = 3
    MaxId = 15
    Digits = 4
    MinimalPrefix <- MCMinimalPrefix
    Client = Client
    Server = Server
    NoPeer = NoPeer
    Universe <- TenItems
    InitialStores <- LastFiveOrMost
    Bases <- MaybeClientRange
    FrameSizeLimits <- AtMostOne
    Buckets = 2
    HeaderSize = 1
    FingerprintSize = 1
    IdSize = 1
    Reserve = 5
    MaxEdits = 0
    MaxProbes = 1
    MaxFaults = 0
SPECIFICATION Spec
INVARIANT CompleteWhenDone
INVARIANT FingerprintsTruthful
INVARIANT NoDuplicateReports
INVARIANT IdListsTruthful
INVARIANT WithinFrameLimit
PROPERTY ImplementsSetReconciliation
