\* Exceptions, lost and late messages, retries and a storage that changes.
CONSTANTS
    MAX_U64 = 3
    MaxId = 8
    Digits = 3
    MinimalPrefix <- MCMinimalPrefix
    Client = Client
    Server = Server
    NoPeer = NoPeer
    Universe <- SixItems
    InitialStores <- ThreeStores
    Bases <- NoRanges
    FrameSizeLimits <- Unlimited
    Buckets = 2
    HeaderSize = 1
    FingerprintSize = 1
    IdSize = 1
    Reserve = 5
    MaxEdits = 2
    MaxProbes = 0
    MaxFaults = 1
SPECIFICATION FairSpec
INVARIANT TypeOK
INVARIANT AscendingBounds
INVARIANT SoundReports
PROPERTY ImplementsSetReconciliation
PROPERTY Termination
