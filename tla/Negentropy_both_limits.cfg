\* Frame limits at both peers; a storage that changes, a lost or late message, an
\* exception.
CONSTANTS
    MAX_U64 = 3
    MaxId = 8
    Digits = 3
    MinimalPrefix <- MCMinimalPrefix
    Client = Client
    Server = Server
    NoPeer = NoPeer
    Universe <- EightItems
    InitialStores <- UnevenStores
    Bases <- NoRanges
    FrameSizeLimits <- BothLimited
    Buckets = 2
    HeaderSize = 1
    FingerprintSize = 1
    IdSize = 1
    Reserve = 5
    MaxEdits = 1
    MaxProbes = 0
    MaxFaults = 1
SPECIFICATION FairSpec
INVARIANT SoundReports
INVARIANT SkipsCoalesced
INVARIANT IdListsTruthful
PROPERTY Termination
