\* Frame limits at both peers: differences are missed.
CONSTANTS
    MAX_U64 = 3
    MaxId = 8
    Digits = 3
    MinimalPrefix <- MCMinimalPrefix
    Client = Client
    Server = Server
    NoPeer = NoPeer
    Universe <- EightItems
    InitialStores <- LargeStores
    Bases <- NoRanges
    FrameSizeLimits <- Both
    Buckets = 2
    HeaderSize = 1
    FingerprintSize = 1
    IdSize = 1
    Reserve = 5
    MaxEdits = 0
    MaxProbes = 0
    MaxFaults = 0
SPECIFICATION Spec
INVARIANT CompleteWhenDone
