\* The server answers from a part of a B-tree, no frame limit.
CONSTANTS
    MAX_U64 = 3
    MaxId = 15
    Digits = 4
    MinimalPrefix <- MCMinimalPrefix
    Client = Client
    Server = Server
    NoPeer = NoPeer
    Universe <- TenItems
    InitialStores <- LastTwoOrMost
    Bases <- ServerRange
    FrameSizeLimits <- Unlimited
    Buckets = 2
    HeaderSize = 1
    FingerprintSize = 1
    IdSize = 1
    Reserve = 5
    MaxEdits = 0
    MaxProbes = 0
    MaxFaults = 0
SPECIFICATION Spec
INVARIANT SoundReports
