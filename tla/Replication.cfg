SPECIFICATION Runs
CONSTANTS
    RequireAuth = FALSE
    AnnounceIp = FALSE
    BacklogSize = 2
    MaxWrites = 3
    MaxFaults = 2
    MaxReplid = 3
INVARIANTS
    OffsetExact
    SlaveExecutesAlike
    TakeoverReady
    ReplicaSame
    WatchSound
    FileHoldsData
    SlaveCopyExact
    OwedShutsOut
    StampsFresh
    MergeExact
PROPERTIES
    ImplementsStream
