CONSTANTS
    MergeKeys = {1}
    MergeTypes = {"set", "hash"}
    MergeFields = {1, 2}
    PieceSize = 1
    LargeFields = {2}
    Expires = {5}
    MaxSenderOps = 4
    MaxReceiverOps = 2
    MaxMergeBreaks = 1
SPECIFICATION Spec
CHECK_DEADLOCK FALSE
INVARIANT WatchSeesMerges
