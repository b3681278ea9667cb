CONSTANTS
    Peers = {2}
    Own = 1
    Databases = {0, 1}
    MaxOwn = 2
    MaxPeerLog = 6
    MaxTakeovers = 1
SPECIFICATION Spec
CHECK_DEADLOCK FALSE
INVARIANT SameDatabase
