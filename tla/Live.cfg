SPECIFICATION Runs
CONSTANTS
    Peer = {2, 3}
    Jump = 5
    MaxWrites = 3
    MaxLives = 3
    PeersAnswer = TRUE
    QuietSaves = TRUE
    LinkedPromotion = TRUE
INVARIANTS
    NoClockReuse
    Recovered
PROPERTIES
    CatchesUp
    Settles
    Serves
    WaitersLeave
    RecoversUnlessCircle
