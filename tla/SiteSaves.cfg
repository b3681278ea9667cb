CONSTANTS
    Peer = {2, 3}
    Jump = 5
    MaxWrites = 3
    MaxLives = 3
    PeersAnswer = TRUE
    QuietSaves = FALSE
    LinkedPromotion = TRUE
SPECIFICATION Spec
INVARIANTS Recovered
