\* Every table of 5 slots.
CONSTANTS
    Peers = {}
    NoCoop = NoCoop
    Coop <- AnyCoop
    PeersPerPrediction = 3
    Hashes = {0, 1, 2, 3, 4}
    NoHash = NoHash
    InitSize = 5
    GrowBy = 5
    PREDICTIONS = 1
SPECIFICATION LoopSpec
INVARIANT LoopIsClosedForm
PROPERTY CallReturns
