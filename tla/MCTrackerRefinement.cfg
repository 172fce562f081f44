\* Two hosts, two files, a table of 3 slots that grows to 5: replies with a prediction.
CONSTANTS
    p1 = p1
    p2 = p2
    h1 = h1
    h2 = h2
    h3 = h3
    NoHash = NoHash
    NoCoop = NoCoop
    Peers = {p1, p2}
    Hashes = {h1, h2}
    Coop <- NoCoops
    PeersPerPrediction = 1
    PREDICTIONS = 1
    InitSize = 3
    GrowBy = 2
    MaxSize = 5
    MaxPeers = 2
    HeadMayMeetTail = FALSE
SPECIFICATION Spec
INVARIANT WindowExact
PROPERTY ImplementsList
