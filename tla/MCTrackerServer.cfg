\* Three hosts of two coop groups and one file; answers of one peer, so that a host behind the first is listed again.
CONSTANTS
    p1 = p1
    p2 = p2
    p3 = p3
    h1 = h1
    h2 = h2
    rackA = rackA
    rackB = rackB
    NoHash = NoHash
    NoCoop = NoCoop
    Peers = {p1, p2, p3}
    Hashes = {h1}
    Coop <- TwoRacks
    PeersPerPrediction = 1
    PREDICTIONS = 1
    InitSize = 3
    GrowBy = 3
    MaxSize = 3
    MaxPeers = 3
    HeadMayMeetTail = TRUE
SPECIFICATION Spec
INVARIANTS ReadyFirst NotSentToItself BestSourceFirst
