\* Two hosts with one process each, one file, a LOOKUP per process, datagrams duplicated and the tracker restarted.
CONSTANTS
    p1 = p1
    p2 = p2
    f1 = f1
    f2 = f2
    w1 = w1
    w2 = w2
    NoCoop = NoCoop
    Peers = {p1, p2}
    Coop <- NoCoops
    PeersPerPrediction = 1
    Files = {f1}
    Checked = {}
    Workers = {w1}
    PkgServers = 1
    LastServerHolds = TRUE
    PREDICTIONS = 1
    Disturbed = TRUE
    MaxPeers = 2
    MaxLookups <- OneLookup
SPECIFICATION FairSpec
INVARIANTS ReadyHasFile NeverNotFound
PROPERTY RequestAnswered
