\* Two hosts with two processes each, two files, both in packages.md5.
CONSTANTS
    p1 = p1
    p2 = p2
    f1 = f1
    f2 = f2
    w1 = w1
    w2 = w2
    NoCoop = NoCoop
    Peers = {p1, p2}
    Coop <- NoCoops
    PeersPerPrediction = 1
    Files = {f1, f2}
    Checked = {f1, f2}
    Workers = {w1, w2}
    PkgServers = 1
    LastServerHolds = FALSE
    PREDICTIONS = 1
    Disturbed = FALSE
    MaxPeers = 2
    MaxLookups <- OneByTwoProcesses
SPECIFICATION Spec
INVARIANTS CheckedIsGood NotOwnSource
VIEW WithoutReply
SYMMETRY FileSymmetry
