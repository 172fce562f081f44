\* Three hosts of which two may be there, two runs at a time or one after the other, one of which may be killed, and a spreadsheet of every kind for each.
SPECIFICATION Spec
CHECK_DEADLOCK FALSE
CONSTANTS
    l1 = l1
    l2 = l2
    fe = fe
    h1 = h1
    h2 = h2
    h3 = h3
    backend = backend
    r0 = r0
    r1 = r1
    e0 = e0
    e1 = e1
    m1 = m1
    m2 = m2
    a1 = a1
    a2 = a2
    rack = rack
    racks = racks
    None = None
    Boss = fe
    Hosts = {fe, h1, h2, h3}
    Appliances = {backend}
    Places = {r0, r1}
    Devices = {e0, e1}
    MACs = {m1, m2}
    IPs = {a1, a2}
    Groups = {rack, racks}
    Named <- MCNamed
    Within <- MCWithin
    Loaders = {l1, l2}
    MayDie = {l1}
    Sheets <- MCSheets
    Initially <- MCInitially
INVARIANTS
    HostsAsInSheet
    NoSharedAddress
    
    FailsForAReason
PROPERTY
    OthersKept
