\* Two machines, two addresses to go through, --ipaddr names the second, three ranks.
CONSTANTS
    m1 = m1
    m2 = m2
    m3 = m3
    Macs = {m1, m2}
    Pool = {1, 2}
    Named = {2}
    BaseRank = 0
    Ranks = {1}
    Stranger = Stranger
    MaxRank = 2
    MaxLog = 1
SPECIFICATION Spec
SYMMETRY Alike
INVARIANTS MacOnce AddressOnce DoneMeansKickstarted
