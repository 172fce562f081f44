\* Two hosts that share an address, two commands at a time, three in all.
SPECIFICATION BootSpec
CONSTANTS
    Nodes <- MCNodes
    Nobody = Nobody
    Labels = {NoLabel}
    NoLabel = NoLabel
    Plugins <- MCPlugins
    TAIL = "TAIL"
    Hosts = {g, h}
    Addresses = {a}
    Processes = {p, q}
    First = g
    Bare = {h}
    None = None
    MaxCommands = 3
    MaxLost = 1
INVARIANTS
    PluginsOrdered
    OneRow
    FilesMatch
PROPERTIES
    NoUnaskedInstall
    InstallEnds
