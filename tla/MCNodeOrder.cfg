\* Every graph made of eight framework tags and six order tags.
SPECIFICATION Spec
CHECK_DEADLOCK FALSE
CONSTANTS
    root = root
    a = a
    b = b
    c = c
    d = d
    Root = root
    HEAD = HEAD
    TAIL = TAIL
    Nobody = Nobody
    NoLabel = NoLabel
    Dropped = Dropped
    Absent = Absent
    Nodes = {root, a, b, c, d, HEAD, TAIL}
    Labels = {NoLabel, Dropped}
    Names <- MCNames
    EdgeTags <- MCEdgeTags
    OrderTags <- MCOrderTags
    CoreTags <- MCCoreTags
INVARIANTS
    EdgesRespected
    TagsHeld
    OrderHonoured
    Selected

