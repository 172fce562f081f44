\* Two hosts, two attributes one of which is intrinsic and begins with the other's name, two writers one of which may die, and a reader that may see shadow values or not.
SPECIFICATION Spec
CHECK_DEADLOCK FALSE
CONSTANTS
    h1 = h1
    h2 = h2
    redhat = redhat
    backend = backend
    storage = storage
    test1 = test1
    a = a
    ab = ab
    v1 = v1
    v2 = v2
    p = p
    q = q
    r1 = r1
    None = None
    Groups = {redhat, backend, storage, test1}
    Hosts = {h1, h2}
    Keys = {a, ab}
    Values = {v1, v2}
    Intrinsic = {ab}
    GlobalIntrinsic = {}
    Extends <- MCExtends
    Commands <- MCCommands
    Processes = {p, q}
    MayDie = {p}
    Initially <- MCInitially
    Readers = {r1}
    Member <- MCMember
INVARIANTS
    MissingOnlyMidway
    LoadExact
    ReadIsEffective
    ReadInventsNothing
