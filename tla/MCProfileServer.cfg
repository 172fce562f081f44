\* Three installers, two processors, one repeated request, two transfers.
CONSTANTS
    c1 = c1
    c2 = c2
    c3 = c3
    Clients = {c1, c2, c3}
    NoOne = NoOne
    CPUs = 2
    TRIES = 1
    RETRIES = 2
SPECIFICATION Spec
INVARIANTS AtMostCPUs PermitsAccounted
PROPERTIES PermitsImplemented EveryLoaderEnds
CHECK_DEADLOCK FALSE
