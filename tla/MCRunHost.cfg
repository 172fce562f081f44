\* Three hosts, no limit or one or two threads, with and without a timeout.
SPECIFICATION RunSpec
CHECK_DEADLOCK FALSE
CONSTANTS
    Hosts = {h1, h2, h3}
    Limits <- MCLimits
    Timeouts <- MCTimeouts
    Fates = {"ends", "waits", "raises"}
INVARIANTS
    ThreadsBounded
    EveryHostEnded
PROPERTIES
    CommandEnds
