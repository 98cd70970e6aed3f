CONSTANTS
    Probes = {p1}
    p1 = p1
    CacheTTL = 1
    Retention = 1
    MaxFaults = 0
SPECIFICATION PSpec
INVARIANTS TracesReleased
CHECK_DEADLOCK FALSE
