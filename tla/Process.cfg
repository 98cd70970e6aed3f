CONSTANTS
    Probes = {p1, p2}
    p1 = p1
    p2 = p2
    CacheTTL = 1
    Retention = 2
    MaxFaults = 1
SPECIFICATION PLiveSpec
INVARIANTS LatestBackupKept AllButTracesReleased
PROPERTIES ReadyIsFresh OutageNoticed EveryProbeEnds RetentionRecovers ProcessEnds
