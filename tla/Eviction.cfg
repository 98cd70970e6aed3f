CONSTANTS
    k1 = k1
    k2 = k2
    w1 = w1
    f1 = f1
    Keys = {k1, k2}
    Writers = {w1}
    Readers = {}
    Flushers = {f1}
    Modes = {"sync", "async", "memory"}
    Lens = {1}
    KeyLen <- MCKeyLen
    TTL = 7
    EntryOverhead = 1
    FlushBatchSize = 2
    MaxDeleteParams = 2
    Evicts = TRUE
    MemLimit = 3
    BatchSize = 1
    MaxRuns = 2
    Sweeps = TRUE
    SweepLimit = 1
    Steps = {3}
    FracDigits = 1
    MaxTime = 9
    MaxWrites = 2
    MaxErrors = 1
    MaxRestarts = 0
SPECIFICATION Spec
SYMMETRY Symmetry
INVARIANTS TypeOK CacheBytesExact SyncHonoured AsyncHonoured MemoryHonoured
PROPERTIES RowPhaseLeavesOne
CHECK_DEADLOCK FALSE
