CONSTANTS
    k1 = k1
    w1 = w1
    Keys = {k1}
    Writers = {w1}
    Readers = {}
    Flushers = {}
    Modes = {"sync", "memory"}
    Lens = {1}
    KeyLen <- MCKeyLen
    TTL = 10
    EntryOverhead = 1
    FlushBatchSize = 2
    MaxDeleteParams = 2
    Evicts = TRUE
    MemLimit = 3
    BatchSize = 1
    MaxRuns = 2
    Sweeps = FALSE
    SweepLimit = 1
    Steps = {2}
    FracDigits = 1
    MaxTime = 2
    MaxWrites = 2
    MaxErrors = 0
    MaxRestarts = 0
SPECIFICATION Spec
SYMMETRY Symmetry
PROPERTIES PurgeKeepsLaterRows
CHECK_DEADLOCK FALSE
