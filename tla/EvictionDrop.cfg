CONSTANTS
    k1 = k1
    k2 = k2
    w1 = w1
    Keys = {k1, k2}
    Writers = {w1}
    Readers = {}
    Flushers = {}
    Modes = {"sync"}
    Lens = {1}
    KeyLen <- MCKeyLen
    TTL = 1
    EntryOverhead = 1
    FlushBatchSize = 2
    MaxDeleteParams = 2
    Evicts = TRUE
    MemLimit = 3
    BatchSize = 1
    MaxRuns = 2
    Sweeps = FALSE
    SweepLimit = 1
    Steps = {1}
    FracDigits = 0
    MaxTime = 1
    MaxWrites = 4
    MaxErrors = 0
    MaxRestarts = 0
SPECIFICATION Spec
SYMMETRY Symmetry
INVARIANTS LayersConsistent
CHECK_DEADLOCK FALSE
