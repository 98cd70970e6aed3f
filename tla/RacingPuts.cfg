CONSTANTS
    k1 = k1
    w1 = w1
    w2 = w2
    Keys = {k1}
    Writers = {w1, w2}
    Readers = {}
    Flushers = {}
    Modes = {"sync"}
    Lens = {1}
    KeyLen <- MCKeyLen
    TTL = 1
    EntryOverhead = 1
    FlushBatchSize = 2
    MaxDeleteParams = 2
    Evicts = FALSE
    MemLimit = 3
    BatchSize = 1
    MaxRuns = 2
    Sweeps = FALSE
    SweepLimit = 1
    Steps = {1}
    FracDigits = 0
    MaxTime = 1
    MaxWrites = 2
    MaxErrors = 0
    MaxRestarts = 0
SPECIFICATION Spec
SYMMETRY Symmetry
INVARIANTS LayersConsistent
CHECK_DEADLOCK FALSE
