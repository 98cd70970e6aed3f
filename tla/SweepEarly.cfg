CONSTANTS
    k1 = k1
    w1 = w1
    Keys = {k1}
    Writers = {w1}
    Readers = {}
    Flushers = {}
    Modes = {"sync"}
    Lens = {1}
    KeyLen <- MCKeyLen
    TTL = 5
    EntryOverhead = 1
    FlushBatchSize = 2
    MaxDeleteParams = 2
    Evicts = FALSE
    MemLimit = 3
    BatchSize = 1
    MaxRuns = 2
    Sweeps = TRUE
    SweepLimit = 1
    Steps = {5}
    FracDigits = 1
    MaxTime = 5
    MaxWrites = 1
    MaxErrors = 0
    MaxRestarts = 0
SPECIFICATION Spec
SYMMETRY Symmetry
PROPERTIES SweepTakesOnlyExpired
CHECK_DEADLOCK FALSE
