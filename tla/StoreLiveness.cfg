CONSTANTS
    k1 = k1
    w1 = w1
    f1 = f1
    Keys = {k1}
    Writers = {w1}
    Readers = {}
    Flushers = {f1}
    Modes = {"sync", "async"}
    Lens = {1}
    KeyLen <- MCKeyLen
    TTL = 1
    EntryOverhead = 1
    FlushBatchSize = 2
    MaxDeleteParams = 2
    Evicts = FALSE
    MemLimit = 3
    BatchSize = 1
    MaxRuns = 2
    Sweeps = TRUE
    SweepLimit = 1
    Steps = {1}
    FracDigits = 0
    MaxTime = 3
    MaxWrites = 2
    MaxErrors = 1
    MaxRestarts = 1
SPECIFICATION LiveSpec
PROPERTIES AsyncEventuallyStored PastRowsEventuallyGone
CHECK_DEADLOCK FALSE
