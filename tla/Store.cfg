CONSTANTS
    k1 = k1
    w1 = w1
    w2 = w2
    r1 = r1
    f1 = f1
    Keys = {k1}
    Writers = {w1, w2}
    Readers = {r1}
    Flushers = {f1}
    Modes = {"sync", "async", "memory"}
    Lens = {1}
    KeyLen <- MCKeyLen
    TTL = 5
    EntryOverhead = 1
    FlushBatchSize = 2
    MaxDeleteParams = 2
    Evicts = FALSE
    MemLimit = 3
    BatchSize = 1
    MaxRuns = 2
    Sweeps = TRUE
    SweepLimit = 1
    Steps = {5}
    FracDigits = 1
    MaxTime = 10
    MaxWrites = 2
    MaxErrors = 1
    MaxRestarts = 1
SPECIFICATION Spec
SYMMETRY Symmetry
INVARIANTS SyncHonoured AsyncHonoured MemoryHonoured
PROPERTIES LiveEntriesLeaveByEviction LiveRowsLeaveByEviction ImplementsContract
CHECK_DEADLOCK FALSE
