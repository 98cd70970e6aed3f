CONSTANTS
    k1 = k1
    k2 = k2
    w1 = w1
    w2 = w2
    r1 = r1
    Keys = {k1, k2}
    Writers = {w1, w2}
    Readers = {r1}
    TTL = 5
    SizeLimit = 2
    BatchSize = 1
    MaxRuns = 2
    SweepLimit = 1
    Steps = {5}
    FracDigits = 1
    MaxTime = 15
    MaxWrites = 3
    MaxErrors = 1
    MaxRestarts = 1
SPECIFICATION Spec
PROPERTIES GetDeletesOnlyExpired
SYMMETRY Symmetry
CHECK_DEADLOCK FALSE
