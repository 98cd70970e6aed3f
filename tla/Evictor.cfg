CONSTANTS
    Posts = {p1, p2}
    p1 = p1
    p2 = p2
    Throttle = 3
    Limit = 2
    MaxRuns = 2
    MaxUsage = 3
    MaxErrors = 1
SPECIFICATION LiveSpec
INVARIANTS SingleFlight
PROPERTIES EvictionReturns OverBudgetIsEvicted
