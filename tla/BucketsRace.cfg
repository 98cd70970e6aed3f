CONSTANTS
    Clients = {c1}
    Requests = {r1, r2}
    c1 = c1
    r1 = r1
    r2 = r2
    Cost = 2
    Burst = 2
    Rate = 1
    PruneAge = 2
    Prunes = TRUE
    MaxLag = 0
    MaxTime = 4
SPECIFICATION Spec
INVARIANTS BucketsProtected
CHECK_DEADLOCK FALSE
