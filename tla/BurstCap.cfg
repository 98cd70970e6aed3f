CONSTANTS
    Clients = {c1}
    Requests = {r1}
    c1 = c1
    r1 = r1
    Cost = 2
    Burst = 4
    Rate = 1
    PruneAge = 2
    Prunes = TRUE
    MaxLag = 0
    MaxTime = 4
SPECIFICATION Spec
INVARIANTS BurstCap
CHECK_DEADLOCK FALSE
