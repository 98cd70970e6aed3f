CONSTANTS
    Clients = {c1}
    Requests = {r1, r2, r3}
    c1 = c1
    r1 = r1
    r2 = r2
    r3 = r3
    Cost = 2
    Burst = 4
    Rate = 1
    PruneAge = 4
    Prunes = TRUE
    MaxLag = 1
    MaxTime = 7
SPECIFICATION Spec
SYMMETRY Symmetry
INVARIANTS AdmissionBound
CHECK_DEADLOCK FALSE
