CONSTANTS
    Half = 16
    MiB = 4
    MaxDBBytes = 3
    MemoryMB = {0, 1, 4, 8, 9}
SPECIFICATION Spec
INVARIANTS ErrorNamesFirst BudgetAsConfigured RequestAccounted EchoIsContract StoreIsGuarded
CHECK_DEADLOCK FALSE
