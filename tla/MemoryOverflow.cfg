CONSTANTS
    Half = 16
    MiB = 4
    MaxDBBytes = 3
    MemoryMB = {0, 4}
SPECIFICATION Spec
INVARIANT MemoryAsConfigured
CHECK_DEADLOCK FALSE
