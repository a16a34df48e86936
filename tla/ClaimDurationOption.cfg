SPECIFICATION TextSpec
CONSTANTS
    Addr = {a1, a2}
    Duration = 2
    Period = 1
    InMemory = FALSE
    MaxGeneration = 1
    MaxAge = 6
CHECK_DEADLOCK FALSE
INVARIANTS
    ErasureInterval
