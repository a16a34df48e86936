SPECIFICATION TableSpec
CONSTANTS
    Addr = {a1, a2, a3}
    Duration = 2
    Period = 1
    InMemory = FALSE
    MaxGeneration = 3
    MaxAge = 6
    Conn = {c1, c2}
    Side = {s1}
    None = None
    MaxId = 3
SYMMETRY Symmetry
CHECK_DEADLOCK FALSE
INVARIANTS
    IdsTellAddresses
    ServedIdsAreCurrent
    GenerationEnds
    TableIsCurrent
    TracedForAGeneration
