SPECIFICATION Spec
CONSTANTS
    Expiration = 11
    Period = 5
    Forever = 24
INVARIANTS
    GoneInTime
PROPERTIES
    KeptWhileAway
    KeptWhileRunning
