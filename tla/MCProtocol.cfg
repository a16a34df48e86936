SPECIFICATION ObjectsKeptSpec
CONSTANTS
    Conn = {c1, c2}
    App = {1}
    Side = {s1, s2}
    Name = {n1}
    Mailbox = {m1}
    Msg = {x1, x2}
    Gen <- MCGen
    Expire = 1
    None = None
    Overlap = TRUE
    Reopen = TRUE
SYMMETRY Symmetry
INVARIANTS
    TypeOK
    CompleteDelivery
PROPERTIES
    ImplementsWormhole
