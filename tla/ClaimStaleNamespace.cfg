SPECIFICATION Spec
CONSTANTS
    Conn = {c1, c2}
    App = {1}
    Side = {s1, s2}
    Name = {}
    Mailbox = {m1}
    Msg = {x1}
    Gen <- MCGen
    Expire = 1
    None = None
    Overlap = FALSE
    Reopen = FALSE
SYMMETRY Symmetry
INVARIANTS
    CompleteDelivery
