SPECIFICATION Spec
CONSTANTS
    Conn = {c1, c2}
    App = {1}
    Side = {s1, s2}
    Name = {n1}
    Mailbox = {m1}
    Msg = {}
    Gen <- MCGen
    Expire = 1
    None = None
    Overlap = FALSE
    Reopen = FALSE
SYMMETRY Symmetry
INVARIANTS
    LastCloseSucceeds
