SPECIFICATION Spec
CONSTANTS
    Conn = {c1, c2, c3}
    App = {1}
    Side = {s1, s2, s3}
    Name = {}
    Mailbox = {m1, m2}
    Msg = {x1}
    Gen <- MCGen
    Expire = 1
    None = None
    Overlap = FALSE
    Reopen = FALSE
SYMMETRY Symmetry
CONSTRAINT NamespacesKept
INVARIANTS
    ListenerProtected
    CompleteDelivery
    NoOrphanMessages
    TwoListeningSides
PROPERTIES
    MessagesStay
    ImplementsWormhole
