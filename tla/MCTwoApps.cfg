SPECIFICATION FairSpec
CONSTANTS
    Conn = {c1}
    App = {1, 2}
    Side = {s1}
    Name = {n1}
    Mailbox = {m1, m2}
    Msg = {}
    Gen <- MCGen
    Expire = 1
    None = None
    Overlap = TRUE
    Reopen = TRUE
PROPERTIES
    ApplicationsApart
    UnusedMailboxExpires
