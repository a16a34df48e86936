SPECIFICATION FairUsageSpec
CONSTANTS
    Conn = {c1}
    App = {1}
    Side = {s1}
    Name = {n1}
    Mailbox = {m1, m2}
    Msg = {}
    Gen <- MCGen
    Expire = 1
    None = None
    Overlap = TRUE
    Reopen = TRUE
    MaxDeaths = 1
    MaxDue = 2
INVARIANTS
    MailboxesBooked
    NameplatesBookedOnce
PROPERTIES
    ExpiresUnlessStuck
