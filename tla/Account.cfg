SPECIFICATION FairSpec
CONSTANTS
    Conns = {h1, h2}
    Emails = {e1, e2}
    Names = {n1}
    Pwds = {p1}
    None = None
    Ttl = 1
    PoolSize = 2
    MaxReqs = 4
    MaxTicks = 1
    MaxFaults = 1
INVARIANTS CodesSound AccountsByMail
PROPERTY RequestsEnd
CHECK_DEADLOCK FALSE
