SPECIFICATION FairSpec
CONSTANTS
    Threads = {w, g}
    Worker = w
    Conns = {c1, c2}
    None = None
    PushWhenStopped = FALSE
    Users = {u1, u2}
    MaxFriends = 1
    MaxReqs = 2
    MaxCalls = 1
    MaxBreaks = 1
    MaxFar = 1
INVARIANTS PoolSound Mutual
PROPERTY HandlersEnd
CHECK_DEADLOCK FALSE
