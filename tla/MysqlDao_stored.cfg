SPECIFICATION Spec
CONSTANTS
    Threads = {w, g}
    Worker = w
    Conns = {c1, c2}
    None = None
    PushWhenStopped = FALSE
    Users = {u1, u2}
    MaxFriends = 1
    MaxReqs = 3
    MaxCalls = 1
    MaxBreaks = 0
    MaxFar = 0
INVARIANT ToldStored
CHECK_DEADLOCK FALSE
