SPECIFICATION Spec
CONSTANTS
    Threads = {t1, t2}
    Users = {u1, u2}
    Servers <- MCServers
    None = None
    MaxCount = 2
    MaxStarts = 1
    MaxCalls = 2
INVARIANTS LeastLoaded LastTokenWorks
CHECK_DEADLOCK FALSE
