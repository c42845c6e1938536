SPECIFICATION MCSpec
CONSTANTS
    Threads = {t1, t2}
    Pages = {1, 2, 3, 4, 5, 6}
    PAGE = 4
    MAXBYTES = 7
    NPAGES = 4
    MAXMOVE = 2
    Sizes = {5}
    Large = {2, 4}
    MaxHeld = 2
    NoThread = NoThread
    Callers = {c1, c2, c3}
    Values = {1, 2}
    MaxNodes = 6
    MaxPops = 3
    PoolSizes = {10, 11}
    Header = 4
    Data = 2
    Node = 2
    Clean = 2
    ALIGN = 2
    MaxSmall = 20
    MaxFailed = 0
    MaxTries = 1
    Requests = {1, 3, 8}
    MaxCalls = 5
    ElemSizes = {1, 2}
    MaxBlock = 6
    Objects = 2
    HeapPart = 4
    Counts = {1, 3, 5, 7}
    MaxMallocs = 2
SYMMETRY Perms
INVARIANTS BlocksApart Accounted UnusedIsListed CallsGoOn Reclaimed
PROPERTY Linearizable
CHECK_DEADLOCK FALSE
