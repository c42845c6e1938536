SPECIFICATION MCSpec
CONSTANTS
    Clients = {c1, c2}
    Tasks = {a, b, c}
    Ids = {0, 1, 2}
    InitSize = 1
    MaxThreads = 2
    MaxQueue = 1
    NoTask = NoTask
    Few = {a, b, c}
    Pair = {0, 1}
    N = 2
    Endless = {a}
    MaxLoops = 2
    MaxConns = 4
    Thread = Thread
    Nobody = Nobody
INVARIANTS BooksAgree NobodyOversleeps
PROPERTY PoolsFinish
CHECK_DEADLOCK FALSE
