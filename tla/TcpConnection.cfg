SPECIFICATION FairSpec
CONSTANTS
    Msgs = {m1, m2}
    NoMsg = NoMsg
    Threads = {t1}
    RemoteOps = {"send", "shutdown", "force_close"}
    MaxCalls = 2
    MaxInbound = 1
    HighWater = 2
INVARIANTS StreamInOrder PollerConsistent ClosedOnce
PROPERTY CloseDestroys
CHECK_DEADLOCK FALSE
