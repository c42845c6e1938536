SPECIFICATION FairSpec
CONSTANTS
    Msgs = {m1}
    NoMsg = NoMsg
    Threads = {t1}
    RemoteOps = {"send"}
    MaxCalls = 1
    MaxInbound = 1
    HighWater = 2
PROPERTY OutputDrains
CHECK_DEADLOCK FALSE
