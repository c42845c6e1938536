SPECIFICATION MCSpec
CONSTANTS
    Functors = {f1, f2, f3}
    Threads = {t1, t2}
    Callers = {t1}
    MaxCalls = 3
    MaxSocks = 3
    MaxRefused = 2
    Prepend = 2
    Initial = 3
    Extra = 4
    MaxBytes = 9
INVARIANTS NoLostWakeup ChannelsSound BytesKept
PROPERTIES ImplementsContract Responds Reconnects
CHECK_DEADLOCK FALSE
