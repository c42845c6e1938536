SPECIFICATION MCSpec
CONSTANTS
    Msgs = {m1, m2, m3}
    MaxSendQue = 1
    Frames <- TwoGoodOneBad
    LogicNodes = {n1, n2, n3}
    Known = {n1, n2}
    Posters = {t1, t2}
INVARIANTS WriteInv WholeFrames IndInv
PROPERTIES ImplementsOutput SessionEnds ImplementsContract StopFinishes
CHECK_DEADLOCK FALSE
