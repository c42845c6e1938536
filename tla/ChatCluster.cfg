SPECIFICATION Spec
CONSTANTS
    Servers = {s1, s2}
    Users = {u1}
    None = None
    NConns = 2
    NReqs = 2
    MaxTok = 1
    MaxEnds = 1
INVARIANTS DeliveredToUser  Reachable ForgottenUnlessLate
CHECK_DEADLOCK FALSE
