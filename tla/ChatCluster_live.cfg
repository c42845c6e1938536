SPECIFICATION MCFairSpec
CONSTANTS
    s1 = s1
    s2 = s2
    u1 = u1
    u2 = u2
    Servers <- MCServers
    Users <- MCUsers
    None = None
    NConns = 2
    NReqs = 2
    MaxTok = 0
    MaxEnds = 1
PROPERTY RequestAnswered
CHECK_DEADLOCK FALSE
