SPECIFICATION FairSpec
CONSTANTS
    NumSessions = 2
    Sessions <- MCSessions
    Users = {u1}
    NoUser = nobody
    Global = global
    Proto = proto
    Kinds = {order}
    Weight <- MCWeight
    GlobalLimits <- MCGlobalLimits
    SessionLimits <- MCSessionLimits
    UserLimits <- MCUserLimits
    MaxReceived = 2
    MaxAnswers = 1
    MaxFaults = 1
    MaxTime = 1
INVARIANTS SessionsConsistent Throttled
CHECK_DEADLOCK FALSE
PROPERTY DeadPeersClosed
