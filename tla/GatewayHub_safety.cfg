SPECIFICATION Spec
CONSTANTS
    Conn = {c1, c2}
    Agent = {a1}
    Org = {o1, o2}
    NoOrg = NoOrg
    None = None
    Writer = {w1}
    ChanCap = 2
    SendCap = 1
    HeartbeatTimeout = 0
    MayShutdown = FALSE
    TimePasses = FALSE
SYMMETRY Symmetry
INVARIANT TypeOK
INVARIANT ServingIsReachable
INVARIANT MessageIsolation
INVARIANT IndexesAgree
CHECK_DEADLOCK FALSE
