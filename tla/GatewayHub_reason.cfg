SPECIFICATION Spec
CONSTANTS
    Conn = {c1}
    Agent = {a1}
    Org = {o1}
    NoOrg = NoOrg
    None = None
    Writer = {}
    ChanCap = 2
    SendCap = 1
    HeartbeatTimeout = 0
    MayShutdown = FALSE
    TimePasses = TRUE
PROPERTY CancelledForAReason
