SPECIFICATION ReconnectingSpec
CHECK_DEADLOCK FALSE
CONSTANTS
    Conn = {c1, c2, c3}
    None = None
    MaxFailures = 3
    Clients = {k1, k2}
    MaxAttempts = 3
INVARIANTS
    NoLostReconnect QuitIsFinal
    SocketTypeOK OneConnection NotStranded StateIsTrue NothingLeftBehind
PROPERTIES
    Reconnects BrokenLinkReplaced SocketReconnects
