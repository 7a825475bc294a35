SPECIFICATION Spec
CHECK_DEADLOCK FALSE
CONSTANTS
    Conn = {c1, c2, c3}
    None = None
    MaxFailures = 3
INVARIANT QuietAfterDisconnect
