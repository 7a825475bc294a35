SPECIFICATION RelaySpec
CONSTANTS
    t1 = t1  t2 = t2  d1 = d1  n1 = n1  w2 = w2
    x1 = x1  x2 = x2  x3 = x3  y1 = y1  h1 = h1  h2 = h2
    Tunnel = {t1, t2}
    Key = {d1, n1, w2}
    Ctx = {x1, x2, x3, y1}
    Host = {h1, h2}
    Proc = {p1, p2}
    None = None
    TunnelOf <- MCTunnelOf
    KeysOf <- MCKeysOf
    Candidates <- MCCandidates
    Owner <- MCOwner
    Msg = {m1, m2, m3}
    ErrCap = 2
INVARIANTS RegisteredIsReachable LookupStaysWithOwner
PROPERTY AllEnd
