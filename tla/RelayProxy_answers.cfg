SPECIFICATION Spec
CHECK_DEADLOCK FALSE
CONSTANTS
    t1 = t1  t2 = t2  a1 = a1  a2 = a2  b = b  c = c  r1 = r1  r2 = r2  q = q
    Tunnel = {t1, t2}
    Agent = {a1}
    Request = {r1, r2}
    None = None  Config = Config  Ack = Ack  BadGateway = BadGateway
    Declared <- MCDeclared
    TokenFor <- MCTokenFor
    HostOf <- MCHostOf
    PartsOf <- MCPartsOf
    MaxStream = 2
INVARIANT AnswerMatchesRequest
