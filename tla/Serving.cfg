SPECIFICATION ServingFairSpec
CONSTANTS
    m1 = m1
    m2 = m2
    pa = pa
    pb = pb
    Mod = {m1, m2}
    Path = {pa, pb}
    Id = {1, 2}
    Installations <- SomeInstallations
    Null = Null
    Conn = {c1, c2}
    Worker = {w1, w2}
    Root = pb
    MaxRequests = 2
INVARIANTS
    PathsRouteAlike
    OneAnswerEach
    HeldRequestKept
    WorkersWoken
    NoCookiesFromBeforeLogin
PROPERTIES
    EveryRequestServed
\* A server may crash at its start; connections are bounded, and a request runs once.
CHECK_DEADLOCK FALSE
