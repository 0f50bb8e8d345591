SPECIFICATION ServingSpec
CONSTANTS
    m1 = m1
    m2 = m2
    pa = pa
    pb = pb
    Mod = {m1, m2}
    Path = {pa, pb}
    Id = {1, 2}
    Installations <- NetInstallations
    Null = Null
    Conn = {c1}
    Worker = {w1}
    Root = pb
    MaxRequests = 1
INVARIANTS
    NetModsStart
\* A server may crash at its start, and connections are bounded.
CHECK_DEADLOCK FALSE
