SPECIFICATION Spec
CONSTANTS
    Domain = {d1, d2}
    Token = {t1, t2}
    Blank = Blank
    Out = {o1}
    Inc = {i1, i2}
    Null = Null
    Stub = Stub
    MaxTries = 1
    Lifetime = 0
    MaxTime = 1
SYMMETRY Symmetry
INVARIANTS
    TypeOK
    TokenNamesLinkedPeer
    IncomingPeerReachable
PROPERTIES
    ImplementsDirectory
\* A call runs once: when all have ended and the clock stands, nothing moves.
CHECK_DEADLOCK FALSE
