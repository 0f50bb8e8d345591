SPECIFICATION Spec
CONSTANTS
    Domain = {d1, d2}
    Token = {t1, t2}
    Blank = Blank
    Out = {}
    Inc = {i1, i2}
    Null = Null
    Stub = Stub
    MaxTries = 2
    Lifetime = 0
    MaxTime = 1
SYMMETRY Symmetry
PROPERTIES
    GrantRecognized
\* A call runs once: when all have ended and the clock stands, nothing moves.
CHECK_DEADLOCK FALSE
