SPECIFICATION UsersSpec
CONSTANTS
    Name = {n1, n2}
    Token = {t1, t2}
    Signup = {s1, s2}
    Login = {l1}
    Delete = {x1}
    Null = Null
    Lifetime = 1
    CronPeriod = 2
    MaxTime = 4
SYMMETRY Symmetry
INVARIANTS
    CacheFollowsDatabase
    SignedUpAsSelf
PROPERTIES
    TokenOfOneLogin
\* Requests run once: when all have ended and the clock stands, nothing moves.
CHECK_DEADLOCK FALSE
