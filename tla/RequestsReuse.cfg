SPECIFICATION RequestsSpec
CONSTANTS
    Domain = {d1}
    Token = {t1, t2, t3}
    Blank = Blank
    Out = {o1, o2}
    Inc = {}
    Null = Null
    Stub = Stub
    MaxTries = 1
    Lifetime = 0
    MaxTime = 0
    Req = {r1, r2}
    MaxAnswers = 2
INVARIANTS
    NotUsedAfterAnswer
\* Requests and calls run once: when all are done nothing moves.
CHECK_DEADLOCK FALSE
