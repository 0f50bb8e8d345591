SPECIFICATION RequestsFairSpec
CONSTANTS
    Domain = {d1}
    Token = {t1, t2}
    Blank = Blank
    Out = {o1, o2}
    Inc = {i1}
    Null = Null
    Stub = Stub
    MaxTries = 1
    Lifetime = 0
    MaxTime = 1
    Req = {r1, r2}
    MaxAnswers = 2
INVARIANTS
    ReservedInFlight
PROPERTIES
    SentToLinkedPeer
    EveryRequestAnswered
    EveryCallEnds
\* Requests and calls run once: when all are done nothing moves.
CHECK_DEADLOCK FALSE
