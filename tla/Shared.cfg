SPECIFICATION SharedFairSpec
CONSTANTS
    Exchange = {e1, e2}
    Plain = {e1}
    Timeout = 2
    CloseTimeout = 1
    Never = Never
    MaxTime = 6
    RepoPath = {r1, r2}
    Object = {o1, o2, o3}
    Thread = {t1, t2}
    Null = Null
    LruMax = 1
    MaxCalls = 2
INVARIANTS
    TlsCallsBackOnce
    AnsweredInTime
    MemorySafety
PROPERTIES
    EveryExchangeEnds
    LocksAreGivenBack
\* Requests and calls are bounded, and a purge of the list may never end.
CHECK_DEADLOCK FALSE
