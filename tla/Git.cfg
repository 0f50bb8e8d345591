SPECIFICATION GitSpec
CONSTANTS
    Run = {r1, r2}
    PipeSize = 1
    MaxBlocks = 2
    Reader = {t1, t2}
    File = {f1, f2}
    Branch = {b1, b2}
    Main = b1
    Unlocked = unlocked
    MaxCommits = 3
    Local = {"apis", "u"}
    Remote = {"c"}
    Nobody = nobody
    Names <- MCNames
    Repo <- MCRepo
    MaxParams = 2
    MaxShort = 3
    MaxInt = 7
    Here = "here"
    Away = "away"
    Terse = {"u", "s"}
    Short = {"ab"}
    ApiLike = {"api", "apis"}
    RepoLike = {"repo"}
INVARIANTS
    RunIsComplete
    PageOfOneCommit
    SearchAgreesWithAccess
    PagesAreApart
    SpellingsAgree
    ServedWithAccess
    PageReachable
    AnsweredOnce
PROPERTIES
    EveryRunReturns
\* Processes and requests are bounded.
CHECK_DEADLOCK FALSE
