CONSTANTS
    Page = {p1, p2}
    Frame = {f1, f2}
    App = {a1}
    Srv = Srv
    Mon = Mon
    Free = Free
    Stuck = Stuck
    None = None
    NotPresent = NotPresent
    Calls = {"get", "sync", "try"}
    MonitorUp = TRUE
    MayFail = FALSE
    MaxUnmaps = 2
    MaxCsr = 2
SYMMETRY Symmetry
SPECIFICATION Spec
INVARIANTS
    NoStalePin
    AnswersMatch
    UsedPageCurrent
    NoAbort
    CacheExplained
CHECK_DEADLOCK FALSE
