CONSTANTS
    Page = {p1}
    Frame = {f1, f2}
    App = {a1}
    Srv = Srv
    Mon = Mon
    Free = Free
    Stuck = Stuck
    None = None
    NotPresent = NotPresent
    Calls = {"get", "buffer", "sync"}
    MonitorUp = FALSE
    MayFail = TRUE
    MaxUnmaps = 1
    MaxCsr = 2
SPECIFICATION FairSpec
INVARIANTS
    PinsInv
PROPERTIES
    RequestsAnswered SyncReturns
CHECK_DEADLOCK FALSE
