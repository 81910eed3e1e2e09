CONSTANTS
    Monitor = {m1}
    Thread = {t1, t2}
    NPages = 2
    QUEUE_MAX_EVT = 1
    AllocMayFail = FALSE
    Free = Free
    NoMonitor = NoMonitor
SYMMETRY Symmetry
SPECIFICATION Spec
INVARIANTS
    CountExact
    EvtfdBacked
    LockReleased
    UnmapReported
    NoCallAfterFree
