CONSTANTS
    Monitor = {m1}
    Thread = {t1, t2}
    NPages = 1
    QUEUE_MAX_EVT = 0
    AllocMayFail = TRUE
    Free = Free
    NoMonitor = NoMonitor
SPECIFICATION FairSpec
PROPERTIES
    InvalidationsEnd GetStateAnswers
