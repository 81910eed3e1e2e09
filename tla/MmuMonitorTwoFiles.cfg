CONSTANTS
    Monitor = {m1, m2}
    Thread = {t1, t2}
    NPages = 1
    QUEUE_MAX_EVT = 0
    AllocMayFail = FALSE
    Free = Free
    NoMonitor = NoMonitor
SPECIFICATION FairSpec
PROPERTIES
    InvalidationsEnd 
CHECK_DEADLOCK FALSE
