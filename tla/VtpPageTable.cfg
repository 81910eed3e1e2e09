SPECIFICATION PtSpec
CONSTANTS
    Levels = 3
    Span <- MCSpan
    Va = {0, 1, 2}
    OsLevels = {0, 1, 2}
    Owners = {"alloc", "user", "demand"}
    AllocMayFail = TRUE
    HwVtp = TRUE
    MaxRefs = 3
    MaxDropped = 1
INVARIANTS
    WellFormed
    PinsKept
PROPERTIES DemandServed IsPageMap
