CONSTANTS
    t1 = t1
    t2 = t2
    Thread = {t1, t2}
    Regions = 3
    Large = 3
    Threshold = 1
    Requests = {1, 4, 5}
    Offsets = {0}
    Nodes = 3
    Free = Free
    MaxCalls = 3
    MaxApp = 1
    MaxFaults = 1
SYMMETRY Symmetry
SPECIFICATION Spec
INVARIANTS
    TableRight
    BuffersApart
    NothingLost
PROPERTIES
    ProgramKept
CHECK_DEADLOCK FALSE
