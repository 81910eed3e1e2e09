CONSTANTS
    t1 = t1
    t2 = t2
    Thread = {t1, t2}
    Small = 1
    Large = 3
    Units = 6
    Threshold = 1
    Lengths = {1, 2}
    UserMemory = {0, 1}
    MaxPrepares = 3
    MaxUnmaps = 1
    MaxFaults = 1
SYMMETRY Symmetry
SPECIFICATION Spec
INVARIANTS
    InUseKept
    LeaksExplained
    OutdatedExplained
PROPERTIES
    UnmapsItsOwn
CHECK_DEADLOCK FALSE
