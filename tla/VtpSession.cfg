CONSTANTS
    m1 = m1
    m2 = m2
    Srv = Srv
    User = User
    Monitors = {m1, m2}
    Free = Free
    None = None
    Lost = Lost
    Chains <- AfuChains
    Wanted = {0, 1, 3}
    Mapped = {FALSE}
    MaxSessions = 2
    MaxRequests = 1
    MaxCalls = 1
    MaxUnmaps = 1
    MaxFaults = 1
SPECIFICATION FairSpec
INVARIANTS
    SessionsApart
    NoUseAfterFree
    MutexReturns
    Watched
PROPERTIES
    DisconnectEnds
CHECK_DEADLOCK FALSE
