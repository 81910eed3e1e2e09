SPECIFICATION FairSpec
CONSTANTS
    Slots = 4
    Depth = 2
    Requests <- KeptRequests
    Outcome <- MCOutcome
INVARIANTS
    NoOverwrite
PROPERTIES IsPort IsFairPort
CHECK_DEADLOCK FALSE
