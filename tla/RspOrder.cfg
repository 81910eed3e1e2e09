CONSTANTS
    N = 8
    Beats = 2
    Threshold = 1
    Extra = 2
    Latency = 1
    ReadyMax = 3
    Mdata = 2
SPECIFICATION RobSpec
INVARIANTS
    NeverFull
    FifoOrder
    TestsTheTrip
