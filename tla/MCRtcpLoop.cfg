CONSTANTS
    Half = 4
    GapLimit = 4
    ReportEvery = 3
    Lifetime = 3
    MaxFrames = 9
    MaxArrivals = 6
SPECIFICATION LoopSpec
CHECK_DEADLOCK FALSE
INVARIANTS
    ExactInOrder
    LossNotUnderstated
    ModeKept
