SPECIFICATION LifeSpec
CONSTANTS
    Requests = {r1, r2, r3}
    Workers = 2
    MaxQueue = 1
    LoopEnds = TRUE
    Blocks = {b1, b2}
    NULL = NULL
SYMMETRY Symmetry
CHECK_DEADLOCK FALSE
INVARIANTS
    ReadyToServe
    CrashOnlyWithoutPool
    LeakOnlyByFailedConnect
    UndefinedOnlyByOom
