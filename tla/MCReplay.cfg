SPECIFICATION Spec
CONSTANTS
    Requests = {r1, r2, r3}
    Adapters = {a1, a2}
    NoAdapter = none
    Main = main
    Nobody = nobody
    Files <- MCFiles
    ChunkBytes = 4
INVARIANTS
    ReplayTypeOK
    OneReplay
    CleanShutdown
PROPERTIES
    PlaysTheAudio
    StopReturns
CHECK_DEADLOCK FALSE
