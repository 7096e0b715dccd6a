CONSTANTS
    Half = 5
    TimeMod = 20000
    MaxDepth = 2
    MaxFrames = 10
    MaxBufferSize = 3
    MaxPackets = 5
    Lifetime = 2
    Silence = Silence
SPECIFICATION RecoverySpec
INVARIANTS
    BufferFaithful
    RecoveredOnce
PROPERTIES
    ImplementsPlayout
    OverfullMovesOn
