CONSTANTS
    Half = 8
    TimeMod = 20000
    MaxDepth = 0
    MaxFrames = 3
    MaxBufferSize = 2
    MaxPackets = 6
    Lifetime = 2
    Silence = Silence
SPECIFICATION SessionsSpec
INVARIANTS
    SecondRunRecorded
