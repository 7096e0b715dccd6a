CONSTANTS
    Half = 4
    TimeMod = 20000
    MaxDepth = 2
    MaxFrames = 24
    MaxBufferSize = 2
    MaxPackets = 4
SPECIFICATION CodecSpec
INVARIANTS
    NoStrandedPacket
    HistoryRecent
    WireFaithful
