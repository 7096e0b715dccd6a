CONSTANTS
    Half = 8
    TimeMod = 20000
    MaxDepth = 1
    MaxBufferSize = 2
    MaxPackets = 3
    MaxFrames = 4
    PayloadType = 112
    NoFrame = NoFrame
    Workers = {w1, w2}
SPECIFICATION AdapterSpec
INVARIANTS
    AdapterTypeOK
    HandedFaithful
    HandedOnce
    RestMeansWaiting
    BufferBounded
    StoppedStaysClosed
PROPERTIES
    StopReturns
