SPECIFICATION RouterSpec
CHECK_DEADLOCK FALSE
CONSTANTS
    c1 = c1
    c2 = c2
    call = call
    URLs <- AnyURLs
    NoId = NoId
    DefaultId = websocket
    NoPipe = NoPipe
    Pipes = {p1, p2}
    Sources = {c1, c2}
    QueueSize = 1
    FrameLen = 2
    InRate = 1
    OutRate = 1
    MaxChunk = 1
    MaxSamples = 3
INVARIANTS
    RouterTypeOK
    SessionsIsolated
    OneWorkerPerSession
    ConnectionInOrder
PROPERTIES
    CloseReturns
