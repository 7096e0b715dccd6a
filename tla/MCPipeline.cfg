SPECIFICATION Spec
CONSTANTS
    Pipes = {global}
    Sources = {rtp, replay}
    QueueSize = 2
    FrameLen = 2
    InRate = 2
    OutRate = 3
    MaxChunk = 3
    MaxSamples = 6
INVARIANTS
    NothingLost
    NoFrameHeldBack
PROPERTIES
    StoppedIsSilent
    AcceptedIsEncoded
