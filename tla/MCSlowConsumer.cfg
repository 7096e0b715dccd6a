SPECIFICATION Spec
CONSTANTS
    QueueLimit = 2
    MaxStarts = 2
    MaxMessages = 3
INVARIANTS
    SlowTypeOK
    OnlyOldestDropped
PROPERTIES
    HandlerReturns
    ReaderEnds
CHECK_DEADLOCK FALSE
