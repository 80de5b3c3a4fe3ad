SPECIFICATION ControlledFairSpec
CONSTANTS
    Slots = {s1, s2}
    RequestSizes = {1, 3}
    RequestLimit = 1
    RecvSize = 2
    AnswerSize = 1
    MaxBatch = 3
CHECK_DEADLOCK FALSE
INVARIANTS
    StopIsClean
    StopIsAnswered
PROPERTIES
    NothingAfterDrain
    StopReturns
    DrainCompletes
    PeerReleased
