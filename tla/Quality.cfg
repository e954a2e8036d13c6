\* Deadlock is not checked: the number of frames is bounded.
SPECIFICATION QualitySpec
CONSTANTS
    Stations = {m1}
    PREAMBLE = 211
    HEADER = 2
    TRAILER = 1
    MaxPayload = 1
    FrameTypes <- SmallFrames
    QueueSize = 2
    WINDOW = 2
    Threshold = 1
    MaxFrames = 3
    MaxAhead = 1
    MaxGaps = 2
INVARIANTS
    QualityTypeOK
    ExactlyOnce
    Resynchronises
    DriftIsCounted
    SummaryOrdered
CHECK_DEADLOCK FALSE
