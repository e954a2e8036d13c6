\* Deadlock is not checked: the program ends when a write fails.
SPECIFICATION FairSpec
CONSTANTS
    QueueSize = 2
    CasterQueueSize = 2
    NavWrites = 1
    RtcmWrites = 1
    MaxBackoff = 3
    MaxHandles = 2
    MaxMessages = 5
INVARIANTS
    TypeOK
    OneReader
    AdvancedMeansConfigured
    FramesInOrder
PROPERTY
    ReconnectsUnlessOvertaken
CHECK_DEADLOCK FALSE
