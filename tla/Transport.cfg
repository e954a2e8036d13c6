\* Deadlock is not checked: a transport that is shut down, with no subscriber
\* left, has nothing more to do.
SPECIFICATION FairSpec
CONSTANTS
    Subscribers = {s1, s2}
    SENTINEL = SENTINEL
    QUEUE_MAXSIZE <- SmallQueue
    MaxFrames <- FewFrames
INVARIANTS
    QueueIsBacklog
    NobodyForgotten
PROPERTIES
    ImplementsFeed
    ToldStreamsEnd
CHECK_DEADLOCK FALSE
