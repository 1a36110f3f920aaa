\* Three frames whose indices come in order, or late and repeated; a slow consumer, Stop at
\* any moment.
SPECIFICATION MCSpec
CONSTANTS
    MaxJobs = 3
    FrameOrders <- Orders
    HistoryCap = 2
    WindowSize = 2
    EventCap = 2
    MaxProgress = 1
INVARIANTS
    TypeOK
    OnePipeline
    FramesKept
    StreamHonest
    WindowEndsWithFrame
PROPERTIES
    StartsInOrder
    PendingStarts
    StopClosesEvents
