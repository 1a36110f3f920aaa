\* Stop against Submit.
SPECIFICATION MCSpec
CONSTANTS
    MaxJobs = 2
    FrameOrders <- OneIndex
    HistoryCap = 2
    WindowSize = 2
    EventCap = 1
    MaxProgress = 0
INVARIANTS
    ClosedAfterFrames
