\* Abort between the moment a run is called idle and the end of its deferred calls.
SPECIFICATION MCSpec
CONSTANTS
    MaxRuns = 2
    MaxTurns = 1
    MaxCalls = 1
    LoopCap = 1
    OutCap = 1
    SentEvents <- OneToolThenAnswer
INVARIANTS
    AbortReachesRun
