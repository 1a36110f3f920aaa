\* Two runs, the first of which may be aborted and given up while its loop goes on.
SPECIFICATION MCSpec
CONSTANTS
    MaxRuns = 2
    MaxTurns = 1
    MaxCalls = 1
    LoopCap = 1
    OutCap = 1
    SentEvents <- OneToolThenAnswer
INVARIANTS
    TypeOK
    IdleIsSettled
    HistoryInStep
PROPERTIES
    AbortIdles
