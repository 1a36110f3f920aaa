\* Two tool calls in one turn, in parallel or one after another, with updates, patches
\* and a session that loses entries.
SPECIFICATION MCSpec
CONSTANTS
    MaxIterations = 1
    MaxCost = 0
    MaxTokens = 0
    Costs = {0}
    Tokens = {0}
    Parallel = TRUE
    Session = "failing"
    HasMemory = FALSE
    CompactAt = 0
    ChanCap = 2
    Histories <- Prompted
    MaxTurns = 1
    MaxCalls = 2
    MaxDeltas = 2
    MaxUpdates = 1
    MaxSteers = 0
    MaxFollowUps = 0
INVARIANTS
    TypeOK
    ToolResultsPaired
    SessionReplays
PROPERTIES
    EventsAsPromised
