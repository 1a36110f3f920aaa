\* An iteration limit of 3, turns of one tool call each, two steering messages, a Cancel at any moment.
SPECIFICATION MCSpec
CONSTANTS
    MaxIterations = 3
    MaxCost = 0
    MaxTokens = 0
    Costs = {0}
    Tokens = {0}
    Parallel = TRUE
    Session = "reliable"
    HasMemory = FALSE
    CompactAt = 0
    ChanCap = 1
    Histories <- Prompted
    MaxTurns = 4
    MaxCalls = 1
    MaxDeltas = 1
    MaxUpdates = 0
    MaxSteers = 2
    MaxFollowUps = 0
INVARIANTS
    IterationLimit
    SteeringInOrder
PROPERTIES
    CancelStopsWithinATurn
    ChannelCloses
