\* One follow-up message.
SPECIFICATION MCSpec
CONSTANTS
    MaxIterations = 1
    MaxCost = 0
    MaxTokens = 0
    Costs = {0}
    Tokens = {0}
    Parallel = FALSE
    Session = "none"
    HasMemory = FALSE
    CompactAt = 0
    ChanCap = 2
    Histories <- Prompted
    MaxTurns = 1
    MaxCalls = 1
    MaxDeltas = 1
    MaxUpdates = 0
    MaxSteers = 0
    MaxFollowUps = 1
PROPERTIES
    FollowUpDelivered
