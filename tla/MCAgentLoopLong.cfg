\* Continued conversations, compacted during the run, with a reliable session, a memory
\* backend and limits on cost and tokens.
SPECIFICATION MCSpec
CONSTANTS
    MaxIterations = 2
    MaxCost = 3
    MaxTokens = 1
    Costs = {2}
    Tokens = {0, 1}
    Parallel = TRUE
    Session = "reliable"
    HasMemory = TRUE
    CompactAt = 5
    ChanCap = 1
    Histories <- Continued
    MaxTurns = 2
    MaxCalls = 1
    MaxDeltas = 1
    MaxUpdates = 0
    MaxSteers = 0
    MaxFollowUps = 1
INVARIANTS
    BudgetHonest
    SessionOutlivesCompaction
