SPECIFICATION MCSpec
CONSTANTS
    Agents = {1, 2}
    Frequency <- MCFrequency
    Watches <- MCWatches
    Symbols = {"AAPL", "MSFT"}
    Workers = {w1, w2}
    Delay = 0
    MaxOutstanding = 2
    BatchSize = 2
    ResearchAge = 2
    CycleAge = 2
    UserQuoteAge = 1
    QuoteWindow = 3
    Skew = 0
    ReplyWindow = 2
    MaxAttempts <- MCAttempts
    MaxTime = 3
    MaxCatalogs = 2
    MaxChanges = 1
    MaxFaults = 2
SYMMETRY Symmetry
INVARIANTS
    TypeOK
    FanOutSharesArtifact
    DecisionDataIsFresh
PROPERTIES
    RunsKeepCadence
    TicksKeepCeiling
CHECK_DEADLOCK FALSE
