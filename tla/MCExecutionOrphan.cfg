SPECIFICATION FairSpec
CONSTANTS
    Proposals = {p1}
    Workers = {w1, w2}
    NoWorker = NoWorker
    NoJob = NoJob
    NoSubmission = NoSubmission
    Quantity = 2
    PartialThreshold = 2
    MaxAttempts = 2
    Budgets <- Stall
PROPERTY
    OpenOrderCloses
CHECK_DEADLOCK FALSE
