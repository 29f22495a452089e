SPECIFICATION FairSpec
CONSTANTS
    Proposals = {p1}
    Workers = {w1, w2}
    NoWorker = NoWorker
    NoJob = NoJob
    NoSubmission = NoSubmission
    Quantity = 3
    PartialThreshold = 2
    MaxAttempts = 2
    Budgets <- StallOrFail
INVARIANTS
    TypeOK
    OpenOrderIsReconciled
    FillsWithinQuantity
    OrderAgreesWithProposal
    NoPlacementWithoutReceipt
PROPERTIES
    KeepsContract
    OpenOrderCloses
    TerminalIsFinal
CHECK_DEADLOCK FALSE
