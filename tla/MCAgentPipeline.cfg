SPECIFICATION Spec
CONSTANTS
    Agents = {a1, a2}
    Symbols = {X, Y}
    Workers = {w1, w2}
    Amount = 4
    Value = 20
    Powers <- OneOrder
    Policy <- Tight
    Lifetime = 2
    Circumstances <- Ineligible
    MaxRuns = 1
    QuoteAges = {0}
    MaxChanges = 1
    MaxTime = 2
SYMMETRY Interchangeable
INVARIANTS
    TypeOK
    OneLiveProposal
    ReservationFollowsProposal
PROPERTIES
    ReservationsWithinPower
    DecidedOnce
    NothingSubmittedWhilePaused
CHECK_DEADLOCK FALSE
