SPECIFICATION Spec
CONSTANTS
    Pairings = {p1}
    Workers = {w1}
    Api = Api
    NoPairing = NoPairing
    MaxFaults = 0
INVARIANTS
    RevocationWins
CHECK_DEADLOCK FALSE
