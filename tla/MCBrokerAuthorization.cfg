SPECIFICATION FairSpec
CONSTANTS
    Pairings = {p1}
    Workers = {w1}
    Api = Api
    NoPairing = NoPairing
    MaxFaults = 1
INVARIANTS
    TypeOK
    LiveBindingKeepsCredential
PROPERTIES
    RevokedStaysRevoked
    EveryAuthorizationSettles
CHECK_DEADLOCK FALSE
