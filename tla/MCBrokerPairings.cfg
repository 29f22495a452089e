SPECIFICATION Spec
CONSTANTS
    Pairings = {p1, p2}
    Workers = {w1}
    Api = Api
    NoPairing = NoPairing
    MaxFaults = 0
SYMMETRY Symmetry
INVARIANTS
    BindingHasItsSaga
    OneLiveAuthorization
PROPERTIES
    DisconnectedMeansRevoked
CHECK_DEADLOCK FALSE
