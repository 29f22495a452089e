SPECIFICATION Spec
CONSTANTS
    Workers = {w1, w2}
    MaxBindings = 2
    MaxRefreshes = 2
    MaxAttempts = 2
    MaxStamp = 4
    MaxFailures = 2
SYMMETRY Symmetry
INVARIANTS
    TypeOK
    OneSnapshotPerJob
    HydratedOrRevoked
    PairingVerifiedByItself
CHECK_DEADLOCK FALSE
