SPECIFICATION Spec
CONSTANTS
    Workers = {w1}
    MaxBindings = 1
    MaxRefreshes = 2
    MaxAttempts = 2
    MaxStamp = 6
    MaxFailures = 1
INVARIANT
    ReplayIsIdempotent
CHECK_DEADLOCK FALSE
