SPECIFICATION FairSpec
CONSTANTS
    Jobs = {j1}
    Workers = {w1, w2}
    NoJob = NoJob
    NoWorker = NoWorker
    LeaseTicks = 2
    HeartbeatTicks = 1
    LockTicks = 4
    MaxAttempts = 3
    MaxDelay = 2
    DeferTicks = 1
    MaxThrows = 1
    MaxDefers = 1
    MaxStalls = 1
    MaxCrashes = 1
    MaxCancels = 1
INVARIANTS
    TypeOK
    RunningWorkerKeepsLease
    LockExcludesUntilItExpires
    CrashNeverDeadLetters
PROPERTY
    DeliversAtLeastOnce
