SPECIFICATION Spec
SYMMETRY MCSymmetry
CONSTANTS
    j1 = j1
    j2 = j2
    Attempts = 3
    w1 = w1
    w2 = w2
    NoWorker = NoWorker
    MaxAttempts <- MCMaxAttempts
    RunAfters <- MCRunAfters
    Jobs = {j1, j2}
    Workers = {w1, w2}
    Limit = 2
    LeaseSeconds = 2
    RetryDelay = 0
    RetryDelays = {0}
    MaxLag = 1
    MaxCrashes = 1
    MaxRetries = 1
INVARIANTS
    TypeOK
    ExclusiveUntilExpiry
    AttemptsWithinLimit
    InHandIsRunning
PROPERTY
    LedgerSpec
