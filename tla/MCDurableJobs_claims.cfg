SPECIFICATION Spec
CONSTANTS
    j1 = j1
    j2 = j2
    Attempts = 3
    w1 = w1
    w2 = w2
    NoWorker = NoWorker
    MaxAttempts <- MCMaxAttempts
    RunAfters <- MCRunAfters
    Jobs = {j1}
    Workers = {w1, w2}
    Limit = 2
    LeaseSeconds = 3
    RetryDelay = 1
    RetryDelays = {0}
    MaxLag = 0
    MaxCrashes = 0
    MaxRetries = 0
INVARIANT
    OneLiveLease
