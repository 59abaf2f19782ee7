\* Two workers and a job with every counter in play that is replayed, which restarts the attempt numbers.
CONSTANTS
    w1 = w1
    w2 = w2
    j1 = j1
    Worker = {w1, w2}
    Job = {j1}
    NoWorker = NoWorker
    NoClaim = NoClaim
    MaxAttempts = 1
    MaxDeferrals = 1
    MaxContinuations = 1
    BatchSize = 1
    MaxClaims = 2
    SkipLocked = FALSE
    Mortal = {w1, w2}
    Replayable = {j1}
    Prunable = {j1}
SPECIFICATION Spec
SYMMETRY SymmetricWorkers
CHECK_DEADLOCK FALSE
INVARIANTS OverlapOnlyAfterExpiry RunnerFenced HistoryAgrees BudgetOK
PROPERTY ImplementsLifecycle
