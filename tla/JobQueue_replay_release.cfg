\* A release delayed past the replay and the new claim of its job.
CONSTANTS
    w1 = w1
    j1 = j1
    j2 = j2
    Worker = {w1}
    Job = {j1, j2}
    NoWorker = NoWorker
    NoClaim = NoClaim
    MaxAttempts = 1
    MaxDeferrals = 0
    MaxContinuations = 0
    BatchSize = 2
    MaxClaims = 2
    SkipLocked = FALSE
    Mortal = {w1}
    Replayable = {j2}
    Prunable = {}
SPECIFICATION Spec
CHECK_DEADLOCK FALSE
INVARIANT ReleasedNeverRan
