\* One worker keeps running, the other may die at any point.
CONSTANTS
    w1 = w1
    w2 = w2
    j1 = j1
    Worker = {w1, w2}
    Job = {j1}
    NoWorker = NoWorker
    NoClaim = NoClaim
    MaxAttempts = 2
    MaxDeferrals = 0
    MaxContinuations = 0
    BatchSize = 1
    MaxClaims = 3
    SkipLocked = TRUE
    Mortal = {w2}
    Replayable = {}
    Prunable = {}
SPECIFICATION FairSpec
CHECK_DEADLOCK FALSE
PROPERTIES EveryJobSettles LateRunIsSuperseded NotClaimedEarly
