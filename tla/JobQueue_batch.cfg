\* One worker runs batches of two jobs while its heartbeat thread abandons,
\* renews and releases them.
CONSTANTS
    w1 = w1
    j1 = j1
    j2 = j2
    Worker = {w1}
    Job = {j1, j2}
    NoWorker = NoWorker
    NoClaim = NoClaim
    MaxAttempts = 2
    MaxDeferrals = 0
    MaxContinuations = 0
    BatchSize = 2
    MaxClaims = 2
    SkipLocked = FALSE
    Mortal = {w1}
    Replayable = {}
    Prunable = {j1}
SPECIFICATION Spec
CHECK_DEADLOCK FALSE
INVARIANT HeartbeatFenced
