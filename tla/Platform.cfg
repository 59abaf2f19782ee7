CONSTANTS
    h1 = h1
    h2 = h2
    Text = Text
    ValueError = ValueError
    Unset = Unset
    Host = {h1, h2}
    Requests <- MCRequests
    Server <- MCServer
    MaxClients = 4
    MaxFaults = 1
    Caller = {c1, c2}
    Edits <- MCEdits
    Shared = TRUE
    MaxReads = 3
    MaxSourceFaults = 1
    MaxTime = 1
    RetrySeconds = 1
    BusProcess = {p1, p2}
    Outbound <- MCOutbound
    MaxLen = 2
    ReadBatch = 2
    MaxStarts = 2
    MaxTroubles = 2
    Event = {e1, e2, e3}
    MaxDepth = 3
    MaxTransactions = 5
    Hints <- MCHints
    MaxThreads = 2
    MaxLosses = 2
    Keepalive = 1
    Plain = {k1, k2}
    Tiers <- MCTiers
    CounterTtl = 2
    SweepInterval = 3
    DeleteBatch = 1
    MaxTick = 6
    MaxValue = 2
    MaxInstances = 2
    MaxClock = 2
    KeepFor = 1
    MaxLostWrites = 1
    Migrator = {m1, m2}
    MaxInterruptions = 2
SYMMETRY Symmetry
SPECIFICATION HostSpec
CHECK_DEADLOCK FALSE
INVARIANTS ClosedWhenDone BuiltAsChecked SettingsApply HandledOnceRead RowsTellTheTruth OneLoopEach
    DispatchedAsCommitted SubscriptionSound StateKept LockoutHolds BeatsUntilDone CurrentIsBuilt RunsResume
PROPERTY OthersKept
