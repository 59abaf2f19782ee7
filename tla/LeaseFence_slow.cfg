\* A call takes up to a quarter of an interval; the lease is three whole beats and one call.
CONSTANTS
    Lease = 19
    Interval = 4
    Latency = 1
    Telemetry = 1
    Horizon = 30
SPECIFICATION Spec
CHECK_DEADLOCK FALSE
INVARIANTS OverrunBounded TwoMissesTolerated
