\* Two callers; the operator replaces settings that work by settings that are refused.
CONSTANTS
    Caller = {c1, c2}
    Edits <- MCEdits
    Shared = TRUE
    MaxReads = 3
    MaxSourceFaults = 1
    MaxTime = 1
    Retry = 1
    Nothing = Nothing
SPECIFICATION Spec
CHECK_DEADLOCK FALSE
INVARIANT RejectionStands
