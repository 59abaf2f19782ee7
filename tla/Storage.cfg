CONSTANTS
    c1 = c1
    c2 = c2
    c3 = c3
    Session = Session
    Client = {c1, c2, c3}
    Plans <- MCPlans
    Layouts = {"opaque", "legacy", "plain"}
    Old <- MCOld
    Nothing = Nothing
    Number = {1, 2, 3}
    MaxBytes = 2
    MinPart = 1
    MaxFaults = 1
    Mortal = {c1}
SPECIFICATION MCSpec
CHECK_DEADLOCK FALSE
INVARIANTS WholeObjects LooksAreCurrent LastWriteStands SessionsCloseForGood NothingLeftBehind
