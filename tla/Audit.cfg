CONSTANTS
    Tx = {t1, t2}
    Maintainer = {m1, m2}
    Stories <- MCStories
    Key = {"k1", "k2"}
    Day = 2
    Grace = 1
    Ahead = 1
    WindowsPerRun = 2
    StartTime = 2
    StageTime = {2, 3}
    RunTime = {4, 7}
    VerifyTime = {7}
    MaxTime = 7
    Nothing = Nothing
SPECIFICATION Spec
SYMMETRY Symmetry
CHECK_DEADLOCK FALSE
INVARIANTS HonestLogVerifies NoRowLost SinkAgrees
