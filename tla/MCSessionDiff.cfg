CONSTANTS
    Case = {A, B}
    LogVersions = 2
    SimVersions = 4
    Events = {"e1", "e2"}
    Supplement = {"none", "s1", "s2"}
    NoSupplement = "none"
    MaxContexts = 2
    CursorSeed = {"s"}
    CursorTime = {1, 2}
    MaxSuffix = 2
    Nothing = Nothing
    SessionCall = {x1, x2}
SPECIFICATION SessionSpec
SYMMETRY SessionSymmetry
CHECK_DEADLOCK FALSE
INVARIANT DiffSeesChange
