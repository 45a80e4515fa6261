SPECIFICATION Spec
CONSTANTS
    Child = {c1, c2}
    Parent = p
    Watcher = {w1, w2}
    NoTask = NoTask
    FailurePolicy = 1
    MaxKills = 0
SYMMETRY ArraySymmetry
CHECK_DEADLOCK FALSE
INVARIANTS
    TypeOK
    CountCovers
    EndedOnce
    StartAfterParent
