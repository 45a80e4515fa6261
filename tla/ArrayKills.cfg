SPECIFICATION FairSpec
CONSTANTS
    Child = {c1, c2}
    Parent = p
    Watcher = {w1}
    NoTask = NoTask
    FailurePolicy = 0
    MaxKills = 1
CHECK_DEADLOCK FALSE
PROPERTIES
    UnrestartedEnds
