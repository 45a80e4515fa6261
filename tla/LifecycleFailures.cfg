SPECIFICATION Spec
CONSTANTS
    j1 = j1
    j2 = j2
    NoTask = NoTask
    Job = {j1, j2}
    Watcher = {w1, w2}
    DependsOn <- NoDependency
    OverQuota = {}
    Expiring = {}
    FailurePolicy = 1
    MaxTentatives = 0
    MaxRuns = 2
    MaxKills = 0
    MaxReschedules = 0
    MaxCrashes = 1
    MaxOutages = 0
SYMMETRY JobWatcherSymmetry
INVARIANTS
    TypeOK
    QueuedExact
    OneContainer
    RecordedOnce
    OneOwner
