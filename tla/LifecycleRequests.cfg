SPECIFICATION Spec
CONSTANTS
    j1 = j1
    j2 = j2
    NoTask = NoTask
    Job = {j1, j2}
    Watcher = {w1, w2}
    DependsOn <- Chain
    OverQuota = {j2}
    Expiring = {}
    FailurePolicy = 0
    MaxTentatives = 0
    MaxRuns = 1
    MaxKills = 1
    MaxReschedules = 1
    MaxCrashes = 1
    MaxOutages = 1
SYMMETRY WatcherSymmetry
INVARIANTS
    NeverInBoth
    RemovedFirst
    RecordKept
    DependenciesFirst
PROPERTIES
    StatesPromised
