SPECIFICATION FairSpec
CONSTANTS
    j1 = j1
    j2 = j2
    NoTask = NoTask
    Job = {j1}
    Watcher = {w1, w2}
    DependsOn <- NoDependency
    OverQuota = {}
    Expiring = {j1}
    FailurePolicy = 1
    MaxTentatives = 1
    MaxRuns = 2
    MaxKills = 1
    MaxReschedules = 0
    MaxCrashes = 0
    MaxOutages = 0
PROPERTIES
    KillHonoured
    TrackedEnds
