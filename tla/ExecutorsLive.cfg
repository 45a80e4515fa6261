SPECIFICATION FairSpec
CONSTANTS
    j1 = j1
    j2 = j2
    Job = {j1}
    KubernetesJob = {j1}
    Alike <- NoLookalike
    Interactive = {j1}
    PortRange = 2
    FailurePolicy = 1
    Handlers = 2
    MaxTentatives = 1
    MaxRequests = 1
    MaxPauses = 1
    MaxFaults = 2
CHECK_DEADLOCK FALSE
PROPERTIES
    EndNoticed
    PendingStarts
    KillServed
