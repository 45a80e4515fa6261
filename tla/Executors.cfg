SPECIFICATION Spec
CONSTANTS
    j1 = j1
    j2 = j2
    Job = {j1, j2}
    KubernetesJob = {j1}
    Alike <- Lookalike
    Interactive = {j1, j2}
    PortRange = 2
    FailurePolicy = 1
    Handlers = 2
    MaxTentatives = 0
    MaxRequests = 1
    MaxPauses = 1
    MaxFaults = 1
CHECK_DEADLOCK FALSE
INVARIANTS
    TypeOK
    LiveIsFollowed
    PortsApart
