CONSTANTS
    Job = {j1}
    Cpu <- One
    Interactive = {j1}
    Slots <- One
    OfferCpus <- TwoCpus
    LastPort = 1
    LastSlot = 1
    FailurePolicy = 1
    Handlers = 2
    Reconcile = TRUE
    MaxOffers = 1
    MaxRuns = 2
    MaxTentatives = 2
    MaxKills = 1
    MaxRepeats = 2
    MaxCrashes = 1
SPECIFICATION FairSpec
INVARIANTS TypeOK LaunchedOnce LiveIsFollowed
PROPERTIES RestartHasCause WaitEnds KillDelivered EndNoticed
CHECK_DEADLOCK FALSE
