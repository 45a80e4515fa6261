CONSTANTS
    Job = {j1}
    Cpu <- One
    Interactive = {j1}
    Slots <- One
    OfferCpus <- TwoCpus
    LastPort = 1
    LastSlot = 1
    FailurePolicy = 2
    Handlers = 2
    Reconcile = TRUE
    MaxOffers = 1
    MaxRuns = 3
    MaxTentatives = 2
    MaxKills = 1
    MaxRepeats = 1
    MaxCrashes = 1
SPECIFICATION Spec
PROPERTY RestartHasCause
CHECK_DEADLOCK FALSE
