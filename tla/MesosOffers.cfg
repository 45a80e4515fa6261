CONSTANTS
    Job = {j1, j2, j3}
    Cpu <- One
    Interactive = {j1, j2}
    Slots <- TwoThenOne
    OfferCpus <- ThreeCpus
    LastPort = 1
    LastSlot = 3
    FailurePolicy = 0
    Handlers = 0
    Reconcile = FALSE
    MaxOffers = 1
    MaxRuns = 1
    MaxTentatives = 1
    MaxKills = 0
    MaxRepeats = 0
    MaxCrashes = 0
SPECIFICATION Spec
CONSTRAINT NoneEnds
INVARIANTS GivenOnce
CHECK_DEADLOCK FALSE
