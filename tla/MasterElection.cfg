SPECIFICATION FairSpec
CONSTANTS
    Scheduler = {s1, s2, s3}
    NoOne = NoOne
    Stale = Stale
    Timeout = 2
    MayCrash <- OutOfElection
    MaxCrashes = 2
    MaxStops = 2
INVARIANTS
    TypeOK
    OneActiveInTime
    OwnsKey
PROPERTIES
    WaitForTimeout
    Failover
