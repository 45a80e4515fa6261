SPECIFICATION Spec
CONSTANTS
    Job = {j1, j2}
    u1 = u1
    User = {u1}
    NoJob = NoJob
    Owner <- OneOwner
    Size <- OneEach
    RateLimit = 1
    RateLimitAll = 2
    DiskQuota = 0
    Clients = 2
    MaxTroubles = 2
SYMMETRY JobSymmetry
INVARIANTS
    TypeOK
    LimitHeld
    Restored
    DiskCounted
CHECK_DEADLOCK FALSE
