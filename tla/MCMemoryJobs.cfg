CONSTANTS
    Threads = {t1, t2}
    MaxRunning = 1
    Lease = 2
    RetryDelay = 1
    Cooldown = 2
    Retries = 1
    MaxSelected = 1
    MaxTime = 4
    MaxUpdates = 2
    MaxClaims = 2
    MaxClaims2 = 2
    MaxWatermark = 3
SPECIFICATION Spec
SYMMETRY Symmetry
INVARIANTS OutputIsNewest SelectionIsOfLastSuccess CooldownRespected LeaseProtects
CHECK_DEADLOCK FALSE
