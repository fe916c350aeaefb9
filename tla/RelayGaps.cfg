SPECIFICATION FairSpec
CONSTANTS
    Invocations = {a, b, c}
    None = None
    MAX_DURATION = 3
    HANDOVER_MARGIN = 1
    LEASE_TTL = 2
    CRON_EVERY = 2
    DUPLICATE_WINDOW = 1
    MaxClock = 8
    MaxActive = 1
    Enabled = {"kill"}
INVARIANT HolesWereNoticed
PROPERTY DeadHoldersLeaseEnds
CHECK_DEADLOCK FALSE
