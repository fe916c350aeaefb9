SPECIFICATION Spec
CONSTANTS
    Invocations = {a, b}
    None = None
    MAX_DURATION = 3
    HANDOVER_MARGIN = 1
    LEASE_TTL = 2
    CRON_EVERY = 2
    DUPLICATE_WINDOW = 1
    MaxClock = 6
    MaxActive = 2
    Enabled = {"oversize"}
SYMMETRY Symmetry
PROPERTY OnlyTimeDropsALiveLease
CHECK_DEADLOCK FALSE
