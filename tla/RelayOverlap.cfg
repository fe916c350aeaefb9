SPECIFICATION Spec
CONSTANTS
    Invocations = {a, b}
    None = None
    MAX_DURATION = 3
    HANDOVER_MARGIN = 1
    LEASE_TTL = 2
    CRON_EVERY = 2
    DUPLICATE_WINDOW = 1
    MaxClock = 5
    MaxActive = 2
    Enabled = {"kill", "timeout", "throw", "rest"}
SYMMETRY Symmetry
CHECK_DEADLOCK FALSE
INVARIANT TypeOK
INVARIANT LeaseIsShort
PROPERTY NoSteal
PROPERTY BookGrows
PROPERTY ReleaseTellsOfALostSave
