\* One production daemon over its crashes and restarts, two sessions, under fairness.
SPECIFICATION FairSpec
CONSTANTS
    Procs = {p1}
    Jobs = {j1, j2}
    Slots = 1
    Consolidation = TRUE
    MaxClaimCount = 3
    MaxRetries = 2
    MaxDisruptions = 2
INVARIANTS
    AtMostOneNarrative
    UnscreenedNotPromoted
PROPERTIES
    ImplementsContract
    RecoveryFinishes
    EventuallyResolved
