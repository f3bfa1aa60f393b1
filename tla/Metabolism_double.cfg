\* The README's claim that fenced leases prevent double-processing.
SPECIFICATION Spec
CONSTANTS
    Procs = {p1, p2}
    Jobs = {j1}
    Slots = 1
    Consolidation = TRUE
    MaxClaimCount = 3
    MaxRetries = 2
    MaxDisruptions = 0
INVARIANTS
    AtMostOneNarrative
