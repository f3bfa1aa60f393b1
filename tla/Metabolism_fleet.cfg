\* Two overlapping daemons with the AtomicT2T3Link fallback.
SPECIFICATION Spec
CONSTANTS
    Procs = {p1, p2}
    Jobs = {j1}
    Slots = 1
    Consolidation = FALSE
    MaxClaimCount = 3
    MaxRetries = 2
    MaxDisruptions = 3
SYMMETRY Symmetry
INVARIANTS
    AttemptsBounded
    CompletedIsCovered
PROPERTIES
    TerminalIsFinal
    StaleNeverWrites
