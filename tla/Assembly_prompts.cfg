\* Every wiring, stores with no, few and more rows than a query takes, budgets
\* too small for every phase, and one failing call.
SPECIFICATION Spec
CONSTANTS
    Counts = {0, 3, 11}
    Budgets = {0, 2, 10, 14}
    Sizes = {1, 5}
    MaxFaults = 1
INVARIANTS
    NotesDelivered
    ManifestTruthful
\* An assembly ends.
CHECK_DEADLOCK FALSE
