\* Every combination of settings.
SPECIFICATION Spec
CONSTANT MaxEvents = 2
INVARIANTS
    RunsWired
\* A refused, returned or panicked process is at its end.
CHECK_DEADLOCK FALSE
