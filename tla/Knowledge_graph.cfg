\* A cycle of derivations, two callers racing to replace an entity, a decay
\* pass, failures and crashes.
SPECIFICATION FairSpec
CONSTANTS
    log = log
    nar = nar
    ref = ref
    e1 = e1
    e2 = e2
    e3 = e3
    T2 = {log}
    T3 = {nar}
    T4 = {ref}
    T5 = {e1, e2, e3}
    Links <- Derivations
    Callers = {s1, s2}
    MaxRows = 3
    MaxFaults = 1
    MaxCalls = 2
INVARIANTS
    DistrustIsExact
    
    Lineage
    ReflectionConsent
PROPERTY PropagationEnds
\* The bounds run out.
CHECK_DEADLOCK FALSE
