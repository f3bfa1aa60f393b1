\* One process, two documents, edits, amendments, faults and crashes.
SPECIFICATION FairSpec
CONSTANTS
    Processes = {p1}
    Docs = {soul, rights}
    Contents = {c1, c2}
    Absent = Absent
    HasAnchorStore = TRUE
    MaxEdits = 3
    MaxFaults = 1
INVARIANTS
    OneVersion
    WitnessedOrLogged
PROPERTIES
    NoneForgotten
    RepairedBoots
