\* As the composition root wires it: cfg.anchors is never set.
SPECIFICATION Spec
CONSTANTS
    Processes = {p1}
    Docs = {soul, rights}
    Contents = {c1, c2}
    Absent = Absent
    HasAnchorStore = FALSE
    MaxEdits = 3
    MaxFaults = 1
INVARIANTS
    OneVersion
