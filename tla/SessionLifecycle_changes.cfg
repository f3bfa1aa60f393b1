\* Three sessions under an edited policy file, with one disruption.
SPECIFICATION Spec
CONSTANTS
    Policies = {p1, p2}
    LightPolicies = {}
    OtherFiles = {"invalid"}
    MaxSessions = 3
    MaxTurns = 1
    Modes = {"events"}
    MaxDisruptions = 1
SYMMETRY Symmetry
INVARIANTS
    ChangeLeavesRecord
    DisclosedUnlessFailed
PROPERTIES
    CheckpointIsFinal
