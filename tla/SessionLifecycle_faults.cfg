\* A signal, a crash or a failed call at any point of two sessions, under fairness.
SPECIFICATION FairSpec
CONSTANTS
    Policies = {p1}
    LightPolicies = {}
    OtherFiles = {"missing"}
    MaxSessions = 2
    MaxTurns = 2
    Modes = {"oneshot", "events"}
    MaxDisruptions = 1
INVARIANTS
    EndingsAreTrue
    NoUnrecordedWake
    SilenceMeansCovered
PROPERTIES
    SessionReturns
    SignalStops
