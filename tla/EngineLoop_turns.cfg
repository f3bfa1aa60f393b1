SPECIFICATION FairSpec
CONSTANTS
    Tools = {"post", "exit"}
    Sequential = {"exit"}
    Terminating = {"exit"}
    External = {"post"}
    Texts = {"text"}
    Outputs = {"critical"}
    Costs = {9}
    Total = 20
    HardFloor = 2
    MaxIterations = 3
    MaxBatch = 2
    MaxDrain = 1
    MaxMessages = 2
    MaxFaults = 1
INVARIANTS
    EveryCallAnswered
    ArchiveMatchesHistory
    NoRequestWhenHard
    InjectionOrder
PROPERTIES
    LoopReturns
CHECK_DEADLOCK FALSE
