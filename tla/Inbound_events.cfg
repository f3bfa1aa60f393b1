\* One Discord channel and stdin, pages of two, channels of capacity one.
SPECIFICATION FairSpec
CONSTANTS
    c1 = c1
    Channels = {c1}
    PageSize = 2
    OutCap = 1
    MergedCap = 1
    MaxPosts = 3
    MaxLines = 1
    MaxFaults = 1
    Prior = 45
    MaxTrust = 95
    StoredPrior = 40
    MinTrust = 30
    Ramp = 2
    Flagged <- FirstFlagged
INVARIANTS
    NothingLost
    NoGap
    RepeatsBounded
    EofDrains
    CleanWakes
PROPERTY EventuallyHandled
\* A process that has returned is not always started again.
CHECK_DEADLOCK FALSE
