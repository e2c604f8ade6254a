SPECIFICATION FairRequests
CONSTANTS
    Publisher = {t1, t2}
    Served = {t1, t2}
    Case = {k1}
    NoCase = NoCase
    NoSnapshot = NoSnapshot
    Ref <- MCRef
    NoRef = NoRef
    Body <- MCBody
    NoBody = NoBody
    Foreign = Foreign
    Faults = {"disk", "busy"}
    MaxMishaps = 1
    MaxRequests = 3
    MaxCommits = 1
    MaxTime = 1
    Caller = {c1, c2}
    Problem = {"p"}
    Binding = {"v4", "v5"}
    Unsupported = "v6"
    Linked = {"v5"}
    Capacity = 1
    MaxRestarts = 1
INVARIANTS ConflictNeedsLiveWal AnswersAreTheirs LinksAreClosed
PROPERTIES ImplementsWriteOnce OkIsPublished EveryRequestAnswered OldestIsEvicted
CHECK_DEADLOCK FALSE
