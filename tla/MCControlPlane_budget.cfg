SPECIFICATION MCSpec
CONSTANTS
    CIRun = {}
    NoHead = NoHead
    MaxRetries = 3
    MaxHeads = 2
    MaxMain = 1
    MaxQueued = 1
    MaxAsked = 5
    Worker = {d1, d2}
    MaxIssue = 2
    NoBranch = NoBranch
    Nobody = Nobody
    MaxListed = 2
    MaxTip = 2
    MaxAttempt = 2
INVARIANTS
    RetriesStop
CHECK_DEADLOCK FALSE
