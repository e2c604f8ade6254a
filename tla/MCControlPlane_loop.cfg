SPECIFICATION MCSpec
CONSTANTS
    CIRun = {c1}
    NoHead = NoHead
    MaxRetries = 1
    MaxHeads = 2
    MaxMain = 1
    MaxQueued = 1
    MaxAsked = 3
    Worker = {d1, d2}
    MaxIssue = 2
    NoBranch = NoBranch
    Nobody = Nobody
    MaxListed = 2
    MaxTip = 2
    MaxAttempt = 2
INVARIANTS
    MergedIsTested MigrationsContiguous 
    DoneIsConverged OneClaimPerWorker
PROPERTIES
    EveryHeadIsJudged StrandedAreRecovered
CHECK_DEADLOCK FALSE
