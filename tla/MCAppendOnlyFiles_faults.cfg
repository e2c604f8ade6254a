SPECIFICATION FilesSpec
CONSTANTS
    Writer = {w1, w2}
    AttemptId = {a1, a2}
    NoAttempt = NoAttempt
    NoEntry = NoEntry
    Observed <- MCObserved
    Faults = {"kill", "disk", "power"}
    MaxMishaps = 2
    Process = {p1, p2, p3}
    Worker = {k1, k2}
    Nobody = Nobody
    NoWorker = NoWorker
    MailFaults = {"kill", "disk", "power"}
    MaxCalls = 3
INVARIANTS ChainStaysValid ReceiptsAreKept PublishedIsWhole
PROPERTIES ImplementsArchive
SYMMETRY FilesSymmetry
