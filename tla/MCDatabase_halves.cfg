SPECIFICATION FairDatabase
CONSTANTS
    Process = {p1, p2}
    Script <- MCScript
    Unrecorded = Unrecorded
    Version = {v1, v2}
    Original = v1
    Faults = {"interrupt", "edit"}
    NoDoc = NoDoc
    Issuer <- MCIssuer
    NoIssuer = "none"
    Act <- MCAct
    NoAct = "no act"
    Scoped <- MCScoped
    Generic <- MCGeneric
    Page <- CorpusPages
    Mention <- Mentioned
    Bindings <- Databases
    MaxPending = 2
    MaxPlans = 1
    MaxRuns = 5
    MaxExtractions = 2
    Outgoing = {"modifies"}
    Incoming = {"modified by"}
    Pages <- DatedPages
    Inherited <- MCInherited
    NoDate = "none"
    FrontMatter = 2
    NearClosing = 2
INVARIANTS PrefixOfChain ReadyIsComplete ActsApart NamedIssuerIsTarget
    DatesAreFounded EventsAreSettled
PROPERTIES StartupsConverge SplitLosesNothing MaintenanceKeepsGraph
CHECK_DEADLOCK FALSE
