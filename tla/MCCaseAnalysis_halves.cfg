SPECIFICATION AnalysisSpec
CHECK_DEADLOCK FALSE
CONSTANTS
    d1 = d1
    d2 = d2
    p1 = p1
    p2 = p2
    NoProvision = NoProvision
    NoDoc = NoDoc
    NoSpan = NoSpan
    Catalog <- MCCatalog
    Intakes <- MCIntakes
    Corpora <- MCCorpora
    Dates = {0, 2}
    Findings <- MCFindings
    MaxTasks = 5
    MaxQueries = 3
    MaxRelations = 1
    MaxHits = 2
    MaxAuthorities = 1
    MaxEvidence = 2
    MaxSpans = 3
    MaxContext = 1
    Config <- MCConfig
    Validation = {67}
    Other = {90, 94}
    NoIssue = 0
    Class = {"none", "B", "C", "D"}
    RetryLimit = 1
    MaxChanges = 2
    MaxRecords = 3
INVARIANTS
    PlanIsFair BudgetsKept ResultIsAccepted CompleteIsWhole CompleteIsInForce
    OutageMeansNoOutput ChangesAreDeclared ClosedForCause
PROPERTIES RetriesMaterialize
