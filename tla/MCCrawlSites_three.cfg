SPECIFICATION SitesSpec
CONSTANTS
    Crawler = {c1, c2}
    Url = {"hub", "near", "far", "sub", "deep", "edge", "law", "page", "leaf"}
    NoUrl = NoUrl
    DocRoute <- DeepDocRoute
    LegalSource <- DeepLegalSource
    TaxIndex <- DeepTaxIndex
    Seeds <- DeepSeeds
    Versions <- DeepVersions
    Legacy = {}
    StartScopes = {"all"}
    Continuous = FALSE
    Limited = TRUE
    Faults = {"interrupt"}
    MaxDepth = 3
    StaleTicks = 0
    BaseBackoff = 1
    MaxBackoff = 1
    IndexRefresh = 1
    DocumentRefresh = 1
    AttemptCap = 1
INVARIANTS RowsAreOwned DepthIsDistance DrainedIsComplete
PROPERTIES OrphansTakenUp

