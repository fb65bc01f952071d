SPECIFICATION FairSpec
CONSTANTS
    db = db
    local = local
    web = web
    prod = prod
    None = None
    Ids = {db, local, web}
    Local = local
    Tags = {prod}
    Inventories <- MCInventories
    Filters <- MCFilters
    Groups = {"host", "network"}
    Required = "host"
    Permits = 2
    HostLimit = 5
    GroupLimit = 2
    Reports <- MCReports
    MaxTime = 11
    IdOrder <- MCIdOrder
INVARIANTS
    TypeOK
    EveryHostHasItsRow
    EndsInTime
    ReportReproducible
PROPERTIES
    TimeoutNeedsSlowProbe
    EveryReviewEnds
CHECK_DEADLOCK FALSE
