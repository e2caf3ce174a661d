SPECIFICATION FairSpec
CONSTANTS
    t1 = t1
    t2 = t2
    users = users
    orders = orders
    visits = visits
    spend = spend
    Null = Null
    Huge = Huge
    BadTime = BadTime
    Tenants = {t1, t2}
    Datasets = {users, orders}
    Idents <- MCIdents
    Likes <- MCLikes
    MaxOps = 3
    MaxInValues = 2
    MaxWithinDays = 5
    MaxNesting = 2
    TopCategories = 2
    Requests = {1, 2}
    Menu <- MCMenu
    Content <- MCContent
    Permits = 1
    Workers = 1
    Rules <- MCRules
    EnforceCatalogue = TRUE
    SurvivorCap = 2
    MaxOutputRows = 2
    SyncRowCap = 1
    Estimates = {0, 1, 2, 3}
    MaxVersions = 2
    MaxClock = 1
    MaxRegs = 1
INVARIANTS
    TypeOK
    AnswerIsDenotation
    DeriveWithinSurvivors
    ProfileConsistent
    CataloguedOnly
    PermitsConserved
    SnapshotIsPointInTime
PROPERTIES
    FreshnessHonest
    QueriesEnd
CHECK_DEADLOCK FALSE
