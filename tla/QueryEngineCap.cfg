\* The frequency cap alone; no catalogue check, one commit.
SPECIFICATION Spec
CONSTANTS
    t1 = t1
    t2 = t2
    users = users
    orders = orders
    visits = visits
    spend = spend
    Null = Null
    Huge = Huge
    BadTime = BadTime
    Tenants = {t1, t2}
    Datasets = {users, orders}
    Idents <- MCIdents
    Likes <- MCLikes
    MaxOps = 3
    MaxInValues = 2
    MaxWithinDays = 5
    MaxNesting = 2
    TopCategories = 2
    Requests = {1}
    Menu <- MCMenu
    Content <- MCContent
    Permits = 1
    Workers = 1
    Rules <- MCCapRules
    EnforceCatalogue = FALSE
    SurvivorCap = 2
    MaxOutputRows = 2
    SyncRowCap = 1
    Estimates = {0, 1, 2, 3}
    MaxVersions = 2
    MaxClock = 1
    MaxRegs = 1
INVARIANT CapCountsContacts
CHECK_DEADLOCK FALSE
