\* One tenant's texts and queries with a budget of two; two clients, two requests
\* per window of two seconds, four seconds and three audit events.
SPECIFICATION MCSpec
CONSTANTS
    Text <- MCText
    Provider <- MCProvider
    Policy <- MCPolicy
    Default <- MCDefault
    RoleModels <- MCRoleModels
    Total = 2
    Cost <- MCCost
    MaxDepth = 2
    MaxFaults = 1
    c1 = c1
    c2 = c2
    t1 = t1
    t2 = t2
    Client <- MCClient
    Tenant <- MCTenant
    MaxRequests = 2
    Window = 2
    Capacity = 3
    CleanupInterval = 3
    MaxTime = 4
    MaxEvents = 3
    MaxFailures = 1
INVARIANTS
    SensitiveStaysHome
    BudgetHolds
    RateBound
    ReportMissesFew
CHECK_DEADLOCK FALSE
