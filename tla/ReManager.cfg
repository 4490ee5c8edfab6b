SPECIFICATION FairSpec
CONSTANTS
    a = a
    b = b
    NoPlan = NoPlan
    Plan = {a, b}
    Plans0 <- TwoPlans
    Processes <- Three
    ConfigService = TRUE
    TimeoutLimit = 2
    MaxTasks = 4
    Budgets <- OneFailure
INVARIANTS
    TypeOK OneWorker RecordsTrue StopsHonoured PlanRunsLocked
PROPERTIES
    ManagerSettles
CHECK_DEADLOCK FALSE
