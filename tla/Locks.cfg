SPECIFICATION SpecAll
CONSTANTS
    d1 = d1
    d2 = d2
    p1 = p1
    p2 = p2
    p3 = p3
    o1 = o1
    NoLock = NoLock
    NoItem = NoItem
    Device <- MCDevice
    Item <- MCItem
    Sessions <- MCSessions
    Others <- MCOthers
    EnvSessions <- MCSessions3
    EnvItem <- MCItem3
    LeaseTTL = 0
    LockScope = "plan"
    Faults <- CallFaults
    MaxAttempts = 2
    MaxEpoch = 1
SYMMETRY Symmetry
INVARIANTS
    TypeOK
    RunningPlanHoldsLocks
    BooksOwnLocksKnown
    BooksEnvironmentTrue
PROPERTY BeatConflictIsExternal
CHECK_DEADLOCK FALSE
