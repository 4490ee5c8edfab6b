SPECIFICATION FeedSpec
CONSTANTS
    d1 = d1
    d2 = d2
    v1 = v1
    v2 = v2
    NoLock = NoLock
    NoRow = NoRow
    NoSpec = NoSpec
    Device <- OneDevice
    Item <- MCItem
    LeaseTTL = 0
    Def <- TwoDefs
    Profile <- MCProfile
    LockAllDefault = FALSE
    DbFaults <- NoFaults
    MaxVersion = 0
    MaxEpoch = 2
    Overlaps <- SyncOverlap
    MaxId = 4
INVARIANT PlanStartsCurrent
CHECK_DEADLOCK FALSE
