SPECIFICATION FeedSpec
CONSTANTS
    d1 = d1
    d2 = d2
    v1 = v1
    v2 = v2
    NoLock = NoLock
    NoRow = NoRow
    NoSpec = NoSpec
    Device <- MCDevice
    Item <- MCItem
    LeaseTTL = 0
    Def <- MCDef
    Profile <- MCProfile
    LockAllDefault = FALSE
    DbFaults <- WriteFaults
    MaxVersion = 0
    MaxEpoch = 2
    Overlaps <- NoOverlap
    MaxId = 5
INVARIANTS
    FeedTrue
 
CHECK_DEADLOCK FALSE
