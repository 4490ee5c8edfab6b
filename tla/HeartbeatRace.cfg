SPECIFICATION Spec
CONSTANTS
    d1 = d1
    d2 = d2
    p1 = p1
    p2 = p2
    p3 = p3
    o1 = o1
    NoLock = NoLock
    NoItem = NoItem
    Device <- MCDevice
    Item <- MCItem
    Sessions <- MCSessions
    Others <- MCOthers
    LeaseTTL = 1
    LockScope = "plan"
    Faults <- NoFaults
    MaxAttempts = 1
    MaxEpoch = 1
INVARIANT OwnLocksKnown
CHECK_DEADLOCK FALSE
