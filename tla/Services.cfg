SPECIFICATION ServicesSpec
CONSTANTS
    d2 = d2
    v2 = v2
    f1 = f1
    f2 = f2
    nobody = nobody
    missing = missing
    unread = unread
    Key = {k1, k2}
    Emergency = emergency
    NoKey = none
    MaxFaults = 3
    Task = {t1, t2}
    NoTask = none
    Retention = 1
    TaskTime = 2
    MaxEnv = 3
    TaskFaults = 2
    Caller = {c1, c2}
    NoCaller = none
    MaxCalls = 2
    MaxFailures = 1
    Prompt = TRUE
    Encodable = FALSE
    r1 = r1
    r2 = r2
    d1 = d1
    v1 = v1
    Web = {w1, w2}
    Dev = {e1, e2}
    Rest = {q1}
    Token = {1, 2, 3, 4, 5, 6, 7, 8}
    Here <- SmallHere
    Existing <- Tree
    Attributes <- Objects
    Roots = {"m", "d"}
    Permissions <- PermissionSets
    Parameters <- Descriptions
    Values <- Strings
    MaxEvents = 2
    none = none
    Pv = {v1}
    Device = {d1}
    Blocks = {"locked"}
    Request = {r1, r2}
    Batches <- SmallBatches
    Kinds <- SmallKinds
    MaxInstance = 2
    TTL = 1
    MaxTime = 4
    MaxChanges = 2
INVARIANTS
    LockAsTold
    ResultsTrue
    PermissionsTrue
    GateTrue
    DevicesTrue
    SocketsTrue
    
CHECK_DEADLOCK FALSE
