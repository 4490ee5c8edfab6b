SPECIFICATION Spec
CONSTANTS
    d1 = d1
    d2 = d2
    i1 = i1
    i2 = i2
    NoLock = NoLock
    NoRow = NoRow
    Device <- MCDevice
    Item <- MCItem
    LeaseTTL = 1
    Def <- MCDef
    Profile <- MCProfile
    LockAllDefault = FALSE
    DbFaults <- CrudFaults
    MaxVersion = 3
    MaxEpoch = 2
SYMMETRY Sym
INVARIANTS
    TypeOK
    LiveLockRegistered
    AcquisitionsOrdered
    MemoryMatchesDb
    RestartCanLoad
PROPERTIES
    LockChangesHandsWhenFree
    LockedDefinitionStable
    HolderStable
    ImplementsOwnership
