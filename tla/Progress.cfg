SPECIFICATION Spec
CONSTANTS
    d1 = d1
    d2 = d2
    p1 = p1
    o1 = o1
    NoLock = NoLock
    NoItem = NoItem
    t1 = t1
    t2 = t2
    c1 = c1
    c2 = c2
    r1 = r1
    r2 = r2
    v1 = v1
    w1 = w1
    e1 = e1
    none = none
PROPERTIES
    
    CallsEnd
    RequestsEnd
CHECK_DEADLOCK FALSE
