SPECIFICATION LivenessSpec
CONSTANTS
    Idle = Idle
    None = None
    k1 = k1
    k2 = k2
    w1 = w1
    w2 = w2
    t1 = t1
    t2 = t2
    t3 = t3
    t4 = t4
    a1 = a1
    MaxReady = 1
PROPERTIES
    EveryJobSettles
    ExportsUnblock
    ClaimsSettle
