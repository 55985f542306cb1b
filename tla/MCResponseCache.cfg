SPECIFICATION CacheSpec
CONSTANTS
    th1 = th1
    th2 = th2
    k1 = k1
    k2 = k2
    Thread <- MCThread
    Key <- MCKey
    MemorySize = 1
    MaxSets = 3
    MaxHits = 3
    MaxFaults = 1
SYMMETRY MCSymmetry
INVARIANTS
    Coherent
CHECK_DEADLOCK FALSE
