SPECIFICATION Spec
CONSTANTS
    Request = {r1, r2, r3}
    Token = {t1, t2, t3}
    Nil = Nil
    CacheTTL = 1
    MaxCacheSize = 2
    Exps = {0, 1}
    MaxTime = 2
    MaxArrivals = 4
SYMMETRY Symmetry
CHECK_DEADLOCK FALSE
INVARIANTS
    CacheConsistent
    SingleFlight
    NoOrphan
PROPERTIES
    EvictsEarliest
    CacheFresh
