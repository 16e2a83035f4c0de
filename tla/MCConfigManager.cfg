SPECIFICATION Spec
CONSTANTS
    t1 = t1
    t2 = t2
    k1 = k1
    k2 = k2
    Callers = {t1, t2}
    Main = main
    Keys = {k1, k2}
    UidOf <- OneUid
    Good = {g1, g2}
    Bad = {empty}
    Empty = empty
    EndsWith <- Distinct
    NoConfig = NoConfig
    kMaxConfigCountPerUid = 1
SYMMETRY Threads2
INVARIANTS ProcessorAgrees ConfigsKept WithinLimit
