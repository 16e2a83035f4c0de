SPECIFICATION Spec
CONSTANTS
    w1 = w1
    w2 = w2
    i1 = i1
    i2 = i2
    s1 = s1
    s2 = s2
    Keys <- MCKeys
    mNumOfPastBuckets = 1
    TriggerIfSumGt = 4
    BucketSize = 2
    Whats = {w1, w2}
    Internals = {i1, i2}
    States = {s1, s2}
    Defs <- MCDefs
    StartTimes = {1}
INVARIANTS SumExact MaxExact PredictionRight
CHECK_DEADLOCK FALSE
