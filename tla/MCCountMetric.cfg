SPECIFICATION Spec
CONSTANTS
    Keys = {k1, k2}
    mNumOfPastBuckets = 2
    TriggerIfSumGt = 1
    BucketSize = 2
    HardLimit = 1
    StartTime = 1
    MaxTime = 6
    MaxEvents = 2
INVARIANTS BucketsRight AlertRight
SYMMETRY KeySymmetry
