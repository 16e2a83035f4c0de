CONSTANTS
  w1 = w1
  w2 = w2
  s1 = s1
  s2 = s2
  s3 = s3
  g1 = g1
  g2 = g2
  Dims = {w1, w2}
  Keys <- MCKeys
  States = {s1, s2, s3}
  Group <- MCGroup
  Defs <- MCDefs
  Values = {1, 2}
  BucketSize = 2
  mNumOfPastBuckets = 1
  TriggerIfSumGt = 2
SPECIFICATION Spec
INVARIANTS ValuesExact DiffConserved BucketsRight GaugeEarliest
CHECK_DEADLOCK FALSE
