SPECIFICATION Spec
CONSTANTS
  m1 = m1  a = a  b = b
  Metrics = {m1}
  Activations = {a, b}
  MetricOf <- OneMetric
  Ttl <- TtlOne
  Matches <- MCMatches
  OnBoot = {b}
  mIsAlwaysActive = FALSE
  CoolDown = 1
  Late = 1
  MaxTime = 2
INVARIANTS ActiveAgrees DeadlineKept
PROPERTIES ActiveInTime
