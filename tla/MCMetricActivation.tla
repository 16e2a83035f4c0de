------------------------ MODULE MCMetricActivation ------------------------
(***************************************************************************)
(* An immediate activation and one on boot of the same metric.             *)
(***************************************************************************)
EXTENDS MetricActivation, TLC

CONSTANTS m1, a, b

OneMetric == (a :> m1) @@ (b :> m1)
\* An event that starts an activation, one that ends it and starts the other, one that
\* ends both and starts them again, and one that matches nothing.
MCMatches == {<<{}, {}>>, <<{}, {a}>>, <<{a}, {b}>>, <<{a, b}, {a, b}>>}
TtlOne == [x \in {a, b} |-> 1]
=============================================================================
