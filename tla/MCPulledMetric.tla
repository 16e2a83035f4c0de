--------------------------- MODULE MCPulledMetric ---------------------------
(***************************************************************************)
(* Small value and gauge metrics, one for each thing that can be set.      *)
(***************************************************************************)
EXTENDS PulledMetric

CONSTANTS w1, w2, s1, s2, s3, g1, g2

MCKeys == {<<w1, kStateUnknown>>, <<w1, g1>>, <<w1, g2>>, <<w2, kStateUnknown>>, <<w2, g1>>, <<w2, g2>>}
MCGroup == (s1 :> g1) @@ (s2 :> g2) @@ (s3 :> g2)

Value == [kind |-> "value", pulled |-> TRUE, diff |-> TRUE, agg |-> "SUM", direction |-> "INCREASING",
          absolute |-> FALSE, zeroBase |-> FALSE, skipZero |-> FALSE, minBucket |-> 0, limit |-> 5,
          alert |-> FALSE, condition |-> FALSE, activation |-> FALSE, states |-> FALSE, faults |-> FALSE,
          vanish |-> FALSE, restart |-> FALSE, exact |-> FALSE, timed |-> FALSE, punctual |-> FALSE,
          dims |-> {w1}, grow |-> 2, start |-> 1, last |-> 4, buckets |-> 0,
          trigger |-> FALSE, sampling |-> "none", atoms |-> 0]

Gauge == [Value EXCEPT !.kind = "gauge", !.diff = FALSE, !.sampling = "RANDOM_ONE_SAMPLE", !.atoms = 2]

MCDefs == {
   [Value EXCEPT !.condition = TRUE, !.faults = TRUE, !.last = 4],
   [Value EXCEPT !.vanish = TRUE, !.restart = TRUE, !.absolute = TRUE, !.zeroBase = TRUE, !.condition = TRUE],
   [Value EXCEPT !.dims = {w1, w2}, !.limit = 2, !.vanish = TRUE, !.grow = 1, !.last = 3],
   [Value EXCEPT !.activation = TRUE, !.condition = TRUE, !.faults = TRUE, !.last = 3],
   [Value EXCEPT !.states = TRUE, !.exact = TRUE, !.condition = TRUE, !.last = 3],
   [Value EXCEPT !.pulled = FALSE, !.diff = FALSE, !.faults = TRUE, !.agg = "AVG", !.condition = TRUE,
                 !.buckets = 1],
   [Value EXCEPT !.pulled = FALSE, !.diff = FALSE, !.agg = "MIN", !.minBucket = 2, !.alert = TRUE,
                 !.buckets = 2, !.last = 5],
   [Value EXCEPT !.timed = TRUE, !.condition = TRUE, !.activation = TRUE, !.buckets = 2, !.grow = 0],
   [Gauge EXCEPT !.punctual = TRUE, !.condition = TRUE, !.activation = TRUE, !.buckets = 1],
   [Gauge EXCEPT !.trigger = TRUE, !.sampling = "FIRST_N_SAMPLES", !.alert = TRUE, !.buckets = 2, !.minBucket = 2,
                 !.faults = TRUE],
   [Gauge EXCEPT !.pulled = FALSE, !.sampling = "FIRST_N_SAMPLES", !.faults = TRUE, !.limit = 1,
                 !.dims = {w1, w2}, !.buckets = 1]}
=============================================================================
