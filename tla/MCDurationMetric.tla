-------------------------- MODULE MCDurationMetric --------------------------
(***************************************************************************)
(* Small duration metrics, one for each thing that can be set.             *)
(***************************************************************************)
EXTENDS DurationMetric

CONSTANTS w1, w2, i1, i2, s1, s2

MCKeys == {<<w1, s1>>, <<w1, s2>>, <<w2, s1>>, <<w2, s2>>}

Metric == [agg |-> "SUM", nested |-> TRUE, path |-> "unsliced", condition |-> TRUE, alert |-> FALSE,
           activation |-> FALSE, whats |-> {w1}, internals |-> {i1}, states |-> {s1}, limit |-> 2,
           starts |-> 1, last |-> 4, buckets |-> 4]

MCDefs == {
   \* a condition per internal key, activation, more internal keys than allowed
   [Metric EXCEPT !.path = "sliced", !.activation = TRUE, !.internals = {i1, i2}, !.limit = 1],
   \* one condition, activation, a state
   [Metric EXCEPT !.nested = FALSE, !.activation = TRUE, !.states = {s1, s2}],
   \* only the changed dimensions
   [Metric EXCEPT !.path = "opt1", !.whats = {w1, w2}, !.last = 2],
   \* more keys than allowed, no condition, an alert
   [Metric EXCEPT !.condition = FALSE, !.starts = 2, !.whats = {w1, w2}, !.limit = 1, !.alert = TRUE,
                  !.last = 5],
   \* the longest duration
   [Metric EXCEPT !.agg = "MAX", !.nested = FALSE, !.path = "sliced", !.activation = TRUE,
                  !.internals = {i1, i2}, !.limit = 1],
   [Metric EXCEPT !.agg = "MAX", !.condition = FALSE, !.starts = 2, !.internals = {i1, i2},
                  !.alert = TRUE, !.last = 3],
   \* nested durations that pause
   [Metric EXCEPT !.agg = "MAX", !.starts = 2, !.buckets = 3]}
=============================================================================
