--------------------------- MODULE ConditionTimer ---------------------------
(***************************************************************************)
(* condition/ConditionTimer.h: how long the condition has been true in the *)
(* current bucket.                                                         *)
(***************************************************************************)
EXTENDS Integers

\* mTimerNs, mLastConditionTrueTimestampNs and mCondition
NewTimer == [ns |-> 0, last |-> 0, on |-> FALSE]

\* The time of the bucket that ends at t ...
TimeUntil(timer, t) == timer.ns + (IF timer.on THEN t - timer.last ELSE 0)

\* ... and the timer of the bucket that starts there.
newBucketStart(timer, t) ==
    [timer EXCEPT !.ns = 0, !.last = IF timer.on THEN t ELSE @]

TimerChanged(timer, on, t) ==
    IF on = timer.on THEN timer
    ELSE IF on THEN [timer EXCEPT !.on = TRUE, !.last = t]
    ELSE [timer EXCEPT !.on = FALSE, !.ns = @ + (t - timer.last)]
=============================================================================
