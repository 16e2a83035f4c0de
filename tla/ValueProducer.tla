--------------------------- MODULE ValueProducer ---------------------------
(***************************************************************************)
(* metrics/ValueMetricProducer.cpp: values of an atom, pushed or pulled,   *)
(* aggregated per bucket, or the differences between successive values.    *)
(*                                                                         *)
(* The producer is a record: def, what the config says; cond, mCondition;  *)
(* active, mIsActive; start and num, the current bucket; bkt,              *)
(* mCurrentSlicedBucket; base, mCurrentBaseInfo; gbase, mHasGlobalBase;    *)
(* skipped, mCurrentBucketIsSkipped; full, mCurrentFullBucket; tr, the     *)
(* tracker of an alert; past and skips, mPastBuckets and mSkippedBuckets;  *)
(* timer.  Each operation is an operator from record to record, and takes  *)
(* the answer `pull' of a pull it makes: whether it came ("ok", "failed",  *)
(* or "delayed" beyond mMaxPullDelayNs), the value of each key in it, and  *)
(* the state of each key.                                                  *)
(*                                                                         *)
(* A metric has one value field.  A key of bkt is a pair of a dimension    *)
(* key and a state; past has one entry for a bucket, with the keys that    *)
(* have a value in it.  Drop reasons are left out.                         *)
(***************************************************************************)
EXTENDS AnomalyTracker, ConditionTimer, FiniteSetsExt

CONSTANTS BucketSize,     \* mBucketSizeNs
          Dims            \* dimension keys; Keys has those with a state

ASSUME BucketAssumption == BucketSize \in Nat \ {0}

Absent == -1              \* the value of a key that a pull does not return
NoKey == "DEFAULT_DIMENSION_KEY"
kStateUnknown == "unknown"
Empty == <<>>             \* a map without entries

getCurrentBucketEndTimeNs(p) == (p.num + 1) * BucketSize

calcBucketsForwardCount(p, t) ==
    LET end == getCurrentBucketEndTimeNs(p) IN
    IF t < end THEN 0 ELSE 1 + ((t - end) \div BucketSize)

multipleBucketsSkipped(p, n) == n > 1 /\ (p.def.pulled \/ p.def.diff)

-----------------------------------------------------------------------------
(* Invalid buckets                                                         *)

resetBase(p) ==
    [p EXCEPT !.base = [k \in DOMAIN @ |-> [@[k] EXCEPT !.has = FALSE]], !.gbase = FALSE]

skipCurrentBucket(p) == [p EXCEPT !.skipped = TRUE]

invalidateCurrentBucket(p) == resetBase(skipCurrentBucket(p))

-----------------------------------------------------------------------------
(* Flushing                                                                *)

NewInterval == [val |-> 0, n |-> 0, has |-> FALSE, seen |-> FALSE]

\* Is the value of this interval put out?  A difference of zero may be left out.
Reported(p, i) == i.has /\ ~(p.def.skipZero /\ p.def.diff /\ i.val = 0)

\* The bucket that ends at t.  The average is kept as a sum and a number.
buildPartialBucket(p, t) ==
    [start |-> p.start, end |-> t, true |-> TimeUntil(p.timer, t),
     vals |-> [k \in {k \in DOMAIN p.bkt : Reported(p, p.bkt[k])} |->
                 [val |-> p.bkt[k].val, n |-> p.bkt[k].n]]]

HasValue(p, k) == k \in DOMAIN p.bkt /\ p.bkt[k].has

\* The values of the current bucket as a DimToValMap.
CurrentValues(p) ==
    [k \in Keys |-> IF HasValue(p, k) THEN p.bkt[k].val ELSE 0]

hitFullBucketGuardRailLocked(p, full, key) ==
    full[key] = 0 /\ Cardinality({k \in Keys : full[k] # 0}) + 1 > p.def.limit

\* Earlier partial buckets and the current one.
Whole(p) ==
    IF p.full = NoEntries THEN CurrentValues(p)
    ELSE FoldSet(LAMBDA k, full : IF hitFullBucketGuardRailLocked(p, full, k) THEN full
                                  ELSE [full EXCEPT ![k] = @ + CurrentValues(p)[k]],
                 p.full, DOMAIN p.bkt)

\* Only kept for alerts.
appendToFullBucket(p, isFullBucketReached) ==
    IF ~p.def.alert THEN p
    ELSE IF p.skipped THEN [p EXCEPT !.full = IF isFullBucketReached THEN NoEntries ELSE @]
    ELSE IF ~isFullBucketReached THEN [p EXCEPT !.full = AddMaps(@, CurrentValues(p))]
    ELSE [p EXCEPT !.full = NoEntries,
                   !.tr = FoldSet(LAMBDA k, tr : addPastValue(tr, k, Whole(p)[k], p.num), @,
                                  {k \in Keys : p.full[k] # 0 \/ HasValue(p, k)})]

\* Keys without new data in this bucket go, the others stay without a value.
\* Whether there is a global base or not, the new bucket is not skipped.
initCurrentSlicedBucket(p, next) ==
    [p EXCEPT !.bkt = [k \in {k \in DOMAIN @ : @[k].seen} |-> NewInterval],
              !.skipped = FALSE, !.start = next]

\* Faulty: time between two buckets is not noted.
Gap_NotNoted(end, next) == <<>>

\* The time between the end of the full bucket and the next one.
Gap(end, next) == IF end < next THEN <<[start |-> end, end |-> next]>> ELSE <<>>

\* Ends the current bucket at t or at the end of the full bucket and starts one
\* at next.  With more than one bucket over, everything up to next is skipped.
flushCurrentBucketLocked(p, t, next) ==
    LET full == getCurrentBucketEndTimeNs(p)
        forward == calcBucketsForwardCount(p, t)
        many == multipleBucketsSkipped(p, forward)
        end == CASE many -> next [] ~many /\ t < full -> t [] OTHER -> full
        bucket == buildPartialBucket(p, end)
        skip == \/ p.skipped \/ p.cond = "unknown" \/ many
                \/ end - p.start < p.def.minBucket
                \/ DOMAIN bucket.vals = {}
        skipped == IF skip THEN <<[start |-> p.start, end |-> end]>> ELSE <<>>
        q == [p EXCEPT !.skipped = skip,
                       !.past = IF skip THEN @ ELSE Append(@, bucket),
                       !.skips = @ \o skipped \o Gap(end, next),
                       !.timer = newBucketStart(newBucketStart(@, end), next)]
    IN [initCurrentSlicedBucket(appendToFullBucket(q, t > full), next) EXCEPT !.num = @ + forward]

\* Moves on to the bucket t falls into.
flushIfNeededLocked(p, t) ==
    LET end == getCurrentBucketEndTimeNs(p) IN
    IF t < end THEN p
    ELSE flushCurrentBucketLocked(p, t, end + (calcBucketsForwardCount(p, t) - 1) * BucketSize)

flushLocked(p, t) == flushCurrentBucketLocked(flushIfNeededLocked(p, t), t, t)
-----------------------------------------------------------------------------
(* Values                                                                  *)

hasReachedGuardRailLimit(p) == Cardinality(DOMAIN p.bkt) >= p.def.limit

hitGuardRailLocked(p, key) == key \notin DOMAIN p.bkt /\ hasReachedGuardRailLimit(p)

\* The difference of a value to the base, and whether it counts: a value that
\* went the wrong way is either taken whole or only becomes the new base.
Difference(p, base, value) ==
    LET wrong == \/ p.def.direction = "INCREASING" /\ value < base
                 \/ p.def.direction = "DECREASING" /\ value > base IN
    [counts |-> ~wrong \/ p.def.absolute,
     diff |-> IF wrong THEN value
              ELSE IF p.def.direction = "DECREASING" THEN base - value ELSE value - base]

\* The number of values is only read for averages.
Aggregate(p, i, value) ==
    [i EXCEPT !.has = TRUE, !.n = IF p.def.agg = "AVG" THEN @ + 1 ELSE 1,
              !.val = CASE ~i.has -> value
                        [] i.has /\ p.def.agg \in {"SUM", "AVG"} -> @ + value
                        [] i.has /\ p.def.agg = "MIN" -> Min({@, value})
                        [] OTHER -> Max({@, value})]

\* Faulty: zero is taken for a base also after a gap.
ZeroBase_Always(p) == p.def.zeroBase

\* A new key starts from zero, if the others were there in the pull before.
ZeroBase(p) == p.gbase /\ p.def.zeroBase

\* The interval and the base of a key after a value for it.  Without a base the
\* value is only the new base, unless zero is taken for it.
Take(p, i, b, value) ==
    LET base == IF b.has THEN b.base ELSE 0
        d == Difference(p, base, value) IN
    IF ~p.def.diff THEN [i |-> Aggregate(p, i, value), b |-> b, alert |-> TRUE]
    ELSE IF ~b.has /\ ~ZeroBase(p) THEN [i |-> i, b |-> [b EXCEPT !.base = value, !.has = TRUE], alert |-> FALSE]
    ELSE [i |-> IF d.counts THEN Aggregate(p, i, d.diff) ELSE i,
          b |-> [b EXCEPT !.base = value, !.has = TRUE], alert |-> d.counts]

NoBase == [base |-> 0, has |-> FALSE, state |-> kStateUnknown]

\* Faulty: the growth goes to the state the key is in now.
IntervalKey_NewState(w, b, s) == <<w, s>>

\* The interval a value closes: that of the state the key was in when it got its base.
IntervalKey(w, b, s) == <<w, b.state>>

Late(p, t) == t < p.start

BaseOf(p, w) == IF w \in DOMAIN p.base THEN p.base[w] ELSE NoBase

\* aggregateFields: r is what Take made of the value, key the interval it went to.
\* An alert is not tested when buckets are being skipped.
Measured(p, w, key, r, t) ==
    [p EXCEPT !.bkt = (key :> r.i) @@ @, !.base = (w :> r.b) @@ @,
              !.tr = IF /\ p.def.alert /\ r.alert
                        /\ ~multipleBucketsSkipped(p, calcBucketsForwardCount(p, t))
                     THEN AdvanceForCurrent(@, p.num) ELSE @]

\* A value of the key w, whose state is s, in the bucket it belongs to.  It closes
\* the interval of the state the key was in before.
Measure(p, w, s, value, t, condition) ==
    LET b == BaseOf(p, w)
        key == IntervalKey(w, b, s)
        i == IF key \in DOMAIN p.bkt THEN p.bkt[key] ELSE NewInterval IN
    IF \/ ~p.def.pulled /\ ~condition
       \/ p.def.pulled /\ ~p.def.diff /\ p.cond # "true"
       \/ hitGuardRailLocked(p, <<w, s>>)
    THEN p
    ELSE Measured(p, w, key, Take(p, [i EXCEPT !.seen = TRUE], [b EXCEPT !.state = s], value), t)

\* onMatchedLogEventInternalLocked, for a value with time t.
OnValue(p, w, s, value, t, condition) ==
    IF Late(p, t) THEN p
    ELSE Measure(IF p.def.pulled THEN p ELSE flushIfNeededLocked(p, t), w, s, value, t, condition)

-----------------------------------------------------------------------------
(* Pulls                                                                   *)

\* The keys a pull has values for; a metric that is not active looks at none, and
\* one that pulls for a state change of the key pk only at that key.
Matched(p, pull, pk) ==
    {w \in Dims : p.active /\ pull.value[w] # Absent /\ pk \in {NoKey, w}}

\* The keys the pull had no value for lose their base.
ResetUnmatched(p, matched, pk) ==
    LET gone == {key[1] : key \in DOMAIN p.bkt} \ matched IN
    [p EXCEPT !.gbase = TRUE,
              !.base = [w \in DOMAIN @ |->
                 IF w \in gone /\ pk \in {NoKey, w} THEN [@[w] EXCEPT !.has = FALSE] ELSE @[w]]]

\* At the limit of keys the whole bucket goes.
InvalidateIfFull(p) ==
    IF hasReachedGuardRailLimit(p) THEN [invalidateCurrentBucket(p) EXCEPT !.bkt = Empty] ELSE p

\* accumulateEvents: values pulled by a pull that began at orig, as of time t.
accumulateEvents(p, pull, pk, t) ==
    IF t < p.start \/ pull.is = "delayed" THEN invalidateCurrentBucket(p)
    ELSE InvalidateIfFull(ResetUnmatched(
            FoldSet(LAMBDA w, r : OnValue(r, w, pull.state[w], pull.value[w], t, TRUE),
                    p, Matched(p, pull, pk)), Matched(p, pull, pk), pk))

pullAndMatchEventsLocked(p, pull, pk, t) ==
    IF pull.is = "failed" THEN invalidateCurrentBucket(p) ELSE accumulateEvents(p, pull, pk, t)

\* For scheduled pulls: the time of the last bucket end before t.
calcPreviousBucketEndTime(t) == (t \div BucketSize) * BucketSize

\* onDataPulled: the alarm of the bucket end fired at t, maybe late.
ValueDataPulled(p, pull, t) ==
    flushIfNeededLocked(
        CASE p.cond # "true" -> p
          [] p.cond = "true" /\ pull.is = "failed" -> invalidateCurrentBucket(p)
          [] OTHER -> accumulateEvents(p, pull, NoKey, IF t < getCurrentBucketEndTimeNs(p) THEN t
                                                       ELSE calcPreviousBucketEndTime(t) - 1), t)
-----------------------------------------------------------------------------
(* Handlers                                                                *)

\* The constructor, at time t with condition c.
NewValue(def, c, t) ==
    LET num == t \div BucketSize
        active == ~def.activation IN
    [def |-> def, cond |-> c, active |-> active, start |-> t, num |-> num, bkt |-> Empty, base |-> Empty,
     gbase |-> FALSE, skipped |-> FALSE, full |-> NoEntries, tr |-> NewTracker, past |-> <<>>, skips |-> <<>>,
     timer |-> TimerChanged(newBucketStart(NewTimer, t), active /\ c = "true", t)]

prepareFirstBucketLocked(p, pull) ==
    IF p.active /\ p.def.pulled /\ p.cond = "true" /\ p.def.diff
    THEN pullAndMatchEventsLocked(p, pull, NoKey, p.start) ELSE p

PullIfPulled(p, pull, pk, t) ==
    IF p.def.pulled THEN pullAndMatchEventsLocked(p, pull, pk, t) ELSE p

\* The base is given up when the condition turns false.
NoBaseWhileFalse(p, q, condition) ==
    IF p.def.diff /\ p.cond = "true" /\ ~condition THEN resetBase(q) ELSE q

\* onConditionChangedLocked.  A condition that changes before the current bucket
\* makes the condition unknown, for which the timer runs: kUnknown is not 0.
ValueConditionChanged(p, condition, t, pull) ==
    LET new == IF condition THEN "true" ELSE "false"
        late == t < p.start
        known == IF p.cond = "unknown" THEN invalidateCurrentBucket(p) ELSE p
        pulled == IF "true" \in {new, p.cond} THEN PullIfPulled(known, pull, NoKey, t) ELSE known IN
    IF ~p.active THEN [p EXCEPT !.cond = IF late THEN "unknown" ELSE new]
    ELSE IF late THEN [invalidateCurrentBucket(p) EXCEPT !.cond = "unknown",
                                                         !.timer = TimerChanged(@, TRUE, t)]
    ELSE [flushIfNeededLocked([NoBaseWhileFalse(p, pulled, condition) EXCEPT !.cond = new], t)
          EXCEPT !.timer = TimerChanged(@, condition, t)]

\* The base is given up when the metric becomes inactive.
NoBaseWhileInactive(p) == IF p.def.diff /\ ~p.active THEN resetBase(p) ELSE p

\* The second half of onActiveStateChangedLocked: pull, unless the change is late.
PullForActive(p, late, t, pull) ==
    IF p.cond # "true" THEN p
    ELSE [flushIfNeededLocked(IF late THEN p ELSE NoBaseWhileInactive(PullIfPulled(p, pull, NoKey, t)), t)
          EXCEPT !.timer = TimerChanged(@, p.active, t)]

\* onActiveStateChangedLocked of a metric that has just become active or not.
\* The flush on deactivation comes before the pull.
ValueActiveChanged(p, t, pull) ==
    LET late == t < p.start
        q == IF late THEN invalidateCurrentBucket(p) ELSE p IN
    PullForActive(IF ~q.active THEN flushLocked(q, t) ELSE q, late, t, pull)

\* onStateChanged of the key w, whose state was old and is now in pull.state.
ValueStateChanged(p, w, old, t, pull) ==
    IF old = pull.state[w] \/ p.cond # "true" \/ ~p.active THEN p
    ELSE IF t < p.start THEN invalidateCurrentBucket(p)
    ELSE flushIfNeededLocked(PullIfPulled(p, pull, w, t), t)

\* The current partial bucket ends at t, after a pull if one is needed.
SplitBucket(p, t, pull) ==
    flushCurrentBucketLocked(IF p.cond = "true" THEN PullIfPulled(p, pull, NoKey, t) ELSE p, t, t)

\* onDumpReportLocked: a report that has no time to pull gives the bucket up.
ValueDumpReport(p, t, include_current_partial_bucket, fast, pull) ==
    IF ~include_current_partial_bucket THEN p
    ELSE IF fast /\ p.def.pulled /\ p.cond = "true"
    THEN flushCurrentBucketLocked(invalidateCurrentBucket(p), t, t)
    ELSE SplitBucket(p, t, pull)

clearPastBucketsLocked(p) == [p EXCEPT !.past = <<>>, !.skips = <<>>]
=============================================================================
