---------------------------- MODULE CountMetric ----------------------------
(***************************************************************************)
(* metrics/CountMetricProducer.cpp with the anomaly tracker of one alert.  *)
(*                                                                         *)
(* Times are ticks, mTimeBaseNs is 0 and a bucket is BucketSize ticks.     *)
(* Every handler takes the metric's mMutex, so a handler is one action.    *)
(* The time it is given was read before: an event carries the time its     *)
(* client wrote it, a report request or a package change the time its      *)
(* binder thread read before waiting for mMetricsMutex.  Handlers          *)
(* therefore see times in any order.                                       *)
(*                                                                         *)
(* The condition of an event is an input: mCondition, which                *)
(* onConditionChangedLocked sets, or for a sliced condition the answer of  *)
(* the condition wizard.  An inactive metric gets no events; what it does  *)
(* when it becomes inactive is a flush (SplitBucket).                      *)
(***************************************************************************)
EXTENDS AnomalyTracker

CONSTANTS BucketSize,    \* mBucketSizeNs
          HardLimit,     \* StatsdStats::kDimensionKeySizeHardLimit
          StartTime,     \* startTimeNs: when the metric is made
          MaxTime,       \* bound: the last tick
          MaxEvents      \* bound: the number of events counted

ASSUME BucketSizeAssumption == BucketSize \in Nat \ {0}
ASSUME StartTimeAssumption == StartTime \in 0..MaxTime

VARIABLES mCurrentSlicedCounter,      \* current partial bucket: count per key
          mCurrentFullCounters,       \* earlier partial buckets of the same bucket
          mPastBuckets,               \* finished buckets of each key
          mCurrentBucketNum, mCurrentBucketStartTimeNs,
          tracker,                    \* the alert's AnomalyTracker
          \* history:
          counted,    \* events counted for each key in each bucket number
          gone,       \* counts of each key that left in a report or were dropped
          lastTime,   \* the last time a handler was given, TooLate once one
                      \* has been given an earlier time than the one before
          onBoundary  \* has a bucket been flushed at exactly its end?

metric == <<mCurrentSlicedCounter, mCurrentFullCounters, mPastBuckets,
            mCurrentBucketNum, mCurrentBucketStartTimeNs, tracker>>
vars == <<metric, counted, gone, lastTime, onBoundary>>

BucketNums == 0..(MaxTime \div BucketSize)

\* The record the flush operators work on: the fields of `metric'.
M == [cur |-> mCurrentSlicedCounter, full |-> mCurrentFullCounters, past |-> mPastBuckets,
      num |-> mCurrentBucketNum, start |-> mCurrentBucketStartTimeNs, tr |-> tracker,
      edge |-> onBoundary]

Becomes(m) ==
    /\ mCurrentSlicedCounter' = m.cur /\ mCurrentFullCounters' = m.full
    /\ mPastBuckets' = m.past /\ mCurrentBucketNum' = m.num
    /\ mCurrentBucketStartTimeNs' = m.start /\ tracker' = m.tr /\ onBoundary' = m.edge

TooLate == MaxTime + 1

\* A handler is given the time t.
Given(t) == lastTime' = IF t >= lastTime THEN t ELSE TooLate

TimesInOrder == lastTime # TooLate

getCurrentBucketEndTimeNs(m) == (m.num + 1) * BucketSize

-----------------------------------------------------------------------------
(* Flushing                                                                *)

\* Faulty: the partial buckets before this one are forgotten.
flushCurrentBucketLocked_NoFull(m, t, next) ==
    LET end == getCurrentBucketEndTimeNs(m)
        info(k) == [start |-> m.start, end |-> Min({t, end}), count |-> m.cur[k]] IN
    [m EXCEPT
       !.past = [k \in Keys |-> IF m.cur[k] # 0 THEN Append(@[k], info(k)) ELSE @[k]],
       !.tr = IF t > end THEN addPastBucket(@, m.cur, m.num) ELSE @,
       !.full = IF t > end THEN NoEntries ELSE AddMaps(@, m.cur),
       !.edge = @ \/ t = end,
       !.cur = NoEntries, !.start = next]

\* Faulty: the counters are kept for the next bucket.
flushCurrentBucketLocked_NoReset(m, t, next) ==
    LET end == getCurrentBucketEndTimeNs(m)
        info(k) == [start |-> m.start, end |-> Min({t, end}), count |-> m.cur[k]]
        whole == AddMaps(m.full, m.cur) IN
    [m EXCEPT
       !.past = [k \in Keys |-> IF m.cur[k] # 0 THEN Append(@[k], info(k)) ELSE @[k]],
       !.tr = IF t > end THEN addPastBucket(@, whole, m.num) ELSE @,
       !.full = IF t > end THEN NoEntries ELSE whole,
       !.edge = @ \/ t = end, !.start = next]

\* Ends the current partial bucket at t or at the end of the full bucket.  Only
\* a time after that end makes the full bucket a past one for the tracker.
flushCurrentBucketLocked(m, t, next) ==
    LET end == getCurrentBucketEndTimeNs(m)
        info(k) == [start |-> m.start, end |-> Min({t, end}), count |-> m.cur[k]]
        whole == AddMaps(m.full, m.cur) IN
    [m EXCEPT
       !.past = [k \in Keys |-> IF m.cur[k] # 0 THEN Append(@[k], info(k)) ELSE @[k]],
       !.tr = IF t > end THEN addPastBucket(@, whole, m.num) ELSE @,
       !.full = IF t > end THEN NoEntries ELSE whole,
       !.edge = @ \/ t = end,
       !.cur = NoEntries, !.start = next]

\* Moves on to the bucket t falls into.
flushIfNeededLocked(m, t) ==
    LET end == getCurrentBucketEndTimeNs(m)
        forward == 1 + ((t - end) \div BucketSize) IN
    IF t < end THEN m
    ELSE [flushCurrentBucketLocked(m, t, end + (forward - 1) * BucketSize)
            EXCEPT !.num = @ + forward]

flushLocked(m, t) == flushCurrentBucketLocked(flushIfNeededLocked(m, t), t, t)

-----------------------------------------------------------------------------
(* Handlers                                                                *)

Init ==
    /\ mCurrentSlicedCounter = NoEntries /\ mCurrentFullCounters = NoEntries
    /\ mPastBuckets = [k \in Keys |-> <<>>]
    /\ mCurrentBucketNum = StartTime \div BucketSize /\ mCurrentBucketStartTimeNs = StartTime
    /\ tracker = NewTracker
    /\ counted = [k \in Keys |-> [b \in BucketNums |-> 0]]
    /\ gone = NoEntries /\ lastTime = StartTime /\ onBoundary = FALSE

hitGuardRailLocked(m, key) ==
    m.cur[key] = 0 /\ Cardinality({k \in Keys : m.cur[k] # 0}) + 1 > HardLimit

\* What the events counted since bucket n - mNumOfPastBuckets add up to.
InWindow(cnt, key, n) ==
    SumFunctionOnSet(cnt[key], {b \in BucketNums : b <= n /\ b >= n - mNumOfPastBuckets})

\* An event of this key is counted.  The alert test that follows moves the
\* tracker's window up to the current bucket.
Count(m, key) ==
    /\ Becomes([m EXCEPT !.cur[key] = @ + 1, !.tr = AdvanceForCurrent(@, m.num)])
    /\ counted' = [counted EXCEPT ![key][m.num] = @ + 1]

EventsCounted == SumFunction([k \in Keys |-> SumFunction(counted[k])])

\* onMatchedLogEvent of an active metric: an event of the key with time t.
onMatchedLogEvent(key, t, condition) ==
    LET m == flushIfNeededLocked(M, t) IN
    /\ EventsCounted < MaxEvents
    /\ IF condition /\ ~hitGuardRailLocked(m, key)
       THEN Count(m, key)
       ELSE Becomes(m) /\ UNCHANGED counted
    /\ Given(t)
    /\ UNCHANGED gone

\* The total of a key's past buckets.
PastCount(past, k) == FoldLeft(LAMBDA n, b : n + b.count, 0, past[k])

Forget(m) ==
    /\ Becomes([m EXCEPT !.past = [k \in Keys |-> <<>>]])
    /\ gone' = [k \in Keys |-> gone[k] + PastCount(m.past, k)]

onDumpReport(t, include_current_partial_bucket, erase_data) ==
    LET m == IF include_current_partial_bucket THEN flushLocked(M, t)
             ELSE flushIfNeededLocked(M, t) IN
    /\ IF erase_data THEN Forget(m) ELSE Becomes(m) /\ UNCHANGED gone
    /\ Given(t)
    /\ UNCHANGED counted

dropData(t) ==
    /\ Forget(flushIfNeededLocked(M, t)) /\ Given(t)
    /\ UNCHANGED counted

clearPastBuckets ==
    /\ Forget(M)
    /\ UNCHANGED <<counted, lastTime>>

\* notifyAppUpgrade, notifyAppRemoved, onStatsdInitCompleted, and
\* onActiveStateChangedLocked of a metric that has become inactive.
SplitBucket(t) ==
    /\ Becomes(flushLocked(M, t)) /\ Given(t)
    /\ UNCHANGED <<counted, gone>>

Next ==
    \/ clearPastBuckets
    \/ \E t \in StartTime..MaxTime :
         \/ \E key \in Keys, condition \in BOOLEAN : onMatchedLogEvent(key, t, condition)
         \/ \E include, erase \in BOOLEAN : onDumpReport(t, include, erase)
         \/ dropData(t)
         \/ SplitBucket(t)

Spec == Init /\ [][Next]_vars

-----------------------------------------------------------------------------
(* Properties                                                              *)

Bucket == [start : 0..MaxTime, end : 0..MaxTime, count : 1..MaxEvents]

TypeOK ==
    /\ mCurrentSlicedCounter \in [Keys -> Nat] /\ mCurrentFullCounters \in [Keys -> Nat]
    /\ \A k \in Keys : mPastBuckets[k] \in Seq(Bucket)
    /\ mCurrentBucketNum \in BucketNums /\ mCurrentBucketStartTimeNs \in 0..MaxTime
    /\ Cardinality({k \in Keys : mCurrentSlicedCounter[k] # 0}) <= HardLimit

\* No count is lost or made up by a flush, at a boundary or with times out of
\* order: what was counted is in the current bucket, in a past one, or left in
\* a report or by a drop.
Conserved ==
    \A k \in Keys : SumFunction(counted[k]) =
       gone[k] + PastCount(mPastBuckets, k) + mCurrentSlicedCounter[k]

Straddles(b) == b.start \div BucketSize # b.end \div BucketSize
                /\ b.end # ((b.start \div BucketSize) + 1) * BucketSize

\* As long as handlers get their times in order, the buckets of a key follow one
\* another without overlap, end before the current one starts, and none spans a
\* bucket boundary: the number written for a full bucket is its own.
BucketsDisjoint ==
    TimesInOrder => \A k \in Keys :
       LET p == mPastBuckets[k] IN
       /\ \A i \in 1..Len(p) : p[i].start <= p[i].end /\ ~Straddles(p[i])
       /\ \A i \in 1..(Len(p) - 1) : p[i].end <= p[i + 1].start
       /\ p # <<>> => Last(p).end <= mCurrentBucketStartTimeNs

\* The alert sees the events of its window and no others: past buckets, earlier
\* partial buckets and the current one together, provided that no bucket was
\* flushed at exactly its end.
WindowRight ==
    ~onBoundary => \A k \in Keys :
       getSumOverPastBuckets(AdvanceForCurrent(tracker, mCurrentBucketNum), k)
         + mCurrentFullCounters[k] + mCurrentSlicedCounter[k]
       = InWindow(counted, k, mCurrentBucketNum)

\* The alert test after an event of key k.
AlertTest(k) ==
    detectAnomaly(tracker, k, mCurrentBucketNum,
                  mCurrentSlicedCounter[k] + mCurrentFullCounters[k])

\* Flushed at its end or not, no event of the window is overlooked by the test.
NoMissedAnomaly ==
    \A k \in Keys : InWindow(counted, k, mCurrentBucketNum) > TriggerIfSumGt => AlertTest(k)

\* The buckets of a count metric are right: no count is lost or made up, and
\* buckets neither overlap nor span a boundary (flushCurrentBucketLocked).
BucketsRight == Conserved /\ BucketsDisjoint

\* The alert is right: its test sees the events of its window and overlooks
\* none (AnomalyTracker's circular array and mCurrentFullCounters).
AlertRight == WindowRight /\ NoMissedAnomaly
=============================================================================
