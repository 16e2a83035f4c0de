-------------------------- MODULE DurationTrackers --------------------------
(***************************************************************************)
(* metrics/duration_helper: what a duration metric keeps for one key of    *)
(* its dimensions_in_what.  OringDurationTracker sums the time during      *)
(* which at least one internal key is started and met by the condition,    *)
(* MaxDurationTracker keeps the longest duration that ended.               *)
(*                                                                         *)
(* Each operation is an operator from the metric before to the metric      *)
(* after.  The metric is a record d with the trackers (trk, a function of  *)
(* the keys that have one), the finished buckets (past), the alert's       *)
(* anomaly tracker (at), its alarms (alarms, 0 for none) and the           *)
(* definition of the metric (def).  A map of start counts has 0 for a key  *)
(* without entry.  One tick is one second, so that rounding an alarm up to *)
(* seconds does nothing; the alert has no refractory period (see           *)
(* AnomalyAlarms for both).                                                *)
(***************************************************************************)
EXTENDS AnomalyTracker

CONSTANTS BucketSize,      \* mBucketSizeNs
          Internals,       \* values of the internal dimensions beyond the what
          States           \* values of the state the metric is sliced by

ASSUME BucketSizeAssumption == BucketSize \in Nat \ {0}

NoStarts == [i \in Internals |-> 0]
NoDuration == [s \in States |-> 0]

\* Replaces the tracker of key w.
SetTracker(d, w, tr) == [d EXCEPT !.trk[w] = tr]

\* mEventKey: what and current state.
EventKey(d, w) == <<w, d.trk[w].state>>

getCurrentBucketEndTimeNs(tr) == (tr.num + 1) * BucketSize

NewOring(d, s) ==
    [state |-> s, started |-> NoStarts, paused |-> NoStarts, conditionKeys |-> {}, last |-> 0,
     dur |-> NoDuration, full |-> NoDuration, seen |-> {}, start |-> d.start, num |-> d.num]

NewMax(d, s) ==
    [state |-> s, infos |-> <<>>, dur |-> 0, start |-> d.start, num |-> d.num]

createDurationTracker(d, s) == IF d.def.agg = "SUM" THEN NewOring(d, s) ELSE NewMax(d, s)

-----------------------------------------------------------------------------
(* The alert                                                               *)

PastValue(d, w, n) == getPastBucketValue(d.at, EventKey(d, w), n)

\* Faulty: the current bucket never leaves the sum of the past.
Leaving_NotCurrent(d, w, t) ==
    [j \in 1..mNumOfPastBuckets |->
        IF j < mNumOfPastBuckets THEN PastValue(d, w, d.trk[w].num - mNumOfPastBuckets + j) ELSE 0]

\* What leaves the sum of the past at the end of each of the future buckets: an
\* older bucket, at last the current one.
Leaving(d, w, t) ==
    LET tr == d.trk[w] IN
    [j \in 1..mNumOfPastBuckets |->
        IF j < mNumOfPastBuckets THEN PastValue(d, w, tr.num - mNumOfPastBuckets + j)
        ELSE tr.dur[tr.state] + tr.full[tr.state] + (getCurrentBucketEndTimeNs(tr) - t)]

\* OringDurationTracker::predictAnomalyTimestampNs: when will the threshold be
\* reached if the duration that starts at t goes on?
OringPredict(d, w, t) ==
    LET tr == d.trk[w]
        end == getCurrentBucketEndTimeNs(tr)
        past == tr.dur[tr.state] + tr.full[tr.state] + getSumOverPastBuckets(d.at, EventKey(d, w))
        rest == past - PastValue(d, w, tr.num - mNumOfPastBuckets) + (end - t)
        before(i) == IF mNumOfPastBuckets = 0 THEN 0
                     ELSE rest + (i - 1) * BucketSize - SumFunctionOnSet(Leaving(d, w, t), 1..(i - 1))
        offer(i) == Max({0, end + (i - 1) * BucketSize + TriggerIfSumGt - before(i)})
        good == {i \in 1..(mNumOfPastBuckets + 1) : offer(i) <= end + i * BucketSize} IN
    IF t + TriggerIfSumGt - past <= end THEN Max({t, t + TriggerIfSumGt - past})
    ELSE IF good # {} THEN offer(Min(good))
    ELSE t + TriggerIfSumGt

Started(tr) == {i \in DOMAIN tr.infos : tr.infos[i].state = "kStarted"}

MaxPredict(d, w, t) ==
    LET tr == d.trk[w]
        elapsed == {tr.infos[i].total + (t - tr.infos[i].last) : i \in Started(tr)} IN
    t + TriggerIfSumGt - Max(elapsed \cup {0})

predictAnomalyTimestampNs(d, w, t) ==
    IF d.def.agg = "SUM" THEN OringPredict(d, w, t) ELSE MaxPredict(d, w, t)

\* DurationAnomalyTracker::startAlarm, for the time a that was predicted.  A metric
\* without an alert (def.alert) has no mAnomalyTrackers.
startAlarm(d, w, a) ==
    IF d.def.alert /\ a > 0 THEN [d EXCEPT !.alarms[EventKey(d, w)] = a] ELSE d

startAnomalyAlarm(d, w, t) == startAlarm(d, w, predictAnomalyTimestampNs(d, w, t))

stopAnomalyAlarm(d, w) == [d EXCEPT !.alarms[EventKey(d, w)] = 0]

\* "if (mStarted.empty()) stopAnomalyAlarm(...)"
StopAlarmIfNoneStarted(d, w) ==
    IF d.trk[w].started = NoStarts THEN stopAnomalyAlarm(d, w) ELSE d

\* detectAndDeclareAnomaly: the window moves up to the current bucket.
DetectAnomaly(d, w) ==
    [d EXCEPT !.at = IF d.def.alert THEN AdvanceForCurrent(@, d.trk[w].num) ELSE @]

addPastBucketToAnomalyTrackers(d, key, value, n) ==
    [d EXCEPT !.at = IF d.def.alert THEN addPastValue(@, key, value, n) ELSE @]

-----------------------------------------------------------------------------
(* OringDurationTracker                                                    *)

\* mStateKeyDurationMap[current state].mDuration += n
Record(tr, n) == [tr EXCEPT !.dur[tr.state] = @ + n, !.seen = @ \cup {tr.state}]

\* Only a sliced condition enters keys into the map that is counted here.
OringHitGuardRail(d, tr, i) ==
    i \notin tr.conditionKeys /\ Cardinality(tr.conditionKeys) + 1 > d.def.limit

OringNoteStart(d, w, i, condition, t) ==
    LET tr == d.trk[w]
        first == condition /\ tr.started = NoStarts
        keys == IF d.def.path = "unsliced" THEN {} ELSE {i}
        one(b) == IF b THEN 1 ELSE 0 IN
    IF OringHitGuardRail(d, tr, i) THEN d
    ELSE [IF first THEN startAnomalyAlarm([d EXCEPT !.trk[w].last = t], w, t) ELSE d
          EXCEPT !.trk[w].started[i] = @ + one(condition), !.trk[w].paused[i] = @ + one(~condition),
                 !.trk[w].conditionKeys = @ \cup keys]

\* One stop of a count n > 0; a metric without nesting stops at once.
Stopped(d, n) == IF d.def.nested THEN n - 1 ELSE 0

OringNoteStop(d, w, i, t) ==
    LET tr == d.trk[w]
        started == [tr.started EXCEPT ![i] = IF @ > 0 THEN Stopped(d, @) ELSE 0]
        paused == [tr.paused EXCEPT ![i] = IF @ > 0 THEN Stopped(d, @) ELSE 0]
        over == \/ tr.started[i] > 0 /\ started[i] = 0
                \/ tr.paused[i] > 0 /\ paused[i] = 0
        tr1 == [tr EXCEPT !.started = started, !.paused = paused,
                          !.conditionKeys = IF over THEN @ \ {i} ELSE @]
        d1 == IF tr.started[i] > 0 /\ started = NoStarts
              THEN DetectAnomaly(SetTracker(d, w, Record(tr1, t - tr.last)), w)
              ELSE SetTracker(d, w, tr1) IN
    IF started = NoStarts THEN stopAnomalyAlarm(d1, w) ELSE d1

OringNoteStopAll(d, w, t) ==
    LET tr == d.trk[w]
        none == [started |-> NoStarts, paused |-> NoStarts, conditionKeys |-> {}]
        d1 == IF tr.started = NoStarts THEN SetTracker(d, w, none @@ tr)
              ELSE DetectAnomaly(SetTracker(d, w, none @@ Record(tr, t - tr.last)), w) IN
    stopAnomalyAlarm(d1, w)

\* Map insertion: an entry that is there stays as it is.
Insert(map, more) == [i \in Internals |-> IF map[i] > 0 THEN map[i] ELSE more[i]]

\* Faulty: the paused time is counted as well.
OringOnConditionChanged_NoRestart(d, w, condition, t) ==
    LET tr == d.trk[w]
        on == [tr EXCEPT !.started = Insert(@, tr.paused), !.paused = NoStarts]
        off == [Record(tr, t - tr.last) EXCEPT !.started = NoStarts, !.paused = Insert(@, tr.started)] IN
    StopAlarmIfNoneStarted(
        CASE condition /\ tr.paused # NoStarts ->
               SetTracker(IF tr.started = NoStarts THEN startAnomalyAlarm(d, w, t) ELSE d, w, on)
          [] ~condition /\ tr.started # NoStarts -> DetectAnomaly(SetTracker(d, w, off), w)
          [] OTHER -> d, w)

OringOnConditionChanged(d, w, condition, t) ==
    LET tr == d.trk[w]
        on == [tr EXCEPT !.started = Insert(@, tr.paused), !.paused = NoStarts,
                         !.last = IF tr.started = NoStarts THEN t ELSE @]
        off == [Record(tr, t - tr.last) EXCEPT !.started = NoStarts, !.paused = Insert(@, tr.started)] IN
    StopAlarmIfNoneStarted(
        CASE condition /\ tr.paused # NoStarts ->
               SetTracker(IF tr.started = NoStarts THEN startAnomalyAlarm(d, w, t) ELSE d, w, on)
          [] ~condition /\ tr.started # NoStarts -> DetectAnomaly(SetTracker(d, w, off), w)
          [] OTHER -> d, w)

\* Every key is asked for again; met is the set of keys whose condition is met.
\* A key without condition key stays where it is.
OringOnSlicedConditionMayChange(d, w, met, t) ==
    LET tr == d.trk[w]
        keyed == tr.conditionKeys
        pauses == {i \in keyed \ met : tr.started[i] > 0}
        resumes == {i \in keyed \cap met : tr.paused[i] > 0}
        left == [i \in Internals |-> IF i \in pauses THEN 0 ELSE tr.started[i]]
        none == left = NoStarts
        tr1 == IF none /\ tr.started # NoStarts THEN Record(tr, t - tr.last) ELSE tr
        d1 == IF none /\ tr.started # NoStarts THEN DetectAnomaly(SetTracker(d, w, tr1), w) ELSE d
        d2 == IF none /\ resumes # {} THEN startAnomalyAlarm(d1, w, t) ELSE d1
        tr2 == [tr1 EXCEPT
                  !.last = IF none /\ resumes # {} THEN t ELSE @,
                  !.started = Insert(left, [i \in Internals |-> IF i \in resumes THEN tr.paused[i] ELSE 0]),
                  !.paused = Insert([i \in Internals |-> IF i \in resumes THEN 0 ELSE tr.paused[i]],
                                    [i \in Internals |-> IF i \in pauses THEN tr.started[i] ELSE 0])] IN
    StopAlarmIfNoneStarted(SetTracker(d2, w, tr2), w)

OringOnStateChanged(d, w, s, t) ==
    LET tr == d.trk[w] IN
    SetTracker(d, w, IF tr.started = NoStarts THEN [tr EXCEPT !.state = s]
                     ELSE [Record(tr, t - tr.last) EXCEPT !.state = s, !.last = t])

Bucket(from, to, n) == [start |-> from, end |-> to, dur |-> n]

\* How many buckets a flush at t moves forward: 0 for a partial bucket.
Forward(tr, t) ==
    LET end == getCurrentBucketEndTimeNs(tr) IN
    IF t >= end THEN 1 + ((t - end) \div BucketSize) ELSE 0

\* The whole buckets it skips: 1 .. n.
Skipped(tr, t) == [j \in 1..Max({0, Forward(tr, t) - 1}) |-> j]

\* The bucket a flush at t moves on to.
NextBucket(tr, t) ==
    LET n == Forward(tr, t) IN
    [tr EXCEPT !.num = @ + n,
               !.start = IF n > 0 THEN getCurrentBucketEndTimeNs(tr) + (n - 1) * BucketSize ELSE t]

\* The whole buckets skipped by a flush of a tracker that has something started.
FillingBuckets(tr, t) ==
    [j \in DOMAIN Skipped(tr, t) |->
        Bucket(getCurrentBucketEndTimeNs(tr) + (j - 1) * BucketSize,
               getCurrentBucketEndTimeNs(tr) + j * BucketSize, BucketSize)]

\* The alert is told of the finished bucket, only if t is after its end ...
TellFinished(d, w, t, total) ==
    IF t > getCurrentBucketEndTimeNs(d.trk[w]) /\ d.trk[w].state \in d.trk[w].seen
    THEN addPastBucketToAnomalyTrackers(d, EventKey(d, w), total, d.trk[w].num) ELSE d

\* ... and of the skipped ones.  A metric with an alert is not sliced by a state here.
TellSkipped(d, w, t) ==
    LET tr == d.trk[w] IN
    IF tr.started # NoStarts
    THEN FoldLeft(LAMBDA e, j : addPastBucketToAnomalyTrackers(e, EventKey(d, w), BucketSize, tr.num + j),
                  d, Skipped(tr, t))
    ELSE IF Forward(tr, t) < 2 THEN d
    ELSE addPastBucketToAnomalyTrackers(d, EventKey(d, w), 0, tr.num + Forward(tr, t) - 1)

\* OringDurationTracker::flushCurrentBucket
OringFlush(d, w, t) ==
    LET old == d.trk[w]
        end == Min({t, getCurrentBucketEndTimeNs(old)})
        tr == IF old.started # NoStarts THEN Record(old, end - old.last) ELSE old
        next == NextBucket(tr, t)
        full == [s \in States |-> tr.full[s] + Max({0, tr.dur[s]})]
        past(s) == IF tr.dur[s] > 0 THEN <<Bucket(tr.start, end, tr.dur[s])>> ELSE <<>>
        filling(s) == IF s = tr.state /\ tr.started # NoStarts THEN FillingBuckets(tr, t) ELSE <<>> IN
    [TellSkipped(TellFinished(SetTracker(d, w, tr), w, t, full[tr.state]), w, t) EXCEPT
       !.past = [k \in Keys |-> IF k[1] = w THEN @[k] \o past(k[2]) \o filling(k[2]) ELSE @[k]],
       !.trk[w] = [next EXCEPT !.dur = NoDuration, !.last = next.start,
                               !.full = IF t > getCurrentBucketEndTimeNs(tr) THEN NoDuration ELSE full]]

-----------------------------------------------------------------------------
(* MaxDurationTracker                                                      *)

MaxHitGuardRail(d, tr, i) ==
    i \notin DOMAIN tr.infos /\ Cardinality(DOMAIN tr.infos) + 1 > d.def.limit

NewInfo(condition, t) ==
    [state |-> IF condition THEN "kStarted" ELSE "kPaused", count |-> 1,
     last |-> IF condition THEN t ELSE 0, total |-> 0]

MaxNoteStart(d, w, i, condition, t) ==
    LET tr == d.trk[w]
        d1 == [d EXCEPT !.trk[w].infos = (i :> NewInfo(condition, t)) @@ @] IN
    IF MaxHitGuardRail(d, tr, i) THEN d
    ELSE IF i \in DOMAIN tr.infos THEN [d EXCEPT !.trk[w].infos[i].count = @ + 1]
    ELSE IF condition THEN startAnomalyAlarm(d1, w, t) ELSE d1

Without(infos, i) == [j \in DOMAIN infos \ {i} |-> infos[j]]

\* Faulty: what ran before a pause is forgotten.
MaxNoteStop_LastRunOnly(d, w, i, t, forceStop) ==
    LET tr == d.trk[w]
        info == tr.infos[i]
        ends == forceStop \/ ~d.def.nested \/ info.count <= 1
        ran == IF info.state = "kStarted" THEN t - info.last ELSE 0
        tr1 == [tr EXCEPT !.infos = Without(@, i), !.dur = Max({@, ran})]
        tr2 == [tr EXCEPT !.infos[i].count = @ - 1, !.dur = Max({@, info.total})]
        d1 == IF info.state = "kStarted" THEN stopAnomalyAlarm(SetTracker(d, w, tr1), w)
              ELSE SetTracker(d, w, tr1) IN
    IF i \notin DOMAIN tr.infos THEN d
    ELSE IF ~ends THEN SetTracker(d, w, tr2)
    ELSE IF info.state = "kStarted" /\ Started(tr1) # {} THEN startAnomalyAlarm(d1, w, t) ELSE d1

\* A stop that is not the last one of a nested start also offers the time that
\* ran before the latest pause.
MaxNoteStop(d, w, i, t, forceStop) ==
    LET tr == d.trk[w]
        info == tr.infos[i]
        ends == forceStop \/ ~d.def.nested \/ info.count <= 1
        ran == info.total + (IF info.state = "kStarted" THEN t - info.last ELSE 0)
        tr1 == [tr EXCEPT !.infos = Without(@, i), !.dur = Max({@, ran})]
        tr2 == [tr EXCEPT !.infos[i].count = @ - 1, !.dur = Max({@, info.total})]
        d1 == IF info.state = "kStarted" THEN stopAnomalyAlarm(SetTracker(d, w, tr1), w)
              ELSE SetTracker(d, w, tr1) IN
    IF i \notin DOMAIN tr.infos THEN d
    ELSE IF ~ends THEN SetTracker(d, w, tr2)
    ELSE IF info.state = "kStarted" /\ Started(tr1) # {} THEN startAnomalyAlarm(d1, w, t) ELSE d1

\* The keys of the map, in its order.
Entries(d, w) == SetToSeq(DOMAIN d.trk[w].infos)

MaxNoteStopAll(d, w, t) ==
    FoldLeft(LAMBDA e, i : MaxNoteStop(e, w, i, t, TRUE), d, Entries(d, w))

noteConditionChanged(d, w, i, conditionMet, t) ==
    LET tr == d.trk[w]
        info == tr.infos[i]
        paused == [tr EXCEPT !.infos[i] = [info EXCEPT !.state = "kPaused", !.total = @ + (t - info.last)]]
        resumed == [tr EXCEPT !.infos[i] = [info EXCEPT !.state = "kStarted", !.last = t]]
        off == stopAnomalyAlarm(SetTracker(d, w, paused), w) IN
    CASE info.state = "kStarted" /\ ~conditionMet ->
            IF Started(paused) # {} THEN startAnomalyAlarm(off, w, t) ELSE off
      [] info.state = "kPaused" /\ conditionMet -> startAnomalyAlarm(SetTracker(d, w, resumed), w, t)
      [] OTHER -> d

MaxOnConditionChanged(d, w, condition, t) ==
    FoldLeft(LAMBDA e, i : noteConditionChanged(e, w, i, condition, t), d, Entries(d, w))

MaxOnSlicedConditionMayChange(d, w, met, t) ==
    FoldLeft(LAMBDA e, i : noteConditionChanged(e, w, i, i \in met, t), d, Entries(d, w))

\* MaxDurationTracker::flushCurrentBucket
MaxFlush(d, w, t) ==
    LET tr == d.trk[w]
        info == Bucket(tr.start, Min({t, getCurrentBucketEndTimeNs(tr)}), tr.dur) IN
    [d EXCEPT !.past[EventKey(d, w)] = IF tr.dur # 0 THEN Append(@, info) ELSE @,
              !.trk[w] = [NextBucket(tr, t) EXCEPT !.dur = 0]]
=============================================================================
