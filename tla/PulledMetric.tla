---------------------------- MODULE PulledMetric ----------------------------
(***************************************************************************)
(* A value or a gauge metric (ValueProducer, GaugeProducer) in its         *)
(* environment: atoms that are pushed, or counters that grow, appear,      *)
(* vanish and start again and are pulled at the end of a bucket, when the  *)
(* condition, the activation or a state changes, and for reports.  Pulls   *)
(* fail and are late; the alarm of the bucket end is late; condition and   *)
(* activation events are handled late.  Every handler holds mMutex, so a   *)
(* handler is one action.                                                  *)
(***************************************************************************)
EXTENDS ValueProducer

CONSTANTS Defs,            \* the metrics: what the config says, and bounds: when the
                           \* metric starts, the last time, how far a counter grows or
                           \* how many atoms come, buckets between reports that erase
          States, Group,   \* state values, and the group of each (mStateGroupMap)
          Values           \* values of pushed atoms

G == INSTANCE GaugeProducer

VARIABLES p,            \* the producer
          src,          \* the counters, Absent without one
          stateOf,      \* StateManager: the state of each key
          alarm,        \* when StatsPullerManager pulls for the metric next
          now,
          \* history:
          unreported,   \* how much each counter grew while the metric collected,
                        \* less what was reported of it
          owed,         \* growth that could be measured and was not yet reported
          taken,        \* pushed atoms that should be counted: time, key, value
          on,           \* ticks at which condition and activation held
          from,         \* what the past buckets start with
          since         \* when the current bucket first could have a gauge

vars == <<p, src, stateOf, alarm, now, unreported, owed, taken, on, from, since>>
world == <<src, stateOf, now>>

IsValue == p.def.kind = "value"
StateKey(w) == IF p.def.states THEN Group[stateOf[w]] ELSE kStateUnknown
\* The answer of a pull made now.
Answers == IF p.def.faults THEN {"ok", "failed", "delayed"} ELSE {"ok"}
Answer(is) == [is |-> is, value |-> src, state |-> [w \in p.def.dims |-> StateKey(w)]]
Collecting(q) == q.active /\ q.cond = "true"
\* When events that are handled now happened.
EventTimes == IF p.def.faults THEN {Max({0, now - 1}), now} ELSE {now}

-----------------------------------------------------------------------------
(* History                                                                 *)

NewBuckets(q) == SubSeq(q.past, Len(p.past) + 1, Len(q.past))
NewSkips(q) == SubSeq(q.skips, Len(p.skips) + 1, Len(q.skips))

\* What the buckets report of a key.
Sum(buckets, k) ==
    FoldLeft(LAMBDA n, b : n + (IF k \in DOMAIN b.vals THEN b.vals[k].val ELSE 0), 0, buckets)

HasBase(q, w) == w \in DOMAIN q.base /\ q.base[w].has
StateOfBase(q, w) == IF w \in DOMAIN q.base THEN q.base[w].state ELSE kStateUnknown

\* Growth of a key that is not yet in a bucket.
Pending(q, k) ==
    CurrentValues(q)[k]
      + (IF HasBase(q, k[1]) /\ StateOfBase(q, k[1]) = k[2] /\ src[k[1]] # Absent
         THEN src[k[1]] - q.base[k[1]].base ELSE 0)

\* Data that was given up, which the report says.
GivenUp(q) ==
    \/ q.skipped
    \/ NewSkips(q) # <<>> /\ (p.skipped \/ (p.gbase /\ ~q.gbase) \/ \E k \in DOMAIN p.bkt : p.bkt[k].has)
    \/ \E i \in DOMAIN NewSkips(q) : NewSkips(q)[i].end - NewSkips(q)[i].start > BucketSize

\* What is only there to be reported is kept if a property of the metric asks for it.
Kept(q) ==
    [(IF q.def.buckets = 0 THEN clearPastBucketsLocked(q) ELSE q) EXCEPT
       !.timer = IF q.def.timed THEN @ ELSE NewTimer]

\* The handler leaves the producer in q; `clear' is what it forgets then.
Becomes(q, clear, started) ==
    /\ p' = IF IsValue THEN Kept(clear) ELSE clear
    /\ IF IsValue /\ p.def.diff
       THEN unreported' = [w \in Dims |-> unreported[w] - SumFunctionOnSet([k \in Keys |-> Sum(NewBuckets(q), k)],
                                                                          {k \in Keys : k[1] = w})]
       ELSE UNCHANGED unreported
    /\ IF IsValue /\ p.def.exact
       THEN owed' = [k \in Keys |-> IF GivenUp(q) THEN Pending(q, k)
                                    ELSE owed[k] - Sum(NewBuckets(q), k)]
       ELSE UNCHANGED owed
    /\ from' = IF p.def.buckets = 0 THEN from ELSE IF clear.past = <<>> /\ clear.skips = <<>> THEN q.start ELSE from
    /\ since' = CASE IsValue -> since
                  [] ~IsValue /\ q.start # p.start -> started
                  [] OTHER -> IF since = -1 /\ Collecting(q) /\ ~Collecting(p) THEN now ELSE since
    /\ UNCHANGED on

-----------------------------------------------------------------------------
(* The environment                                                         *)

\* Time goes on.  A punctual alarm has fired before its time is over.
Tick ==
    /\ now < p.def.last
    /\ p.def.punctual => now < alarm
    /\ now' = now + 1
    /\ on' = IF p.def.timed /\ Collecting(p) THEN on \cup {now} ELSE on
    /\ UNCHANGED <<p, src, stateOf, alarm, unreported, owed, taken, from, since>>

\* The counter of w grows.  The growth can be measured if there is a base.
Grow(w) ==
    /\ p.def.pulled /\ src[w] # Absent /\ src[w] < p.def.grow /\ unreported[w] < p.def.grow
    /\ src' = [src EXCEPT ![w] = @ + 1]
    /\ unreported' = IF IsValue /\ p.def.diff /\ Collecting(p)
                     THEN [unreported EXCEPT ![w] = @ + 1] ELSE unreported
    /\ owed' = IF IsValue /\ p.def.exact /\ Collecting(p) /\ HasBase(p, w)
               THEN [owed EXCEPT ![<<w, StateOfBase(p, w)>>] = @ + 1] ELSE owed
    /\ UNCHANGED <<p, stateOf, alarm, now, taken, on, from, since>>

\* The counter of w goes away, or comes back from zero.
VanishOrAppear(w) ==
    /\ p.def.vanish
    /\ src' = [src EXCEPT ![w] = IF @ = Absent THEN 0 ELSE Absent]
    /\ UNCHANGED <<p, stateOf, alarm, now, unreported, owed, taken, on, from, since>>

\* The counter of w starts again.
Restart(w) ==
    /\ p.def.restart /\ src[w] > 0
    /\ src' = [src EXCEPT ![w] = 0]
    /\ UNCHANGED <<p, stateOf, alarm, now, unreported, owed, taken, on, from, since>>
-----------------------------------------------------------------------------
(* Handlers                                                                *)

Init ==
    /\ \E def \in Defs :
       \E c \in IF def.condition THEN {"unknown", "false", "true"} ELSE {"true"} :
         /\ src = [w \in Dims |-> IF def.pulled /\ w \in def.dims THEN 0 ELSE Absent]
         /\ stateOf \in [def.dims -> IF def.states THEN States ELSE {CHOOSE s \in States : TRUE}]
         /\ now = def.start /\ from = now /\ alarm = ((now \div BucketSize) + 1) * BucketSize
         /\ LET pull == [is |-> "ok", value |-> src,
                         state |-> [w \in def.dims |-> IF def.states THEN Group[stateOf[w]] ELSE kStateUnknown]] IN
            p = IF def.kind = "value" THEN Kept(prepareFirstBucketLocked(NewValue(def, c, now), pull))
               ELSE G!gPrepareFirstBucketLocked(G!NewGauge(def, c, now), pull)
         /\ since = IF ~def.activation /\ c = "true" THEN now ELSE -1
    /\ unreported = [w \in Dims |-> 0]
    /\ owed = [k \in Keys |-> 0] /\ taken = {} /\ on = {}

\* Where the first gauge of a bucket that starts now would be.
Started(q) == IF Collecting(q) THEN now ELSE -1

\* The producer is q after a handler that reports nothing.
Handled(q) == Becomes(q, q, Started(q))

\* A bucket that starts with a report waits for the next pull.
Unknown == -2

\* The start of the bucket that time t, which is not over, falls into.
BucketOf(t) == Max({p.start, (t \div BucketSize) * BucketSize})

\* onMatchedLogEvent with a pushed atom of time t.
Pushed(w, v, t) ==
    /\ ~p.def.pulled /\ Cardinality(taken) < p.def.grow
    /\ ~\E a \in taken : a.at = t /\ a.key = <<w, kStateUnknown>> /\ a.val = v
    /\ Handled(IF IsValue THEN IF p.active THEN OnValue(p, w, StateKey(w), v, t, p.cond = "true") ELSE p
               ELSE G!OnAtom(p, w, v, t))
    /\ taken' = IF Collecting(p) /\ t >= p.start
                THEN taken \cup {[at |-> t, key |-> <<w, kStateUnknown>>, val |-> v, bucket |-> BucketOf(t)]}
                ELSE taken
    /\ UNCHANGED <<world, alarm>>

\* Buckets that a request ends are not empty: the clock counts nanoseconds.
MaySplit == now > p.start

\* There is room for one more bucket.
Room == p.def.buckets = 0 \/ Len(p.past) + Len(p.skips) < p.def.buckets

\* onMatchedLogEvent with the atom that triggers pulls.
Trigger(t, is) ==
    /\ ~IsValue /\ p.def.trigger
    /\ Handled(G!OnTrigger(p, Answer(is), t))
    /\ UNCHANGED <<world, alarm, taken>>

onConditionChanged(c, t, is) ==
    /\ p.def.condition
    /\ Handled(IF IsValue THEN ValueConditionChanged(p, c, t, Answer(is))
               ELSE G!GaugeConditionChanged(p, c, t, Answer(is)))
    /\ UNCHANGED <<world, alarm, taken>>

\* activateLocked, or flushIfExpire of an activation that ended.
onActiveStateChanged(t, is) ==
    /\ p.def.activation /\ (p.active => MaySplit)
    /\ Room
    /\ Handled(IF IsValue THEN ValueActiveChanged([p EXCEPT !.active = ~@], t, Answer(is))
               ELSE G!GaugeActiveChanged([p EXCEPT !.active = ~@], t, Answer(is)))
    /\ UNCHANGED <<world, alarm, taken>>

onStateChanged(w, s, t, is) ==
    /\ IsValue /\ p.def.states /\ stateOf[w] # s
    /\ stateOf' = [stateOf EXCEPT ![w] = s]
    /\ Handled(ValueStateChanged(p, w, StateKey(w), t, [Answer(is) EXCEPT !.state[w] = Group[s]]))
    /\ UNCHANGED <<src, now, alarm, taken>>

\* StatsPullerManager::OnAlarmFired, which sets the alarm for the next bucket end.
OnAlarmFired(is) ==
    /\ p.def.pulled /\ now >= alarm /\ (IsValue \/ p.def.sampling = "RANDOM_ONE_SAMPLE")
    /\ alarm' = ((now \div BucketSize) + 1) * BucketSize
    /\ Handled(IF IsValue THEN ValueDataPulled(p, Answer(is), now)
               ELSE G!GaugeDataPulled(p, Answer(is), now))
    /\ UNCHANGED <<world, taken>>

onDumpReport(include_current_partial_bucket, erase_data, fast, is) ==
    /\ include_current_partial_bucket => MaySplit /\ (erase_data \/ Room)
    /\ \E q \in {IF IsValue THEN ValueDumpReport(p, now, include_current_partial_bucket, fast, Answer(is))
                 ELSE G!GaugeDumpReport(p, now, include_current_partial_bucket)} :
          /\ Becomes(q, IF erase_data THEN clearPastBucketsLocked(q) ELSE q, Unknown)
          /\ taken' = IF erase_data THEN {a \in taken : a.bucket = q.start} ELSE taken
    /\ UNCHANGED <<world, alarm>>

dropData ==
    /\ \E q \in {IF IsValue THEN flushIfNeededLocked(p, now) ELSE G!GaugeDropData(p, now)} :
          /\ Becomes(q, IF IsValue THEN clearPastBucketsLocked(q) ELSE q, Unknown)
          /\ taken' = {a \in taken : a.bucket = q.start}
    /\ UNCHANGED <<world, alarm>>

\* notifyAppUpgrade (with split_bucket_for_app_upgrade), onStatsdInitCompleted
Split(is) ==
    /\ MaySplit /\ Room
    /\ Handled(IF IsValue THEN SplitBucket(p, now, Answer(is)) ELSE G!GaugeSplit(p, now, Answer(is)))
    /\ UNCHANGED <<world, alarm, taken>>

Next ==
    \/ Tick
    \/ \E w \in p.def.dims : Grow(w) \/ VanishOrAppear(w) \/ Restart(w)
    \/ \E w \in p.def.dims, v \in Values, t \in EventTimes : Pushed(w, v, t)
    \/ \E is \in Answers :
         \/ OnAlarmFired(is) \/ Split(is)
         \/ \E include, erase, fast \in BOOLEAN : onDumpReport(include, erase, fast, is)
         \/ \E t \in EventTimes :
              \/ Trigger(t, is)
              \/ onActiveStateChanged(t, is)
              \/ \E c \in BOOLEAN : onConditionChanged(c, t, is)
              \/ \E w \in p.def.dims, s \in States : onStateChanged(w, s, t, is)
    \/ dropData

Spec == Init /\ [][Next]_vars

-----------------------------------------------------------------------------
(* Properties                                                              *)

\* Differences never report more than a counter grew while the metric collected,
\* whatever pulls fail or are late, keys vanish, counters restart, events are
\* late and buckets are split, skipped or dropped (onMatchedLogEventInternalLocked,
\* resetBase).
NoOvercount ==
    IsValue /\ p.def.diff => \A w \in Dims :
       SumFunctionOnSet(CurrentValues(p), {k \in Keys : k[1] = w}) <= unreported[w]

\* With pulls that work nothing is lost either: growth that could be measured is
\* reported for the state it fell into, is in the current bucket, or is the
\* difference to the base, unless the report lists the bucket as skipped
\* (pullAndMatchEventsLocked, onStateChanged, flushCurrentBucketLocked).
DiffConserved ==
    IsValue /\ p.def.exact /\ ~p.skipped => \A k \in Keys : owed[k] = Pending(p, k)

Aggregated(agg, S) ==
    LET vals == {a.val : a \in S}
        sum == MapThenSumSet(LAMBDA a : a.val, S) IN
    CASE agg = "SUM" -> [val |-> sum, n |-> 1]
      [] agg = "AVG" -> [val |-> sum, n |-> Cardinality(S)]
      [] agg = "MIN" -> [val |-> Min(vals), n |-> 1]
      [] OTHER -> [val |-> Max(vals), n |-> 1]

\* A bucket of a pushed metric aggregates exactly the atoms of its time, in
\* whatever order they came (onMatchedLogEventInternalLocked, buildPartialBucket).
PushedExact ==
    IsValue /\ ~p.def.pulled => \A i \in DOMAIN p.past : \A k \in Keys :
       LET b == p.past[i]
           S == {a \in taken : a.key = k /\ a.bucket = b.start} IN
       IF S = {} THEN k \notin DOMAIN b.vals
       ELSE k \in DOMAIN b.vals /\ b.vals[k] = Aggregated(p.def.agg, S)

Covers(b, t) == b.start <= t /\ t < b.end

\* The reported and the skipped buckets of a value metric cover all time up to
\* the current bucket, and none of it twice (flushCurrentBucketLocked).
BucketsTile ==
    IsValue /\ p.def.buckets > 0 /\ ~p.def.faults => \A t \in 0..(p.start - 1) :
       Cardinality({i \in DOMAIN p.past : Covers(p.past[i], t)})
         + Cardinality({i \in DOMAIN p.skips : Covers(p.skips[i], t)}) = IF t >= from THEN 1 ELSE 0

\* The condition time of a bucket is the time condition and activation held in it
\* (ConditionTimer, and who tells it what when).
ConditionTimeRight ==
    IsValue /\ p.def.timed => \A i \in DOMAIN p.past :
       p.past[i].true = Cardinality({t \in on : Covers(p.past[i], t)})

\* "the gauge metric producer always reports the gauge at the earliest time of the
\* bucket when the condition is met" (GaugeMetricProducer.h:51): with an alarm on
\* time and pulls that work, except in what is left of a bucket after a report.
GaugeEarliest ==
    ~IsValue /\ p.def.punctual /\ since # Unknown => \A k \in DOMAIN p.bkt : p.bkt[k][1].at = since

\* What a value metric reports is what was measured: differences never more than
\* the counters grew, pushed atoms exactly once (onMatchedLogEventInternalLocked).
ValuesExact == NoOvercount /\ PushedExact

\* Buckets tile time, and each has the condition time that fell into it
\* (flushCurrentBucketLocked, ConditionTimer).
BucketsRight == BucketsTile /\ ConditionTimeRight
=============================================================================
