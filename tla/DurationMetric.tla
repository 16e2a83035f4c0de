--------------------------- MODULE DurationMetric ---------------------------
(***************************************************************************)
(* metrics/DurationMetricProducer.cpp over DurationTrackers, with the part *)
(* of the config it listens to: the condition (one of three kinds), its    *)
(* activation and the state it is sliced by.                               *)
(*                                                                         *)
(* The kinds of condition (def.path):                                      *)
(*   unsliced  one truth value, MetricProducer::mCondition;                *)
(*   sliced    a truth value per internal key, asked from the wizard again *)
(*             on every change;                                            *)
(*   opt1      an AND of one sliced predicate, all of whose dimensions are *)
(*             linked to the what, and an unsliced part: only the keys     *)
(*             the last evaluation changed are looked at.                  *)
(* A handler holds mMutex: it is one action.  Handlers get their times in  *)
(* order here; CountMetric has them out of order.                          *)
(***************************************************************************)
EXTENDS DurationTrackers

CONSTANTS Whats,         \* values of dimensions_in_what
          Defs,          \* the metric definitions; bounds: def.last is the last
                         \* tick, def.starts bounds open starts of a key, and no
                         \* partial bucket is asked for beyond def.buckets
          StartTimes     \* times at which the metric may be created

ASSUME KeysAssumption == Keys = Whats \X States

VARIABLES d,             \* the metric, as described in DurationTrackers
          mIsActive,
          mCondition,    \* unsliced: is the condition kTrue?
          mUnSlicedPartCondition,   \* opt1: the unsliced part as last seen
          sliceTrue,     \* wizard: keys of the sliced predicate that are true
          changed,       \* wizard: keys changed to true and to false last (opt1)
          unslicedPart,  \* wizard: the unsliced part of the condition
          stateOf,       \* StateTracker: the state of each what
          \* history:
          now,           \* the last time a handler was given
          open,          \* starts that have not been stopped
          on,            \* <<key, tick>>: ticks at which the key's duration ran
          ran,           \* how long each open internal key has run,
          ranToPause,    \* and, if nested, how long up to its last pause
          longest,       \* the longest run to be reported since the last flush
          sent           \* buckets that left in a report or were dropped

env == <<mCondition, sliceTrue, changed, unslicedPart, stateOf>>
vars == <<d, mIsActive, mUnSlicedPartCondition, env, now, open, on, ran, ranToPause, longest, sent>>

def == d.def
Inner == def.whats \X def.internals

\* The part of the sliced predicate a start is linked to.
Link(w, i) == IF def.path = "opt1" THEN w ELSE <<w, i>>

\* ConditionWizard::query, or mCondition.
Met(w, i) ==
    CASE def.path = "unsliced" -> mCondition
      [] def.path = "sliced" -> Link(w, i) \in sliceTrue
      [] def.path = "opt1" -> Link(w, i) \in sliceTrue /\ unslicedPart = "kTrue"

-----------------------------------------------------------------------------
(* Flushing                                                                *)

Idle(e, w) ==
    IF e.def.agg = "SUM" THEN e.trk[w].started = NoStarts /\ e.trk[w].paused = NoStarts
    ELSE DOMAIN e.trk[w].infos = {}

DropTrackers(e, gone) == [e EXCEPT !.trk = [w \in DOMAIN @ \ gone |-> @[w]]]

OverTrackers(Op(_, _), e) == FoldLeft(Op, e, SetToSeq(DOMAIN e.trk))

\* Trackers without pending starts are dropped with their bucket.
DropIdle(e) == DropTrackers(e, {w \in DOMAIN e.trk : Idle(e, w)})

flushCurrentBucketLocked(e, t, next) ==
    [DropIdle(OverTrackers(LAMBDA x, w : IF x.def.agg = "SUM" THEN OringFlush(x, w, t)
                                         ELSE MaxFlush(x, w, t), e)) EXCEPT !.start = next]

flushIfNeededLocked(e, t) ==
    LET end == (e.num + 1) * BucketSize
        n == 1 + ((t - end) \div BucketSize) IN
    IF end > t THEN e
    ELSE [flushCurrentBucketLocked(e, t, end + (n - 1) * BucketSize) EXCEPT !.num = @ + n]

flushLocked(e, t) == flushCurrentBucketLocked(flushIfNeededLocked(e, t), t, t)

-----------------------------------------------------------------------------
(* Starts and stops                                                        *)

hitGuardRailLocked(e, w) ==
    w \notin DOMAIN e.trk /\ Cardinality(DOMAIN e.trk) + 1 > e.def.limit

noteStart(e, w, i, condition, t) ==
    IF e.def.agg = "SUM" THEN OringNoteStart(e, w, i, condition, t)
    ELSE MaxNoteStart(e, w, i, condition, t)

handleStartEvent(e, w, i, condition, t) ==
    LET f == IF w \in DOMAIN e.trk THEN e
             ELSE [e EXCEPT !.trk = (w :> createDurationTracker(e, stateOf[w])) @@ @] IN
    IF hitGuardRailLocked(e, w) THEN e ELSE noteStart(f, w, i, condition, t)

handleStopEvent(e, w, i, t) ==
    IF w \notin DOMAIN e.trk THEN e
    ELSE IF e.def.agg = "SUM" THEN OringNoteStop(e, w, i, t)
    ELSE MaxNoteStop(e, w, i, t, FALSE)

handleStopAll(e, t) ==
    OverTrackers(LAMBDA x, w : IF x.def.agg = "SUM" THEN OringNoteStopAll(x, w, t)
                               ELSE MaxNoteStopAll(x, w, t), e)

-----------------------------------------------------------------------------
(* Condition, activation, state                                            *)

onConditionChanged(e, w, condition, t) ==
    IF e.def.agg = "SUM" THEN OringOnConditionChanged(e, w, condition, t)
    ELSE MaxOnConditionChanged(e, w, condition, t)

onSlicedConditionMayChange(e, w, met, t) ==
    IF e.def.agg = "SUM" THEN OringOnSlicedConditionMayChange(e, w, met, t)
    ELSE MaxOnSlicedConditionMayChange(e, w, met, t)

ChangedIf(hit, e, w, condition, t) == IF hit THEN onConditionChanged(e, w, condition, t) ELSE e

\* onSlicedConditionMayChangeLocked_opt1: with nothing changed in the sliced
\* predicate the change is taken to come from the unsliced part.
opt1(e, t, true, part, ch) ==
    IF ch.true = {} /\ ch.false = {}
    THEN OverTrackers(LAMBDA x, w : ChangedIf(w \in true, x, w, part, t), e)
    ELSE IF ~part THEN e
    ELSE OverTrackers(LAMBDA x, w :
            ChangedIf(w \in ch.false, ChangedIf(w \in ch.true, x, w, TRUE, t), w, FALSE, t), e)

\* onSlicedConditionMayChangeInternalLocked, with the wizard's new answers.
SlicedChange(e, t, true, part, ch) ==
    IF def.path = "opt1"
    THEN IF mUnSlicedPartCondition = "kFalse" /\ part = "kFalse"
         THEN d' = e /\ UNCHANGED mUnSlicedPartCondition
         ELSE d' = opt1(e, t, true, part = "kTrue", ch) /\ mUnSlicedPartCondition' = part
    ELSE /\ d' = OverTrackers(LAMBDA x, w :
                    onSlicedConditionMayChange(x, w, {i \in Internals : <<w, i>> \in true}, t), e)
         /\ UNCHANGED mUnSlicedPartCondition

-----------------------------------------------------------------------------
(* The reference: what ran, tick by tick                                   *)

Runs(w, i) == open[w, i] > 0 /\ Met(w, i) /\ mIsActive
WhatRuns(w) == \E i \in def.internals : Runs(w, i)

\* A handler is given the time t: the ticks until then ran as things stood.
Until(t) ==
    /\ t \in now..def.last /\ now' = t
    /\ on' = on \cup {<<<<w, stateOf[w]>>, u>> :
                        w \in {x \in def.whats : WhatRuns(x) /\ def.agg = "SUM"}, u \in now..(t - 1)}

RanUntil(t) ==
    [k \in Inner |-> ran[k] + (IF Runs(k[1], k[2]) /\ def.agg = "MAX" THEN t - now ELSE 0)]

RanToPause ==
    [k \in Inner |-> IF Runs(k[1], k[2]) \/ ~def.nested THEN ranToPause[k] ELSE ran[k]]

\* A flush begins a new longest run.
LongestAfter(flushed) == [w \in def.whats |-> IF flushed THEN 0 ELSE longest[w]]

\* A handler that neither starts nor stops anything.
NoStartNoStop(t, flushed) ==
    /\ ran' = RanUntil(t) /\ ranToPause' = RanToPause
    /\ longest' = LongestAfter(flushed) /\ UNCHANGED open

\* The runs of these internal keys end.
End(keys, t, flushed) ==
    /\ open' = [k \in Inner |-> IF k \in keys THEN 0 ELSE open[k]]
    /\ ran' = [k \in Inner |-> IF k \in keys THEN 0 ELSE RanUntil(t)[k]]
    /\ ranToPause' = [k \in Inner |-> IF k \in keys THEN 0 ELSE RanToPause[k]]
    /\ longest' = [w \in def.whats |->
          Max({LongestAfter(flushed)[w]} \cup {RanUntil(t)[k] : k \in {x \in keys : x[1] = w /\ open[x] > 0}})]

\* One of several nested starts ends: the run goes on, and what it ran up to its
\* last pause counts already.
EndNested(w, i, t, flushed) ==
    /\ open' = [open EXCEPT ![w, i] = @ - 1]
    /\ ran' = RanUntil(t) /\ ranToPause' = RanToPause
    /\ longest' = [LongestAfter(flushed) EXCEPT ![w] = Max({@, RanToPause[w, i]})]

-----------------------------------------------------------------------------
(* Handlers                                                                *)

NoTrackers == [w \in {} |-> 0]
NoBuckets == [k \in Keys |-> <<>>]

New(m, t) ==
    [def |-> m, trk |-> NoTrackers, past |-> NoBuckets, num |-> t \div BucketSize, start |-> t,
     at |-> NewTracker, alarms |-> [k \in Keys |-> 0]]

\* The metric is created at t.  initTrueDimensions starts what its what-predicate
\* has already counted: here, n starts of one internal key.
Init ==
    \E m \in Defs, t \in StartTimes : \E w0 \in m.whats, i0 \in m.internals, n \in {0, m.starts} :
    /\ stateOf \in [m.whats -> m.states]
    /\ mIsActive \in {TRUE, ~m.activation}
    /\ mCondition \in {TRUE, ~(m.condition /\ m.path = "unsliced")}
    /\ sliceTrue = {} /\ changed = [true |-> {}, false |-> {}]
    /\ unslicedPart = "kFalse" /\ mUnSlicedPartCondition = "kUnknown"
    /\ now = t /\ on = {} /\ sent = NoBuckets
    /\ open = [k \in m.whats \X m.internals |-> IF k = <<w0, i0>> THEN n ELSE 0]
    /\ ran = [k \in m.whats \X m.internals |-> 0] /\ ranToPause = ran /\ longest = [w \in m.whats |-> 0]
    /\ d = FoldLeft(LAMBDA e, j : handleStartEvent(e, w0, i0,
                        m.path = "unsliced" /\ mCondition /\ mIsActive, t), New(m, t), [j \in 1..n |-> j])

\* An inactive metric handles the event but does not flush.
FlushIfActive(t) == IF mIsActive THEN flushIfNeededLocked(d, t) ELSE d

\* Has the guardrail let this start in?
Accepted(e, w, i) ==
    IF e.def.agg = "SUM"
    THEN w \in DOMAIN e.trk /\ e.trk[w].started[i] + e.trk[w].paused[i] = open[w, i] + 1
    ELSE w \in DOMAIN e.trk /\ i \in DOMAIN e.trk[w].infos

StartEvent(w, i, t) ==
    /\ open[w, i] < def.starts /\ Until(t)
    /\ \E e \in {FlushIfActive(t)} :
          /\ d' = handleStartEvent(e, w, i, Met(w, i) /\ mIsActive, t)
          /\ IF Accepted(d', w, i)
             THEN open' = [open EXCEPT ![w, i] = @ + 1]
             ELSE UNCHANGED open
          /\ ran' = RanUntil(t) /\ ranToPause' = RanToPause
          /\ longest' = LongestAfter(e.num # d.num)
    /\ UNCHANGED <<mIsActive, mUnSlicedPartCondition, env, sent>>

StopEvent(w, i, t) ==
    /\ Until(t)
    /\ \E e \in {FlushIfActive(t)} :
          /\ d' = handleStopEvent(e, w, i, t)
          /\ IF def.nested /\ open[w, i] > 1
             THEN EndNested(w, i, t, e.num # d.num)
             ELSE End({<<w, i>>}, t, e.num # d.num)
    /\ UNCHANGED <<mIsActive, mUnSlicedPartCondition, env, sent>>

StopAllEvent(t) ==
    /\ Until(t)
    /\ \E e \in {FlushIfActive(t)} :
          /\ d' = handleStopAll(e, t)
          /\ End(Inner, t, e.num # d.num)
    /\ UNCHANGED <<mIsActive, mUnSlicedPartCondition, env, sent>>

onConditionChangedLocked(t) ==
    /\ def.path = "unsliced" /\ def.condition /\ Until(t)
    /\ mCondition' = ~mCondition
    /\ \E e \in {flushIfNeededLocked(d, t)} :
          /\ d' = IF mIsActive THEN OverTrackers(LAMBDA x, w : onConditionChanged(x, w, ~mCondition, t), e) ELSE d
          /\ NoStartNoStop(t, mIsActive /\ e.num # d.num)
    /\ UNCHANGED <<mIsActive, mUnSlicedPartCondition, sliceTrue, changed, unslicedPart, stateOf, sent>>

\* The keys that turn true and false when those in `true' are.
Changes(true) == [true |-> true \ sliceTrue, false |-> sliceTrue \ true]

\* An event changes the sliced predicate (one key, or all true ones by stop-all)
\* or the unsliced part, and the metric is told.
onSlicedConditionMayChangeLocked(t, true, part) ==
    /\ def.path # "unsliced" /\ Until(t)
    /\ sliceTrue' = true /\ unslicedPart' = part
    /\ changed' = IF def.path = "opt1" THEN Changes(true) ELSE changed
    /\ \E e \in {flushIfNeededLocked(d, t)} :
          /\ IF mIsActive THEN SlicedChange(e, t, true, part, Changes(true))
             ELSE UNCHANGED <<d, mUnSlicedPartCondition>>
          /\ NoStartNoStop(t, mIsActive /\ e.num # d.num)
    /\ UNCHANGED <<mIsActive, mCondition, stateOf, sent>>

onActiveStateChangedLocked(t) ==
    /\ def.activation /\ Until(t)
    /\ mIsActive' = ~mIsActive
    /\ \E e \in {IF mIsActive THEN flushLocked(d, t)
                 ELSE IF def.path # "unsliced" \/ mCondition THEN flushIfNeededLocked(d, t) ELSE d} :
          /\ IF def.path = "unsliced" /\ ~mCondition THEN d' = e /\ UNCHANGED mUnSlicedPartCondition
             ELSE IF def.path = "unsliced" \/ mIsActive
             THEN /\ d' = OverTrackers(LAMBDA x, w : onConditionChanged(x, w, ~mIsActive, t), e)
                  /\ UNCHANGED mUnSlicedPartCondition
             ELSE SlicedChange(e, t, sliceTrue, unslicedPart, changed)
          /\ NoStartNoStop(t, mIsActive \/ e.num # d.num)
    /\ UNCHANGED <<env, sent>>

onStateChanged(w, s, t) ==
    /\ s \in def.states \ {stateOf[w]} /\ def.agg = "SUM" /\ Until(t)
    /\ stateOf' = [stateOf EXCEPT ![w] = s]
    /\ \E e \in {flushIfNeededLocked(d, t)} :
          /\ d' = IF w \in DOMAIN e.trk THEN OringOnStateChanged(e, w, s, t) ELSE e
          /\ NoStartNoStop(t, e.num # d.num)
    /\ UNCHANGED <<mIsActive, mUnSlicedPartCondition, mCondition, sliceTrue, changed, unslicedPart, sent>>

Forget(e) ==
    /\ d' = [e EXCEPT !.past = NoBuckets]
    /\ sent' = [k \in Keys |-> sent[k] \o e.past[k]]

onDumpReportLocked(t, include_current_partial_bucket, erase_data) ==
    /\ include_current_partial_bucket => \A k \in Keys : Len(sent[k] \o d.past[k]) < def.buckets
    /\ Until(t)
    /\ \E e \in {IF include_current_partial_bucket THEN flushLocked(d, t) ELSE flushIfNeededLocked(d, t)} :
          /\ IF erase_data THEN Forget(e) ELSE d' = e /\ UNCHANGED sent
          /\ NoStartNoStop(t, include_current_partial_bucket \/ e.num # d.num)
    /\ UNCHANGED <<mIsActive, mUnSlicedPartCondition, env>>

\* dropDataLocked and clearPastBucketsLocked.
dropDataLocked(t) ==
    /\ \E e \in {flushIfNeededLocked(d, t)} :
          /\ Until(t) /\ Forget(e)
          /\ NoStartNoStop(t, e.num # d.num)
    /\ UNCHANGED <<mIsActive, mUnSlicedPartCondition, env>>

\* DurationAnomalyTracker::informAlarmsFired for an alarm that is due.
AlarmFired(k, t) ==
    /\ d.alarms[k] # 0 /\ Until(t) /\ t >= d.alarms[k]
    /\ d' = [d EXCEPT !.alarms[k] = 0]
    /\ NoStartNoStop(t, FALSE)
    /\ UNCHANGED <<mIsActive, mUnSlicedPartCondition, env, sent>>

Slices == {Link(w, i) : w \in def.whats, i \in def.internals}

Next ==
    \E t \in now..def.last :
       \/ \E w \in def.whats, i \in def.internals : StartEvent(w, i, t) \/ StopEvent(w, i, t)
       \/ StopAllEvent(t)
       \/ onConditionChangedLocked(t)
       \/ \E x \in Slices : onSlicedConditionMayChangeLocked(t, SymDiff(sliceTrue, {x}), unslicedPart)
       \/ sliceTrue # {} /\ onSlicedConditionMayChangeLocked(t, {}, unslicedPart)
       \/ /\ def.path = "opt1"
          /\ \E part \in {"kTrue", "kFalse"} \ {unslicedPart} :
                onSlicedConditionMayChangeLocked(t, sliceTrue, part)
       \/ onActiveStateChangedLocked(t)
       \/ \E w \in def.whats, s \in def.states : onStateChanged(w, s, t)
       \/ \E include, erase \in BOOLEAN : onDumpReportLocked(t, include, erase)
       \/ dropDataLocked(t)
       \/ \E k \in Keys : AlarmFired(k, t)

Spec == Init /\ [][Next]_vars

-----------------------------------------------------------------------------
(* Properties                                                              *)

Ticks(k, from, to) == Cardinality({u \in from..(to - 1) : <<k, u>> \in on})

AllBuckets(k) == sent[k] \o d.past[k]

\* What the current bucket of a key holds when it is read at `now'.
Current(k) ==
    LET tr == d.trk[k[1]] IN
    IF k[1] \notin DOMAIN d.trk THEN 0
    ELSE tr.dur[k[2]] + (IF tr.state = k[2] /\ tr.started # NoStarts THEN now - tr.last ELSE 0)

\* A summed duration is the time the duration really ran: every bucket, kept,
\* reported or dropped, holds the ticks of its span during which some start of
\* the key was open while the condition was met and the metric active, under the
\* state of that moment; the buckets of a key do not overlap; and with the
\* current bucket they account for every tick, across skipped buckets, partial
\* buckets, pauses, activations, state changes and trackers that are dropped.
SumExact ==
    def.agg = "SUM" => \A k \in Keys :
       LET all == AllBuckets(k) IN
       /\ \A j \in 1..Len(all) : all[j].dur = Ticks(k, all[j].start, all[j].end)
       /\ \A j \in 1..(Len(all) - 1) : all[j].end <= all[j + 1].start
       /\ FoldLeft(LAMBDA n, b : n + b.dur, Current(k), all) = Ticks(k, 0, now)

\* The maximum of a bucket is that of the durations that ended in it, each
\* measured from its start over all its pauses and bucket boundaries, and of
\* what nested durations that were stopped, but not for the last time, had run
\* up to their last pause.  (noteStop publishes lastDuration after every stop,
\* though the comment in flushCurrentBucket names only durations that ended.)
MaxExact ==
    def.agg = "MAX" => \A w \in def.whats :
       longest[w] = IF w \in DOMAIN d.trk THEN d.trk[w].dur ELSE 0

\* The state of the window in which the alert's sum is up to date.
Fresh(w) == d.at.mMostRecentBucketNum >= d.trk[w].num - 1

\* The sum the alert would have at the instant t if the duration of w went on
\* from `from': its past buckets, the current one and the time until t.
SumAt(w, from, t) ==
    LET tr == d.trk[w]
        last == (t - 1) \div BucketSize       \* an end belongs to its bucket
        first == last - mNumOfPastBuckets
        past == SumFunctionOnSet([n \in 0..tr.num |->
                   IF n < tr.num THEN PastValue(d, w, n) ELSE tr.dur[tr.state] + tr.full[tr.state]],
                   Max({first, 0})..Min({last, tr.num})) IN
    past + (t - Max({from, first * BucketSize}))

\* The alarm that a start sets goes off at the first moment at which the sum over
\* the alert's buckets reaches the threshold, old buckets leaving the window
\* meanwhile, provided that the window is up to date.
PredictionRight ==
    def.agg = "SUM" /\ def.alert => \A w \in DOMAIN d.trk :
       d.trk[w].started = NoStarts /\ Fresh(w) /\ now < getCurrentBucketEndTimeNs(d.trk[w])
       => LET t == OringPredict(d, w, now) IN
          /\ t >= now /\ (t > now => SumAt(w, now, t) >= TriggerIfSumGt)
          /\ \A u \in (now + 1)..(t - 1) : SumAt(w, now, u) < TriggerIfSumGt
=============================================================================
