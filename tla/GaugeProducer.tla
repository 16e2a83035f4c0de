--------------------------- MODULE GaugeProducer ---------------------------
(***************************************************************************)
(* metrics/GaugeMetricProducer.cpp: a few atoms of each bucket as they     *)
(* were, pushed or pulled.  The producer is a record as in ValueProducer:  *)
(* bkt, mCurrentSlicedBucket, has a sequence of atoms for a key, and full  *)
(* is mCurrentSlicedBucketForAnomaly.  A key has no state.                 *)
(***************************************************************************)
EXTENDS AnomalyTracker, FiniteSetsExt

CONSTANTS BucketSize, Dims

gAbsent == -1
gEmpty == <<>>
Unsliced == "unknown"

gBucketEnd(p) == (p.num + 1) * BucketSize

\* The first value of each key of the current bucket.
updateCurrentSlicedBucketForAnomaly(p) ==
    [k \in Keys |-> IF k \in DOMAIN p.bkt /\ p.bkt[k] # <<>> THEN Head(p.bkt[k]).val ELSE p.full[k]]

\* A bucket that is too small is skipped.
gFlushCurrentBucketLocked(p, t, next) ==
    LET full == gBucketEnd(p)
        end == Min({t, full})
        values == updateCurrentSlicedBucketForAnomaly(p)
        large == end - p.start >= p.def.minBucket
        bucket == [start |-> p.start, end |-> end, atoms |-> p.bkt] IN
    [p EXCEPT
       !.past = IF large /\ p.bkt # gEmpty THEN Append(@, bucket) ELSE @,
       !.skips = IF large THEN @ ELSE Append(@, [start |-> p.start, end |-> end]),
       !.tr = IF p.def.alert /\ t > full THEN addPastBucket(@, values, p.num) ELSE @,
       !.full = IF p.def.alert /\ t <= full THEN values ELSE NoEntries,
       !.bkt = gEmpty, !.start = next]

gFlushIfNeededLocked(p, t) ==
    LET end == gBucketEnd(p)
        forward == 1 + ((t - end) \div BucketSize) IN
    IF t < end THEN p
    ELSE [gFlushCurrentBucketLocked(p, t, end + (forward - 1) * BucketSize) EXCEPT !.num = @ + forward]

gFlushLocked(p, t) == gFlushCurrentBucketLocked(gFlushIfNeededLocked(p, t), t, t)

-----------------------------------------------------------------------------
(* Atoms                                                                   *)

gHitGuardRailLocked(p, key) ==
    key \notin DOMAIN p.bkt /\ Cardinality(DOMAIN p.bkt) + 1 > p.def.limit

\* An atom of the key w is kept: the first of the bucket, or one of the first
\* mGaugeAtomsPerDimensionLimit.
Keep(p, w, val, t) ==
    LET key == <<w, Unsliced>>
        atoms == IF key \in DOMAIN p.bkt THEN p.bkt[key] ELSE <<>> IN
    IF \/ key \in DOMAIN p.bkt /\ p.def.sampling = "RANDOM_ONE_SAMPLE"
       \/ gHitGuardRailLocked(p, key)
    THEN p
    ELSE IF Len(atoms) >= p.def.atoms THEN [p EXCEPT !.bkt = (key :> atoms) @@ @]
    ELSE [p EXCEPT !.bkt = (key :> Append(atoms, [val |-> val, at |-> t])) @@ @,
                   !.tr = IF p.def.alert THEN AdvanceForCurrent(@, p.num) ELSE @]

\* onMatchedLogEventInternalLocked for an atom, which is not the trigger.
OnAtom(p, w, val, t) ==
    IF ~p.active \/ p.cond # "true" \/ t < p.start THEN p
    ELSE Keep(gFlushIfNeededLocked(p, t), w, val, t)

OnAtoms(p, pull, t) ==
    FoldSet(LAMBDA w, q : OnAtom(q, w, pull.value[w], t), p, {w \in Dims : pull.value[w] # gAbsent})

\* One sample is enough for RANDOM_ONE_SAMPLE.
TriggerPuller(p) ==
    p.cond = "true" /\ (p.def.sampling = "RANDOM_ONE_SAMPLE" => p.bkt = gEmpty)

gPullAndMatchEventsLocked(p, pull, t) ==
    IF ~TriggerPuller(p) \/ pull.is # "ok" THEN p ELSE OnAtoms(p, pull, t)

\* The atom that triggers a pull.
OnTrigger(p, pull, t) ==
    IF ~p.active \/ p.cond # "true" \/ t < p.start THEN p
    ELSE gPullAndMatchEventsLocked(gFlushIfNeededLocked(p, t), pull, t)

-----------------------------------------------------------------------------
(* Handlers                                                                *)

NewGauge(def, c, t) ==
    [def |-> def, cond |-> c, active |-> ~def.activation, start |-> t, num |-> t \div BucketSize,
     bkt |-> gEmpty, full |-> NoEntries, tr |-> NewTracker, past |-> <<>>, skips |-> <<>>]

\* Faulty: only metrics with the other samplings are pulled at once.
Sampled_Others(p) == p.def.pulled /\ p.def.sampling # "RANDOM_ONE_SAMPLE"

\* Pulled as soon as a bucket starts.
Sampled(p) == p.def.pulled /\ p.def.sampling = "RANDOM_ONE_SAMPLE"

gPrepareFirstBucketLocked(p, pull) ==
    IF p.active /\ Sampled(p) THEN gPullAndMatchEventsLocked(p, pull, p.start) ELSE p

\* onConditionChangedLocked, and onSlicedConditionMayChangeLocked with the overall condition
GaugeConditionChanged(p, condition, t, pull) ==
    LET q == [p EXCEPT !.cond = IF condition THEN "true" ELSE "false"]
        r == gFlushIfNeededLocked(q, t) IN
    IF ~p.active THEN q
    ELSE IF p.def.pulled /\ ~p.def.trigger THEN gPullAndMatchEventsLocked(r, pull, t) ELSE r

GaugeActiveChanged(p, t, pull) ==
    LET q == IF ~p.active THEN gFlushLocked(p, t) ELSE p IN
    IF /\ p.cond = "true" /\ p.def.pulled
       /\ ~p.def.trigger \/ (p.active /\ p.def.sampling = "RANDOM_ONE_SAMPLE")
    THEN gPullAndMatchEventsLocked(q, pull, t) ELSE q

GaugeDataPulled(p, pull, t) == IF pull.is # "ok" THEN p ELSE OnAtoms(p, pull, t)

\* notifyAppUpgrade, onStatsdInitCompleted
GaugeSplit(p, t, pull) ==
    IF Sampled(p) THEN gPullAndMatchEventsLocked(gFlushLocked(p, t), pull, t) ELSE gFlushLocked(p, t)

GaugeDumpReport(p, t, include_current_partial_bucket) ==
    IF include_current_partial_bucket THEN gFlushLocked(p, t) ELSE gFlushIfNeededLocked(p, t)

\* A drop keeps the list of skipped buckets.
GaugeDropData(p, t) == [gFlushIfNeededLocked(p, t) EXCEPT !.past = <<>>]
=============================================================================
