---------------------------- MODULE ConfigUpdate ----------------------------
(***************************************************************************)
(* The MetricsManager of one config: how it is built from a config, how a  *)
(* modular update changes it in place, and how it routes an event through  *)
(* matchers, activations and conditions to its metrics.  The state         *)
(* trackers are shared by all managers of the process.                     *)
(*                                                                         *)
(* A config is [matchers, predicates, states, metrics, activations,        *)
(* alerts, alarms, subscriptions, noReport, whitelist, sources]: whitelist *)
(* are the atoms accepted from any uid, sources the allowed log sources.   *)
(* The metrics are in the order count, duration, event, value, gauge in    *)
(* which the code walks them.  One event takes one unit of time.           *)
(***************************************************************************)
EXTENDS Conditions

CONSTANTS
    Worlds,    \* a sequence of worlds: the configs and the events of each, and the bounds
               \* maxUpdates of configs received and maxEvents of events logged
    Limits     \* the largest numbers of metrics, conditions, matchers and alerts

VARIABLES
    world,     \* the world chosen at the start
    mgr,       \* the MetricsManager of the config
    states,    \* StateManager::mStateTrackers: a tracker for each atom that has one
    log,       \* history: the events
    epoch,     \* history: the number of configs received
    since,     \* history: the events before the last dump of the data
    from,      \* history: the config the last update started from
    complete,  \* history: every config of this manager had the states its metrics are sliced by, and
               \* the matchers its predicates name
    verdict    \* history: what became of the last config, and of the same one installed afresh

vars == <<world, mgr, states, log, epoch, since, from, complete, verdict>>

NoConfig == [matchers |-> <<>>, predicates |-> <<>>, states |-> <<>>, metrics |-> <<>>,
             activations |-> <<>>, alerts |-> <<>>, alarms |-> <<>>, subscriptions |-> <<>>,
             noReport |-> {}, whitelist |-> {}, sources |-> {}]

NoWires == [trackerToMetric |-> {}, conditionToMetric |-> {}, activation |-> {},
            deactivation |-> {}, withActivation |-> {}]

NoManager == [valid |-> FALSE, config |-> NoConfig, tags |-> {}, matchers |-> <<>>,
              conditions |-> <<>>, trackerToCondition |-> {}, metrics |-> <<>>, wires |-> NoWires,
              alerts |-> <<>>]

-----------------------------------------------------------------------------
(* Creating a metric.  A failed handle... returns the empty set.           *)

handleMetricWithAtomMatchingTrackers(ms, id, enforceOneAtom) ==
    {i \in DOMAIN ms : ms[i].id = id /\ (enforceOneAtom => Cardinality(ms[i].leaves) <= 1)}

handleMetricWithConditions(cs, d) ==
    {i \in DOMAIN cs : cs[i].id = d.condition /\ d.links \subseteq Ids(cs)}

ConditionFits(cs, d) ==
    IF d.condition = NoId THEN d.links = {} ELSE handleMetricWithConditions(cs, d) # {}

ConditionIndex(cs, d) ==
    IF d.condition = NoId THEN 0 ELSE CHOOSE i \in handleMetricWithConditions(cs, d) : TRUE

handleMetricWithStates(c, d) == ToSet(d.states) \subseteq Ids(c.states)

\* metricToActivationMap
ActivationOf(c, id) == {a \in ToSet(c.activations) : a.metric = id}
EventActivations(c, id) == UNION {ToSet(a.events) : a \in ActivationOf(c, id)}

getMetricProtoHash(c, d) == <<d, ActivationOf(c, d.id)>>

\* The indices of the activations and, with each deactivation, the activation it cancels.
ActivationIndices(ms, evs) == {Position(ms, a.on) : a \in evs}
DeactivationIndices(ms, evs) ==
    {<<Position(ms, a.off), Position(ms, a.on)>> : a \in {b \in evs : b.off # NoId}}

ActivationFits(ms, evs) == \A a \in evs : {a.on, a.off} \ {NoId} \subseteq Ids(ms)

handleMetricActivation(c, ms, d) ==
    LET evs == EventActivations(c, d.id)
    IN [i \in ActivationIndices(ms, evs) |->
            [active |-> FALSE, start |-> 0,
             ttl |-> (CHOOSE a \in evs : Position(ms, a.on) = i).ttl]]

nullopt == [is |-> "nullopt"]
nullptr == [is |-> "nullptr"]

\* The constructor of a producer, after the checks common to all types.  An event metric whose
\* activation cannot be resolved comes back as a null producer, not as a failure.
CreateProducer(c, ms, cs, d, feeds, born) ==
    LET acts == handleMetricActivation(c, ms, d)
        cond == ConditionIndex(cs, d)
    IN IF ~d.ok \/ {} \in feeds \/ ~ConditionFits(cs, d) \/ ~handleMetricWithStates(c, d)
       THEN nullopt
       ELSE IF ~ActivationFits(ms, EventActivations(c, d.id))
       THEN IF d.type = "event" THEN nullptr ELSE nullopt
       ELSE [is |-> "metric", id |-> d.id, type |-> d.type, hash |-> getMetricProtoHash(c, d),
             feeds |-> UNION feeds, conditionIdx |-> cond,
             condition |-> IF cond = 0 THEN kTrue ELSE initialCondition(cs, cond),
             links |-> d.links, acts |-> acts,
             deacts |-> DeactivationIndices(ms, EventActivations(c, d.id)),
             isActive |-> DOMAIN acts = {},
             states |-> [k \in DOMAIN d.states |-> c.states[Position(c.states, d.states[k])]],
             stateLink |-> d.stateLink, alerts |-> {}, data |-> {}, born |-> born]

createCountMetricProducer(c, ms, cs, d, born) ==
    CreateProducer(c, ms, cs, d, {handleMetricWithAtomMatchingTrackers(ms, d.what, d.oneAtom)}, born)

createEventMetricProducer(c, ms, cs, d, born) ==
    CreateProducer(c, ms, cs, d, {handleMetricWithAtomMatchingTrackers(ms, d.what, FALSE)}, born)

\* A duration follows the matchers of the simple predicate it measures.
DurationFeeds(c, ms, d) ==
    LET p == c.predicates[Position(c.predicates, d.what)]
    IN IF d.what \notin Ids(c.predicates) THEN {{}}
       ELSE IF p.kind # "simple" THEN {{}}
       ELSE IF p.start = NoId THEN {{}}
       ELSE {handleMetricWithAtomMatchingTrackers(ms, id, d.oneAtom) : id \in Named(p) \ {NoId}}

createDurationMetricProducer(c, ms, cs, d, born) ==
    CreateProducer(c, ms, cs, d, DurationFeeds(c, ms, d), born)

\* What a value or gauge measures is exactly one atom.
ExactlyOneAtom(ms, feed) == {i \in feed : Cardinality(ms[i].leaves) = 1}

createValueMetricProducer(c, ms, cs, d, born) ==
    CreateProducer(c, ms, cs, d,
        {ExactlyOneAtom(ms, handleMetricWithAtomMatchingTrackers(ms, d.what, d.oneAtom))}, born)

TriggerFeed(ms, d) ==
    IF d.trigger = NoId THEN {} ELSE {handleMetricWithAtomMatchingTrackers(ms, d.trigger, TRUE)}

createGaugeMetricProducer(c, ms, cs, d, born) ==
    CreateProducer(c, ms, cs, d, TriggerFeed(ms, d) \union
        {ExactlyOneAtom(ms, handleMetricWithAtomMatchingTrackers(ms, d.what, d.oneAtom))}, born)

CreateMetric(c, ms, cs, d, born) ==
    CASE d.type = "count" -> createCountMetricProducer(c, ms, cs, d, born)
      [] d.type = "duration" -> createDurationMetricProducer(c, ms, cs, d, born)
      [] d.type = "event" -> createEventMetricProducer(c, ms, cs, d, born)
      [] d.type = "value" -> createValueMetricProducer(c, ms, cs, d, born)
      [] d.type = "gauge" -> createGaugeMetricProducer(c, ms, cs, d, born)

-----------------------------------------------------------------------------
(* Keeping a metric: every index it holds is looked up again.              *)

\* The old activations, found by the old index of their matcher, under the new index.
handleMetricActivationOnConfigUpdate(m, ms, old, evs) ==
    LET Id(i) == ms[i].id
    IN [m EXCEPT !.acts = [i \in ActivationIndices(ms, evs) |-> m.acts[Position(old, Id(i))]],
                 !.deacts = DeactivationIndices(ms, evs)]

\* MetricProducer::onConfigUpdatedLocked, with the matchers the metric's class looks up.
ProducerUpdated(m, c, ms, cs, old, d, feeds) ==
    LET evs == EventActivations(c, d.id)
        found == ActivationFits(ms, evs) /\ {a.on : a \in evs} \subseteq Ids(old)
        new == handleMetricActivationOnConfigUpdate(m, ms, old, evs)
    IN IF ~found \/ {} \in feeds \/ ~(d.condition # NoId => handleMetricWithConditions(cs, d) # {})
       THEN nullopt
       ELSE [new EXCEPT !.alerts = {}, !.feeds = UNION feeds,
                        !.conditionIdx = IF d.condition = NoId THEN @ ELSE ConditionIndex(cs, d)]

CountUpdated(m, c, ms, cs, old, d) ==
    ProducerUpdated(m, c, ms, cs, old, d, {handleMetricWithAtomMatchingTrackers(ms, d.what, FALSE)})
DurationUpdated(m, c, ms, cs, old, d) ==
    ProducerUpdated(m, c, ms, cs, old, d, DurationFeeds(c, ms, d))
EventUpdated(m, c, ms, cs, old, d) ==
    ProducerUpdated(m, c, ms, cs, old, d, {handleMetricWithAtomMatchingTrackers(ms, d.what, FALSE)})
ValueUpdated(m, c, ms, cs, old, d) ==
    ProducerUpdated(m, c, ms, cs, old, d, {handleMetricWithAtomMatchingTrackers(ms, d.what, FALSE)})
GaugeUpdated(m, c, ms, cs, old, d) ==
    ProducerUpdated(m, c, ms, cs, old, d,
        TriggerFeed(ms, d) \union {handleMetricWithAtomMatchingTrackers(ms, d.what, FALSE)})

updateMetric(m, c, ms, cs, old, d) ==
    CASE d.type = "count" -> CountUpdated(m, c, ms, cs, old, d)
      [] d.type = "duration" -> DurationUpdated(m, c, ms, cs, old, d)
      [] d.type = "event" -> EventUpdated(m, c, ms, cs, old, d)
      [] d.type = "value" -> ValueUpdated(m, c, ms, cs, old, d)
      [] d.type = "gauge" -> GaugeUpdated(m, c, ms, cs, old, d)

-----------------------------------------------------------------------------
(* All metrics of a config.                                                *)

\* The wiring one metric adds to the maps of the manager.
Wire(w, m, i) ==
    [trackerToMetric |-> w.trackerToMetric \union {<<t, i>> : t \in m.feeds},
     conditionToMetric |-> w.conditionToMetric \union {<<x, i>> : x \in {m.conditionIdx} \ {0}},
     activation |-> w.activation \union {<<t, i>> : t \in DOMAIN m.acts},
     deactivation |-> w.deactivation \union {<<p[1], i>> : p \in m.deacts},
     withActivation |-> w.withActivation \union (IF m.hash[2] = {} THEN {} ELSE {i})]

\* The loops over the metrics: s has the producers so far and stops at the first failure.
AddMetric(s, m) ==
    IF ~s.ok \/ m.is = "nullopt" THEN [s EXCEPT !.ok = FALSE]
    ELSE [s EXCEPT !.metrics = Append(@, m),
                   !.wires = IF m.is = "metric" THEN Wire(@, m, Len(s.metrics) + 1) ELSE @]

NoMetrics == [ok |-> TRUE, metrics |-> <<>>, wires |-> NoWires]

MultipleActivations(c) ==
    \E i, j \in DOMAIN c.activations : i # j /\ c.activations[i].metric = c.activations[j].metric

\* no_report_metric, and the state atoms: one that is accepted from any uid cannot be sliced by.
MetricsFit(c, s) ==
    /\ s.ok
    /\ c.noReport \subseteq Ids(c.metrics)
    /\ \A i \in DOMAIN s.metrics :
         s.metrics[i].is = "metric" => {d.atom : d \in ToSet(s.metrics[i].states)} \cap c.whitelist = {}

initMetrics(c, ms, cs, born) ==
    LET Add(s, d) == AddMetric(s, CreateMetric(c, ms, cs, d, born))
        s == FoldLeft(Add, NoMetrics, c.metrics)
    IN IF MultipleActivations(c) THEN [NoMetrics EXCEPT !.ok = FALSE]
       ELSE [s EXCEPT !.ok = MetricsFit(c, s)]

metricActivationDepsChange(c, d, replacedMatchers) ==
    \E a \in EventActivations(c, d.id) : {a.on, a.off} \cap replacedMatchers # {}

\* What a metric of each type depends on.
MatcherDependencies(d) == IF d.type = "duration" THEN {} ELSE {d.what, d.trigger} \ {NoId}
ConditionDependencies(d) == (IF d.type = "duration" THEN {d.what} ELSE {}) \union {d.condition} \union d.links

determineMetricUpdateStatus(c, d, old, replaced) ==
    LET m == old[Position(old, d.id)]
    IN IF d.id \notin Ids(old) THEN "NEW"
       ELSE IF \/ m.type # d.type
               \/ m.hash # getMetricProtoHash(c, d)
               \/ MatcherDependencies(d) \cap replaced.matchers # {}
               \/ ConditionDependencies(d) \cap replaced.conditions # {}
               \/ ToSet(d.states) \cap replaced.states # {}
               \/ metricActivationDepsChange(c, d, replaced.matchers)
       THEN "REPLACE" ELSE "PRESERVE"

determineAllMetricUpdateStatuses(c, old, replaced) ==
    Evaluated([i \in DOMAIN c.metrics |-> determineMetricUpdateStatus(c, c.metrics[i], old, replaced)])

KeepOrCreate(c, old, ms, cs, d, status, born) ==
    IF status = "PRESERVE"
    THEN updateMetric(old.metrics[Position(old.metrics, d.id)], c, ms, cs, old.matchers, d)
    ELSE CreateMetric(c, ms, cs, d, born)

updateMetrics(c, old, ms, cs, replaced, born) ==
    LET status == determineAllMetricUpdateStatuses(c, old.metrics, replaced)
        Add(s, i) == AddMetric(s, KeepOrCreate(c, old, ms, cs, c.metrics[i], status[i], born))
        s == FoldLeft(Add, NoMetrics, [i \in DOMAIN c.metrics |-> i])
    IN IF MultipleActivations(c) THEN [NoMetrics EXCEPT !.ok = FALSE] @@ [replaced |-> {}]
       ELSE [s EXCEPT !.ok = MetricsFit(c, s)] @@ [replaced |-> Replaced(c.metrics, status)]

-----------------------------------------------------------------------------
(* Alerts, alarms and the subscriptions to them.                           *)

AddAnomalyTracker(metrics, id, alert) ==
    [i \in DOMAIN metrics |-> IF metrics[i].id = id THEN [metrics[i] EXCEPT !.alerts = @ \union {alert}]
                              ELSE metrics[i]]

createAnomalyTracker(c, a, born) == [id |-> a.id, def |-> a, born |-> born, subscriptions |-> {}]

\* A subscription names the rule it is about.
SubscriptionsFit(c, type, rules) ==
    \A s \in {x \in ToSet(c.subscriptions) : x.type = type} : s.ok /\ s.rule \in rules

initSubscribersForSubscriptionType(c, trackers) ==
    [i \in DOMAIN trackers |-> [trackers[i] EXCEPT !.subscriptions =
        {s.id : s \in {x \in ToSet(c.subscriptions) : x.type = "ALERT" /\ x.rule = trackers[i].id}}]]

Attach(c, metrics) ==
    LET Add(ms, a) == AddAnomalyTracker(ms, a.metric, a.id) IN FoldLeft(Add, metrics, c.alerts)

\* Faulty: the metric of an alert that is kept is taken to be there.
KeptAlertFits_Unchecked(c, a) == TRUE

KeptAlertFits(c, a) == a.metric \in Ids(c.metrics)

AlertFits(c, a) == a.metric \in Ids(c.metrics) /\ a.ok

initAlerts(c, metrics, born) ==
    [ok |-> SubscriptionsFit(c, "ALERT", Ids(c.alerts)) /\ \A a \in ToSet(c.alerts) : AlertFits(c, a),
     metrics |-> Attach(c, metrics),
     alerts |-> initSubscribersForSubscriptionType(c,
                    [i \in DOMAIN c.alerts |-> createAnomalyTracker(c, c.alerts[i], born)])]

determineAlertUpdateStatus(a, old, replacedMetrics) ==
    IF a.id \notin Ids(old) THEN "NEW"
    ELSE IF old[Position(old, a.id)].def # a \/ a.metric \in replacedMetrics THEN "REPLACE"
    ELSE "PRESERVE"

\* A kept tracker forgets its subscriptions (AnomalyTracker::onConfigUpdated) and gets the new ones.
updateAlerts(c, metrics, old, replacedMetrics, born) ==
    LET Kept(a) == determineAlertUpdateStatus(a, old, replacedMetrics) = "PRESERVE"
        Tracker(a) == IF Kept(a) THEN old[Position(old, a.id)] ELSE createAnomalyTracker(c, a, born)
    IN [ok |-> /\ SubscriptionsFit(c, "ALERT", Ids(c.alerts))
               /\ \A a \in ToSet(c.alerts) : IF Kept(a) THEN KeptAlertFits(c, a) ELSE AlertFits(c, a),
        metrics |-> Attach(c, metrics),
        alerts |-> initSubscribersForSubscriptionType(c, [i \in DOMAIN c.alerts |-> Tracker(c.alerts[i])])]

initAlarms(c) == SubscriptionsFit(c, "ALARM", Ids(c.alarms)) /\ WellFormed(c.alarms, DOMAIN c.alarms)

-----------------------------------------------------------------------------
(* A whole config.  A build says whether the config is valid, which        *)
(* producers were made (also when it failed) and the manager.              *)

NotBuilt(metrics) == [ok |-> FALSE, metrics |-> metrics, mgr |-> NoManager]

Built(c, ms, cs, met, al) ==
    [ok |-> al.ok /\ initAlarms(c), metrics |-> met.metrics,
     mgr |-> [valid |-> TRUE, config |-> c, tags |-> UNION {ms[i].leaves : i \in DOMAIN ms},
              matchers |-> ms, conditions |-> cs,
              trackerToCondition |-> UNION {{<<t, i>> : t \in cs[i].leaves} : i \in DOMAIN cs},
              metrics |-> al.metrics, wires |-> met.wires, alerts |-> al.alerts]]

HasNull(metrics) == \E i \in DOMAIN metrics : metrics[i].is = "nullptr"

\* The steps of a build in their order; the first one that fails ends it.  A later
\* step is only looked at when the earlier ones succeeded.
BuildSteps(c, ms, cs, met, al) ==
    IF ~ms.ok THEN NotBuilt(<<>>)
    ELSE IF ~cs.ok THEN NotBuilt(<<>>)
    ELSE IF ~met.ok \/ HasNull(met.metrics) THEN NotBuilt(met.metrics)
    ELSE Built(c, ms.ts, cs.ts, met, al)

InitAlertsStep(c, ms, cs, met, born) ==
    BuildSteps(c, ms, cs, met, initAlerts(c, met.metrics, born))

InitMetricsStep(c, ms, cs, born) ==
    InitAlertsStep(c, ms, cs, initMetrics(c, ms.ts, cs.ts, born), born)

initStatsdConfig(c, born) ==
    InitMetricsStep(c, initAtomMatchingTrackers(c, born), initConditions(c, born), born)

\* updateStates: a state that is gone is not a replaced one.
ReplacedStates(old, new) ==
    {s.id : s \in {x \in ToSet(old) : x.id \in Ids(new) /\ new[Position(new, x.id)] # x}}

UpdateAlertsStep(c, old, ms, cs, met, born) ==
    BuildSteps(c, ms, cs, met, updateAlerts(c, met.metrics, old.alerts, met.replaced, born))

UpdateMetricsStep(c, old, ms, cs, born) ==
    UpdateAlertsStep(c, old, ms, cs,
        updateMetrics(c, old, ms.ts, cs.ts,
                      [matchers |-> ms.replaced, conditions |-> cs.replaced,
                       states |-> ReplacedStates(old.config.states, c.states)], born), born)

UpdateConditionsStep(c, old, ms, born) ==
    UpdateMetricsStep(c, old, ms, updateConditions(c, old.conditions, ms.replaced, born), born)

updateStatsdConfig(c, old, born) ==
    UpdateConditionsStep(c, old, updateAtomMatchingTrackers(c, old.matchers, born), born)

\* createAllLogSourcesFromConfig
LogSourcesFit(c) == c.sources # {}

verifyGuardrails(c) ==
    /\ Len(c.metrics) <= Limits.metrics
    /\ Len(c.predicates) <= Limits.conditions
    /\ Len(c.matchers) <= Limits.matchers
    /\ Len(c.alerts) <= Limits.alerts

\* isConfigValid; a null producer is used before anybody asks.
Verdict(c, b) ==
    IF HasNull(b.metrics) THEN "crash"
    ELSE IF b.ok /\ LogSourcesFit(c) /\ verifyGuardrails(c) THEN "valid" ELSE "refused"

-----------------------------------------------------------------------------
(* The state trackers.  A listener is a metric with the config that made   *)
(* it.  A tracker that loses its last listener is removed.                 *)

Listener(m) == <<m.id, m.born.epoch>>
StateAtoms(m) == {d.atom : d \in ToSet(m.states)}
Listens(metrics) ==
    UNION {{<<a, Listener(metrics[i])>> : a \in StateAtoms(metrics[i])} : i \in DOMAIN metrics}

registerListener(ss, pairs, at) ==
    [a \in DOMAIN ss \union {p[1] : p \in pairs} |->
        LET mine == {p[2] : p \in {q \in pairs : q[1] = a}}
        IN IF a \in DOMAIN ss THEN [ss[a] EXCEPT !.listeners = @ \union mine]
           ELSE [born |-> at, values |-> <<>>, listeners |-> mine]]

unregisterListener(ss, pairs) ==
    LET Left(a) == ss[a].listeners \ {p[2] : p \in {q \in pairs : q[1] = a}}
        kept == {a \in DOMAIN ss : Left(a) # {} \/ a \notin {p[1] : p \in pairs}}
    IN [a \in kept |-> [ss[a] EXCEPT !.listeners = Left(a)]]

-----------------------------------------------------------------------------
(* Receiving a config (StatsLogProcessor::OnConfigUpdated).  The data so   *)
(* far goes to disk first.                                                 *)

MatchersThere(c) == \A d \in ToSet(c.predicates) : Named(d) \subseteq Ids(c.matchers) \union {NoId}

StatesThere(c) == \A d \in ToSet(c.metrics) : ToSet(d.states) \subseteq Ids(c.states)

\* Reference: each config as a fresh installation builds it.
Fresh == [c \in UNION {Worlds[w].configs : w \in DOMAIN Worlds} |-> initStatsdConfig(c, [epoch |-> 0, at |-> 0])]

NoData(metrics) == [i \in DOMAIN metrics |-> [metrics[i] EXCEPT !.data = {}]]

\* A new manager.  The old one, if any, is destroyed after the new one has registered.
InstallConfig(c, born) ==
    \E b \in {initStatsdConfig(c, born)} :
    LET v == Verdict(c, b)
        new == IF v = "valid" THEN registerListener(states, Listens(b.metrics), Len(log)) ELSE states
    IN /\ mgr' = IF v = "valid" THEN b.mgr ELSE NoManager
       /\ states' = unregisterListener(new, Listens(mgr.metrics))
       /\ from' = NoConfig
       /\ complete' = [states |-> StatesThere(c), matchers |-> MatchersThere(c)]
       /\ verdict' = [now |-> v, fresh |-> v]

\* Those of the producers that the update registers.
Registered(b, born) == SelectSeq(b.metrics, LAMBDA m : m.born = born)

\* The manager is updated in place.  If that fails it is destroyed with the producers the update
\* had made, and the producers it had dropped stay registered.
UpdateConfig(c, born) ==
    \E b \in {updateStatsdConfig(c, [mgr EXCEPT !.metrics = NoData(@)], born)} :
    LET v == Verdict(c, b)
        new == registerListener(states, Listens(Registered(b, born)), Len(log))
    IN /\ mgr' = IF v = "valid" THEN b.mgr ELSE NoManager
       /\ states' = IF v = "valid" THEN new
                    ELSE IF v = "crash" THEN states
                    ELSE unregisterListener(states, Listens(b.metrics))
       /\ from' = IF v = "valid" THEN mgr.config ELSE NoConfig
       /\ complete' = [states |-> complete.states /\ StatesThere(c),
                       matchers |-> complete.matchers /\ MatchersThere(c)]
       /\ verdict' = [now |-> v, fresh |-> Verdict(c, Fresh[c])]

OnConfigUpdated(c, modular) ==
    /\ epoch < Worlds[world].maxUpdates
    /\ verdict.now # "crash"
    /\ LET born == [epoch |-> epoch + 1, at |-> Len(log)]
       IN IF modular /\ mgr.valid THEN UpdateConfig(c, born) ELSE InstallConfig(c, born)
    /\ epoch' = epoch + 1
    /\ since' = Len(log)
    /\ UNCHANGED <<world, log>>

-----------------------------------------------------------------------------
(* An event.                                                               *)

evaluateActiveStateLocked(m, now) ==
    LET acts == [i \in DOMAIN m.acts |->
                    [m.acts[i] EXCEPT !.active = @ /\ now <= m.acts[i].start + m.acts[i].ttl]]
    IN [m EXCEPT !.acts = acts,
                 !.isActive = DOMAIN acts = {} \/ \E i \in DOMAIN acts : acts[i].active]

flushIfExpire(m, now) == IF m.isActive THEN evaluateActiveStateLocked(m, now) ELSE m

cancelEventActivation(m, i) ==
    [m EXCEPT !.acts = [j \in DOMAIN m.acts |-> [m.acts[j] EXCEPT !.active = @ /\ <<i, j>> \notin m.deacts]]]

activate(m, i, now) ==
    [m EXCEPT !.acts[i] = [@ EXCEPT !.active = TRUE, !.start = now], !.isActive = TRUE]

\* The metrics after the activations of an event that matched the matchers on.
Activated(metrics, w, on, now) ==
    LET Cancelled(m, i) ==
            LET offs == {t \in on : <<t, i>> \in w.deactivation}
            IN IF offs = {} THEN m
               ELSE flushIfExpire(FoldLeft(cancelEventActivation, m, SetToSeq(offs)), now)
        Started(m, i) ==
            LET ons == {t \in on : <<t, i>> \in w.activation}
                Start(x, t) == activate(x, t, now)
            IN FoldLeft(Start, m, SetToSeq(ons))
    IN [i \in DOMAIN metrics |-> Started(Cancelled(metrics[i], i), i)]

\* onConditionChanged of the count and event metrics: any state but kFalse counts as true.
onConditionChanged(m, value) == [m EXCEPT !.condition = IF value # kFalse THEN kTrue ELSE kFalse]

\* A metric with links asks for its condition when an event comes.
Notified(metrics, w, r) ==
    [i \in DOMAIN metrics |->
        LET m == metrics[i]
            x == m.conditionIdx
        IN IF <<x, i>> \in w.conditionToMetric /\ r.changed[x] /\ m.links = {}
           THEN onConditionChanged(m, r.cache[x]) ELSE m]

\* queryStateValue and mapStateValue
StateOf(m, ss, e) ==
    [k \in DOMAIN m.states |->
        LET d == m.states[k]
            v == IF d.atom \in DOMAIN ss
                 THEN StateValue(ss[d.atom].values, IF m.stateLink THEN e.key ELSE DEFAULT_DIMENSION_KEY)
                 ELSE kStateUnknown
        IN IF v \in DOMAIN d.map THEN d.map[v] ELSE v]

\* onMatchedLogEvent of the count and event metrics: the data are the events taken with their states.
onMatchedLogEvent(m, cs, ss, e, now) ==
    LET condition == IF m.links = {} THEN m.condition ELSE query(cs, m.conditionIdx, m.links, e.key)
    IN IF m.isActive /\ condition = kTrue /\ m.type \in {"count", "event"}
       THEN [m EXCEPT !.data = @ \union {<<now, StateOf(m, ss, e)>>}] ELSE m

\* MetricsManager::onLogEvent
ManagerEvent(g, ss, e, now, wild) ==
    LET flushed == Evaluated([i \in DOMAIN g.metrics |-> IF i \in g.wires.withActivation
                                THEN flushIfExpire(g.metrics[i], now) ELSE g.metrics[i]])
        matched == Evaluated([i \in DOMAIN g.matchers |-> onMatcherEvent(g.matchers, i, e)])
        on == {i \in DOMAIN matched : matched[i]}
        active == Evaluated(Activated(flushed, g.wires, on, now))
        due == {p[2] : p \in {q \in g.trackerToCondition : q[1] \in on}}
        r == EvaluateDue(g.conditions, due, e, [matched |-> matched, wild |-> wild])
        told == Evaluated(Notified(active, g.wires, r))
    IN IF e.atom \notin g.tags THEN [g EXCEPT !.metrics = flushed]
       ELSE [g EXCEPT !.conditions = r.ts,
                      !.metrics = [i \in DOMAIN told |->
                          IF \E t \in on : <<t, i>> \in g.wires.trackerToMetric
                          THEN onMatchedLogEvent(told[i], r.ts, ss, e, now) ELSE told[i]]]

\* The state trackers see the event before the managers.
StateEvent(ss, e) ==
    IF e.atom \in DOMAIN ss THEN [ss EXCEPT ![e.atom].values = onStateEvent(@, e)] ELSE ss

\* The links for which some predicate has an index that names no matcher.
Astray == {f \in ToSet(Links) : \E i \in DOMAIN mgr.conditions :
              mgr.conditions[i].at[f] \notin 0..Len(mgr.matchers)}

\* What a predicate reads at an index that names no matcher is undefined: any outcome.
OnLogEvent(e) ==
    /\ Len(log) < Worlds[world].maxEvents
    /\ verdict.now # "crash"
    /\ log' = Append(log, e)
    /\ states' = StateEvent(states, e)
    /\ \E wild \in SUBSET Astray :
          mgr' = IF mgr.valid THEN ManagerEvent(mgr, states', e, Len(log) + 1, wild) ELSE mgr
    /\ UNCHANGED <<world, epoch, since, from, complete, verdict>>

-----------------------------------------------------------------------------
Init ==
    /\ world \in DOMAIN Worlds
    /\ mgr = NoManager
    /\ states = <<>>
    /\ log = <<>>
    /\ epoch = 0
    /\ since = 0
    /\ from = NoConfig
    /\ complete = [states |-> TRUE, matchers |-> TRUE]
    /\ verdict = [now |-> "none", fresh |-> "none"]

Next ==
    \/ \E c \in Worlds[world].configs, modular \in BOOLEAN : OnConfigUpdated(c, modular)
    \/ \E e \in Worlds[world].events : OnLogEvent(e)

Spec == Init /\ [][Next]_vars

-----------------------------------------------------------------------------
(* Properties.                                                             *)

\* A definition with everything it depends on in place of the ids: what its hash does not cover.
RECURSIVE UnfoldMatcher(_, _), UnfoldPredicate(_, _)

UnfoldMatcher(c, id) ==
    LET d == c.matchers[Position(c.matchers, id)]
    IN <<d, IF d.kind = "simple" THEN <<>>
            ELSE [k \in DOMAIN d.children |-> UnfoldMatcher(c, d.children[k])]>>

UnfoldPredicate(c, id) ==
    LET d == c.predicates[Position(c.predicates, id)]
    IN <<d, IF d.kind = "simple" THEN {UnfoldMatcher(c, x) : x \in Named(d) \ {NoId}}
            ELSE [k \in DOMAIN d.children |-> UnfoldPredicate(c, d.children[k])]>>

UnfoldMetric(c, id) ==
    LET d == c.metrics[Position(c.metrics, id)]
        evs == EventActivations(c, id)
    IN <<d, ActivationOf(c, id),
         {UnfoldMatcher(c, x) : x \in MatcherDependencies(d)},
         {UnfoldPredicate(c, x) : x \in ConditionDependencies(d) \ {NoId}},
         {c.states[Position(c.states, x)] : x \in ToSet(d.states)},
         {UnfoldMatcher(c, x) : x \in UNION {{a.on, a.off} \ {NoId} : a \in evs}}>>

\* trackers are kept from before the last update exactly if Unfold gives the same before and after.
KeptIffSame(trackers, before, Same(_)) ==
    \A i \in DOMAIN trackers :
        trackers[i].born.epoch < epoch <=> (trackers[i].id \in before /\ Same(trackers[i].id))

\* A modular update keeps the state of a matcher, predicate, metric or alert exactly if nothing in its
\* definition changed, however far down: the code compares hashes of single definitions and pushes the
\* rest of the changes upwards through replacedMatchers, replacedConditions, replacedStates and
\* replacedMetrics (config_update_utils.cpp).  What is removed from a
\* config, or comes back, does not count as replaced: complete leaves managers out that went through an
\* update that removed a state which a metric is sliced by, and updates from or to a config without a
\* matcher that a predicate names are left out.
KeptIffUnchanged ==
    mgr.valid /\ from # NoConfig /\ complete.states /\ MatchersThere(from) /\ MatchersThere(mgr.config) =>
        LET new == mgr.config
            SameMatcher(id) == UnfoldMatcher(from, id) = UnfoldMatcher(new, id)
            SamePredicate(id) == UnfoldPredicate(from, id) = UnfoldPredicate(new, id)
            SameMetric(id) == UnfoldMetric(from, id) = UnfoldMetric(new, id)
            SameAlert(id) == LET a == new.alerts[Position(new.alerts, id)]
                                 b == from.alerts[Position(from.alerts, id)]
                             IN a = b /\ SameMetric(a.metric)
        IN /\ KeptIffSame(mgr.matchers, Ids(from.matchers), SameMatcher)
           /\ KeptIffSame(mgr.conditions, Ids(from.predicates), SamePredicate)
           /\ KeptIffSame(mgr.metrics, Ids(from.metrics), SameMetric)
           /\ KeptIffSame(mgr.alerts, Ids(from.alerts), SameAlert)

\* What a manager is made of, without the state that events change.
Wiring(g) ==
    [tags |-> g.tags, toCondition |-> g.trackerToCondition, wires |-> g.wires,
     matchers |-> [i \in DOMAIN g.matchers |->
        LET t == g.matchers[i] IN <<t.id, t.index, t.children, t.leaves>>],
     conditions |-> [i \in DOMAIN g.conditions |->
        LET t == g.conditions[i]
            there == Named(t.def) \subseteq Ids(g.config.matchers) \union {NoId}
        IN <<t.id, t.index, t.children, t.leaves, IF there THEN t.at ELSE NoIndices, t.sliced>>],
     metrics |-> [i \in DOMAIN g.metrics |->
        LET m == g.metrics[i] IN <<m.id, m.hash, m.feeds, m.conditionIdx, DOMAIN m.acts, m.deacts,
                                   m.states, m.alerts>>],
     alerts |-> [i \in DOMAIN g.alerts |-> <<g.alerts[i].id, g.alerts[i].subscriptions>>]]

\* However many updates led to it, a manager is wired as one built afresh from its config, every index
\* of a kept tracker included, and every metric it has listens to the state atoms it is sliced by.  A
\* predicate that names a matcher which is not in the config is accepted with indices that were never set
\* or that are those of an earlier config (SimpleConditionTracker.cpp:91): its own indices are left out.
WiredAsNew ==
    mgr.valid /\ complete.states =>
        /\ Wiring(mgr) = Wiring(Fresh[mgr.config].mgr)
        /\ \A p \in Listens(mgr.metrics) : p[1] \in DOMAIN states /\ p[2] \in states[p[1]].listeners

\* A modular update accepts and refuses the configs a fresh installation does: the checks are written
\* twice, in metrics_manager_util.cpp and in config_update_utils.cpp.
AcceptedAsNew == complete.states => verdict.now = verdict.fresh

\* The reference for the data of a metric.
ActiveAt(m, n) ==
    LET c == mgr.config
        evs == EventActivations(c, m.id)
        On(id, i) == id # NoId /\ Matches(c, id, log[i])
    IN ActivationOf(c, m.id) = {} \/
       \E a \in evs, i \in m.born.at + 1..n :
           On(a.on, i) /\ n - i <= a.ttl /\ \A j \in i + 1..n : ~On(a.off, j)

SeenFrom == [id \in Ids(mgr.config.predicates) |->
                mgr.conditions[Position(mgr.conditions, id)].born.at]

ConditionAt(d, n) ==
    IF d.condition = NoId THEN kTrue
    ELSE Holds(mgr.config, d.condition, log[n].key, log, SeenFrom, n)

StatesAt(m, n) ==
    [k \in DOMAIN m.states |->
        LET d == m.states[k]
            key == IF m.stateLink THEN log[n].key ELSE DEFAULT_DIMENSION_KEY
            v == StateAfter(d.atom, key, log, states[d.atom].born, n)
        IN IF v \in DOMAIN d.map THEN d.map[v] ELSE v]

LostKeys == UNION {mgr.conditions[i].lost : i \in DOMAIN mgr.conditions}

\* A metric has taken exactly the events since the last dump that its matcher matches while its condition
\* holds and it is active, each with the states of that moment.  Condition, activation and states follow
\* all events since the tracker that keeps them was made, over every update that kept it.  A key that a
\* condition dropped at the dimension limit is left out, and so is a manager whose predicates once named
\* a matcher that its config did not have.
DataRight ==
    mgr.valid /\ complete.matchers => \A i \in DOMAIN mgr.metrics :
        LET m == mgr.metrics[i]
            d == m.hash[1]
            taken == {n \in since + 1..Len(log) :
                        Matches(mgr.config, d.what, log[n]) /\ ConditionAt(d, n) = kTrue /\ ActiveAt(m, n)}
        IN m.type \in {"count", "event"} =>
              {x \in m.data : log[x[1]].key \notin LostKeys} =
              {<<n, StatesAt(m, n)>> : n \in {k \in taken : log[k].key \notin LostKeys}}

\* A modular update leaves what a fresh installation of the config would: it is
\* accepted or refused alike, and a manager is wired alike.
UpdatedAsNew == AcceptedAsNew /\ WiredAsNew
=============================================================================
