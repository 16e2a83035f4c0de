--------------------------- MODULE MCConfigUpdate ---------------------------
(***************************************************************************)
(* Worlds of small configs and events: conditions and the order of their   *)
(* parts, sliced conditions, activations, states and alerts, and configs   *)
(* with something wrong in them, which may be accepted all the same.       *)
(***************************************************************************)
EXTENDS ConfigUpdate

Ev(atom, val, key) == [atom |-> atom, val |-> val, key |-> key, nested |-> FALSE, reset |-> -1]
Nested(val) == [atom |-> "st", val |-> val, key |-> DEFAULT_DIMENSION_KEY, nested |-> TRUE, reset |-> -1]
Reset(val) == [atom |-> "su", val |-> 0, key |-> DEFAULT_DIMENSION_KEY, nested |-> FALSE, reset |-> val]

Simple(id, atom, on) == [id |-> id, kind |-> "simple", ok |-> TRUE, atom |-> atom, on |-> on]
Comb(id, op, children) == [id |-> id, kind |-> "combination", ok |-> TRUE, op |-> op, children |-> children]
Pred(id, start, stop) ==
    [id |-> id, kind |-> "simple", ok |-> TRUE, start |-> start, stop |-> stop, stopAll |-> NoId, nesting |-> FALSE,
     initial |-> kUnknown, sliced |-> FALSE]
Metric(id, type, what, condition) ==
    [id |-> id, type |-> type, what |-> what, trigger |-> NoId, condition |-> condition, links |-> {},
     states |-> <<>>, stateLink |-> FALSE, oneAtom |-> FALSE, ok |-> TRUE]
Alert(id, metric) == [id |-> id, metric |-> metric, ok |-> TRUE]
On(metric, events) == [metric |-> metric, events |-> events]

Good == [NoConfig EXCEPT !.sources = {"system"}]

m1 == Simple("m1", "a", {1})
m2 == Simple("m2", "a", {2})
m3 == Simple("m3", "b", {1})
mc == Comb("mc", "OR", <<"m1", "m3">>)
p1 == Pred("p1", "m1", "m2")
p2 == [Pred("p2", "m3", "m2") EXCEPT !.nesting = TRUE, !.initial = kFalse]
pc == Comb("pc", "AND", <<"p1", "p2">>)
pn == Comb("pn", "NOT", <<"pc">>)

\* Conditions: what changes is the order, a leaf, an operation, a metric.
Base == [Good EXCEPT !.matchers = <<m1, m2, m3, mc>>, !.predicates = <<p1, p2, pc, pn>>,
                     !.metrics = <<Metric("M1", "count", "m3", "pc"), Metric("M2", "event", "mc", "pn")>>,
                     !.alerts = <<Alert("A", "M1")>>]
Turned == [Base EXCEPT !.matchers = <<mc, m3, m2, m1>>, !.predicates = <<pn, pc, p2, p1>>,
                       !.metrics = <<Metric("M3", "count", "mc", "p2"), Metric("M1", "count", "m3", "pc"),
                                     Metric("M2", "event", "mc", "pn")>>]
Leaf == [Base EXCEPT !.matchers = <<Simple("m1", "a", {1, 2}), m2, m3, mc>>]
Operation == [Base EXCEPT !.matchers = <<m1, m2, m3, Comb("mc", "NOR", <<"m1", "m3">>)>>,
                          !.predicates = <<p1, p2, Comb("pc", "OR", <<"p1", "p2">>), pn>>]
Orders == [maxUpdates |-> 2, maxEvents |-> 3, configs |-> {Base, Turned, Leaf, Operation},
           events |-> {Ev("a", 1, "k"), Ev("a", 2, "k"), Ev("b", 1, "k")}]

\* A sliced condition with links, and stop_all.
ps == [Pred("ps", "m1", "m2") EXCEPT !.sliced = TRUE, !.stopAll = "m0"]
px == Comb("px", "NAND", <<"ps", "p0">>)
Sliced == [Good EXCEPT !.matchers = <<m1, m2, m3, Simple("m0", "a", {0})>>,
                       !.predicates = <<ps, Pred("p0", "m3", "m0"), px>>,
                       !.metrics = <<[Metric("M1", "count", "m3", "ps") EXCEPT !.links = {"ps"}, !.oneAtom = TRUE],
                                     [Metric("M2", "event", "m3", "px") EXCEPT !.links = {"ps"}],
                                     Metric("M4", "gauge", "m3", NoId)>>]
Deep == [Sliced EXCEPT !.predicates = <<[ps EXCEPT !.nesting = TRUE], Pred("p0", "m3", "m0"), px>>]
Slices == [maxUpdates |-> 2, maxEvents |-> 3, configs |-> {Sliced, [Sliced EXCEPT !.predicates = <<Pred("p0", "m3", "m0"), ps, px>>],
                        Deep},
           events |-> {Ev("a", 1, "k"), Ev("a", 2, "k"), Ev("a", 0, "k"), Ev("b", 1, "k"),
                       Ev("a", 1, "l")}]

\* Activations, states and alerts.
State(id, atom, map) == [id |-> id, atom |-> atom, map |-> map]
sliceT == [Metric("M1", "count", "m3", NoId) EXCEPT !.states = <<"T">>]
sliceU == [Metric("M5", "count", "m3", NoId) EXCEPT !.states = <<"U">>, !.stateLink = TRUE]
Act == [Good EXCEPT !.matchers = <<m1, m2, m3>>, !.states = <<State("T", "st", 1 :> 9)>>,
                    !.metrics = <<sliceT, Metric("M2", "event", "m3", NoId)>>,
                    !.activations = <<On("M2", <<[on |-> "m1", off |-> "m2", ttl |-> 2]>>)>>,
                    !.alerts = <<Alert("A", "M1")>>,
                    !.subscriptions = <<[id |-> "S", type |-> "ALERT", rule |-> "A", ok |-> TRUE]>>]
Activations == [maxUpdates |-> 2, maxEvents |-> 3, configs |-> {Act, [Act EXCEPT !.matchers = <<m3, m2, m1>>, !.subscriptions = <<>>],
                             [Act EXCEPT !.matchers = <<m1, Simple("m2", "a", {0, 2}), m3>>],
                             [Act EXCEPT !.states = <<State("T", "st", 1 :> 8)>>],
                             [Act EXCEPT !.metrics = <<Metric("M2", "event", "m3", NoId)>>, !.alerts = <<>>,
                                         !.subscriptions = <<>>]},
                events |-> {Ev("a", 1, "k"), Ev("a", 2, "k"), Ev("b", 1, "k"), Nested(1), Nested(2)}]
Link == [Good EXCEPT !.matchers = <<m3>>, !.metrics = <<sliceU>>, !.states = <<State("U", "su", <<>>)>>]
Linked == [maxUpdates |-> 3, maxEvents |-> 2, configs |-> {Link, [Link EXCEPT !.whitelist = {"su"}], [Link EXCEPT !.states = <<>>],
                        [Link EXCEPT !.states = <<State("U", "su", 1 :> 7)>>],
                        [Link EXCEPT !.metrics = <<>>]},
           events |-> {Ev("b", 1, "k"), Ev("su", 1, "k"), Ev("su", 2, "k"), Ev("su", kStateUnknown, "k"), Reset(3)}]

\* Longer sequences of events for one config.
Counts == [maxUpdates |-> 1, maxEvents |-> 5, configs |-> {Deep},
           events |-> {Ev("a", 1, "k"), Ev("a", 2, "k"), Ev("b", 1, "k"), Ev("a", 1, "l")}]
Flips == [maxUpdates |-> 1, maxEvents |-> 5, configs |-> {Act}, events |-> {Nested(1), Nested(2), Ev("b", 1, "k")}]

\* A predicate names a matcher that is not in the config.
pa == [Pred("pa", "m3", "m0") EXCEPT !.stopAll = "m2"]
Some == [Good EXCEPT !.matchers = <<m1, m2, m3>>, !.predicates = <<p1, Pred("p0", "m3", "m2")>>,
                     !.metrics = <<Metric("M1", "count", "m3", "p1")>>]
Astrays == [maxUpdates |-> 3, maxEvents |-> 2,
            configs |-> {Some, [Some EXCEPT !.matchers = <<m1, m3>>],
                         [Some EXCEPT !.matchers = <<m3>>, !.predicates = <<pa, p1>>],
                         [Some EXCEPT !.matchers = <<m3, m2, m1>>, !.predicates = <<pa, p1>>]},
            events |-> {Ev("a", 1, "k"), Ev("a", 2, "k"), Ev("b", 1, "k")}]

\* Something wrong.
Dur == [Metric("MD", "duration", "p1", NoId) EXCEPT !.oneAtom = TRUE]
Val == Metric("MV", "value", "m3", NoId)
Gau == [Metric("MG", "gauge", "m3", NoId) EXCEPT !.trigger = "m1"]
Whole == [Base EXCEPT !.metrics = <<Dur, Metric("M2", "event", "mc", "pn"), Val, Gau>>,
                      !.alerts = <<Alert("A", "MV")>>, !.alarms = <<[id |-> "L", ok |-> TRUE]>>,
                      !.subscriptions = <<[id |-> "S", type |-> "ALARM", rule |-> "L", ok |-> TRUE]>>,
                      !.noReport = {"MD"}, !.activations = <<On("M2", <<[on |-> "m1", off |-> NoId, ttl |-> 1]>>)>>]
Wrong == {
   [Whole EXCEPT !.matchers = <<m1, m2, m3, mc, m1>>],
   [Whole EXCEPT !.matchers = <<m1, m2, m3, Comb("mc", "OR", <<"m1", "md">>), Comb("md", "OR", <<"mc">>)>>],
   [Whole EXCEPT !.matchers = <<m1, m2, m3, Comb("mc", "OR", <<"m1", "mz">>)>>],
   [Whole EXCEPT !.predicates = <<p1, p2, pc, Comb("pn", "NOT", <<"p1", "p2">>)>>],
   [Whole EXCEPT !.predicates = <<p1, p2, pn>>],
   [Whole EXCEPT !.predicates = <<p1, p2, Comb("pc", "AND", <<"pn">>), pn>>],
   [Whole EXCEPT !.metrics[1].what = "pc"],
   [Whole EXCEPT !.metrics[3].what = "mc"],
   [Whole EXCEPT !.metrics[4].trigger = "mc"],
   [Whole EXCEPT !.metrics[2].condition = NoId, !.metrics[2].links = {"p1"}],
   [Whole EXCEPT !.metrics[2].condition = "pz"],
   [Whole EXCEPT !.activations[1].events[1].off = "mz"],
   [Whole EXCEPT !.activations[1].events[1].off = "mz", !.metrics[4].what = "mz"],
   [Whole EXCEPT !.activations = @ \o <<On("M2", <<>>)>>],
   [Whole EXCEPT !.activations[1].metric = "MV", !.activations[1].events[1].on = "mz"],
   [Whole EXCEPT !.noReport = {"MZ"}],
   [Whole EXCEPT !.alerts[1].metric = "MZ"],
   [Whole EXCEPT !.metrics = <<Dur, Metric("M2", "event", "mc", "pn"), Gau>>],
   [Whole EXCEPT !.subscriptions[1].rule = "A"],
   [Whole EXCEPT !.subscriptions[1].type = "ALERT"],
   [Whole EXCEPT !.metrics[4].ok = FALSE],
   [Whole EXCEPT !.matchers[1].ok = FALSE],
   [Whole EXCEPT !.predicates[1].ok = FALSE],
   [Whole EXCEPT !.matchers = <<m1, m3, mc>>],
   [Whole EXCEPT !.alerts[1].ok = FALSE],
   [Whole EXCEPT !.alarms[1].ok = FALSE],
   [Whole EXCEPT !.subscriptions[1].ok = FALSE],
   [Whole EXCEPT !.sources = {}],
   [Whole EXCEPT !.matchers = @ \o <<Simple("m5", "b", {2}), Simple("m6", "b", {3})>>]}
Changed == {[Whole EXCEPT !.predicates = <<Pred("p1", "m2", "m1"), p2, pc, pn>>],
            [Whole EXCEPT !.matchers = <<m3, mc, m2, m1>>],
            [Whole EXCEPT !.matchers = <<Simple("m1", "a", {0}), m2, m3, mc>>]}
Errors == [maxUpdates |-> 3, maxEvents |-> 0, configs |-> {Whole} \union Changed \union Wrong, events |-> {}]

MCDefs == <<Orders, Slices, Activations, Linked, Counts, Flips, Astrays, Errors>>
MCLimits == [metrics |-> 4, conditions |-> 4, matchers |-> 5, alerts |-> 1]
=============================================================================
