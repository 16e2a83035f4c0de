----------------------------- MODULE Conditions -----------------------------
(***************************************************************************)
(* What the trackers of a config do with an event: matchers, the           *)
(* conditions that follow start and stop events, what a metric asks of a   *)
(* condition, and the state trackers of sliced states.  The second half    *)
(* says the same without trackers, from the config and the events alone.   *)
(*                                                                         *)
(* An event is [atom, val, key, nested, reset]: val is the field matchers  *)
(* look at and the state a state atom reports, key the dimension it        *)
(* carries, and nested and reset the annotations of the state field.       *)
(***************************************************************************)
EXTENDS ConfigGraph

kStateUnknown == -1

-----------------------------------------------------------------------------
(* Matchers.                                                               *)

combinationMatch(op, results) ==
    CASE op = "AND" -> FALSE \notin results
      [] op = "OR" -> TRUE \in results
      [] op = "NOT" -> results = {FALSE}
      [] op = "NAND" -> FALSE \in results
      [] op = "NOR" -> TRUE \notin results

matchesSimple(d, e) == d.atom = e.atom /\ e.val \in d.on

RECURSIVE onMatcherEvent(_, _, _)

\* onLogEvent of a matcher; the cache of results is the recursion itself.
onMatcherEvent(ts, i, e) ==
    LET t == ts[i]
    IN /\ e.atom \in t.leaves
       /\ IF t.def.kind = "simple" THEN matchesSimple(t.def, e)
          ELSE combinationMatch(t.def.op, {onMatcherEvent(ts, k, e) : k \in ToSet(t.children)})

-----------------------------------------------------------------------------
(* Conditions: the value of a condition for an event or for a metric.      *)

\* SimpleConditionTracker::isConditionMet for the key a link gives it, or without one.
SimpleConditionMet(t, linked, key) ==
    LET k == IF linked THEN key ELSE DEFAULT_DIMENSION_KEY
    IN IF k \in DOMAIN t.counts /\ (linked \/ ~t.sliced)
       THEN Or(t.initial, SliceState(t.counts[k])) ELSE t.initial

RECURSIVE isConditionMet(_, _, _, _)

isConditionMet(ts, i, links, key) ==
    LET t == ts[i]
    IN IF t.def.kind = "simple" THEN SimpleConditionMet(t, t.id \in links, key)
       ELSE evaluateCombinationCondition(t.def.op,
                {isConditionMet(ts, k, links, key) : k \in ToSet(t.children)})

\* ConditionWizard::query
query(ts, i, links, key) == isConditionMet(ts, i, links, key)

-----------------------------------------------------------------------------
(* Conditions: the tracker after an event.  A step returns the tracker,    *)
(* its entry of the condition cache and whether it changed.                *)

Put(f, k, v) == [x \in DOMAIN f \union {k} |-> IF x = k THEN v ELSE f[x]]
Drop(f, k) == [x \in DOMAIN f \ {k} |-> f[x]]

hitGuardRail(t, key) ==
    t.sliced /\ key \notin DOMAIN t.counts /\ Cardinality(DOMAIN t.counts) + 1 > KeyLimit

handleStopAll(t) ==
    [t |-> [t EXCEPT !.initial = kFalse, !.counts = <<>>],
     value |-> kFalse, changed |-> ~(t.initial = kFalse /\ DOMAIN t.counts = {})]

\* An event for a key without history.
NewKeyEvent(t, key, start) ==
    LET counts == IF start /\ t.initial # kTrue THEN Put(t.counts, key, 1)
                  ELSE IF t.initial # kFalse THEN Put(t.counts, key, 0) ELSE t.counts
    IN [t |-> [t EXCEPT !.counts = counts], value |-> SliceState(IF start THEN 1 ELSE 0),
        changed |-> counts # t.counts]

\* Faulty: a stop takes one start away whether nesting is counted or not.
StopCount_AlwaysNested(t, n) == IF n > 0 THEN n - 1 ELSE 0

StopCount(t, n) == IF n > 0 /\ t.def.nesting THEN n - 1 ELSE 0

\* An event for a key with history.
OldKeyEvent(t, key, start) ==
    LET n == t.counts[key]
        m == IF start THEN n + 1 ELSE StopCount(t, n)
        counts == IF ~start /\ t.initial = kFalse /\ m = 0 THEN Drop(t.counts, key)
                  ELSE Put(t.counts, key, m)
    IN [t |-> [t EXCEPT !.counts = counts], value |-> SliceState(m),
        changed |-> SliceState(n) # SliceState(m)]

handleConditionEvent(t, key, start) ==
    IF hitGuardRail(t, key)
    THEN [t |-> [t EXCEPT !.lost = @ \union {key}], value |-> kUnknown, changed |-> FALSE]
    ELSE IF key \in DOMAIN t.counts THEN OldKeyEvent(t, key, start)
    ELSE NewKeyEvent(t, key, start)

\* SimpleConditionTracker::evaluateCondition.  hits.matched says which matchers matched, hits.wild for
\* which links an index that was never set, or that is past the matchers of today, finds kMatched.  Only
\* that of stop_all is compared with the number of matchers.
evaluateSimple(t, e, hits) ==
    LET On(f) == IF t.at[f] \in DOMAIN hits.matched THEN hits.matched[t.at[f]]
                 ELSE t.at[f] # 0 /\ f \in hits.wild /\ (f = "stopAll" => t.at[f] = Unset)
        key == IF t.sliced THEN e.key ELSE DEFAULT_DIMENSION_KEY
        now == IF t.sliced
               THEN IF \E k \in DOMAIN t.counts : t.counts[k] > 0 THEN kTrue ELSE t.initial
               ELSE IF key \in DOMAIN t.counts THEN SliceState(t.counts[key]) ELSE t.initial
    IN IF On("stopAll") THEN handleStopAll(t)
       ELSE IF On("stop") THEN handleConditionEvent(t, key, FALSE)
       ELSE IF On("start") THEN handleConditionEvent(t, key, TRUE)
       ELSE [t |-> t, value |-> now, changed |-> FALSE]

RECURSIVE evaluateCondition(_, _, _, _)

\* CombinationConditionTracker::evaluateCondition
evaluateCombination(s, i, e, hits) ==
    LET kids == s.ts[i].children
        Child(u, k) == evaluateCondition(u, k, e, hits)
        c == FoldLeft(Child, s, kids)
        Value(ks) == evaluateCombinationCondition(s.ts[i].def.op, {c.cache[k] : k \in ks})
        new == Value(ToSet(kids))
    IN IF ~s.ts[i].sliced
       THEN [c EXCEPT !.ts[i].last = new, !.cache[i] = new, !.changed[i] = s.ts[i].last # new]
       ELSE [c EXCEPT !.ts[i].last = Value({k \in ToSet(kids) : ~s.ts[k].sliced}), !.cache[i] = new,
                      !.changed[i] = \E k \in ToSet(kids) : c.changed[k]]

evaluateCondition(s, i, e, hits) ==
    LET r == evaluateSimple(s.ts[i], e, hits)
    IN IF s.cache[i] # kNotEvaluated THEN s
       ELSE IF s.ts[i].def.kind = "combination" THEN evaluateCombination(s, i, e, hits)
       ELSE [s EXCEPT !.ts[i] = r.t, !.cache[i] = r.value, !.changed[i] = r.changed]

\* The conditions in due, in order, as MetricsManager::onLogEvent evaluates them.
EvaluateDue(ts, due, e, hits) ==
    LET Step(s, i) == IF i \in due THEN evaluateCondition(s, i, e, hits) ELSE s
    IN FoldLeft(Step, [ts |-> ts, cache |-> Evaluated([i \in DOMAIN ts |-> kNotEvaluated]),
                       changed |-> Evaluated([i \in DOMAIN ts |-> FALSE])], [i \in DOMAIN ts |-> i])

-----------------------------------------------------------------------------
(* State trackers: for each key a value and a count.                       *)

StateValue(m, key) == IF key \in DOMAIN m THEN m[key].state ELSE kStateUnknown

NestedState(old, new) ==
    CASE old.state = kStateUnknown -> [state |-> new, count |-> 1]
      [] old.state = new -> [old EXCEPT !.count = @ + 1]
      [] old.count = 1 -> [state |-> new, count |-> 1]
      [] OTHER -> [old EXCEPT !.count = @ - 1]

updateStateForPrimaryKey(m, key, new, nested) ==
    LET old == IF key \in DOMAIN m THEN m[key] ELSE [state |-> kStateUnknown, count |-> 0]
    IN IF new = kStateUnknown THEN Drop(m, key)
       ELSE Put(m, key, IF nested THEN NestedState(old, new) ELSE [state |-> new, count |-> 1])

handleReset(m, new) == [k \in DOMAIN m |-> [state |-> new, count |-> 1]]

\* StateTracker::onLogEvent
onStateEvent(m, e) ==
    IF e.reset # -1 THEN handleReset(m, e.reset)
    ELSE updateStateForPrimaryKey(m, e.key, e.val, e.nested)

-----------------------------------------------------------------------------
(* The reference: the same from the config and the events of log.          *)

RECURSIVE Matches(_, _, _), Atoms(_, _)

Atoms(c, id) ==
    LET d == c.matchers[Position(c.matchers, id)]
    IN IF d.kind = "simple" THEN {d.atom} ELSE UNION {Atoms(c, k) : k \in ToSet(d.children)}

\* A matcher by its definition alone: no cache, no index, no order.
Matches(c, id, e) ==
    LET d == c.matchers[Position(c.matchers, id)]
        kids == ToSet(d.children)
    IN IF d.kind = "simple" THEN d.atom = e.atom /\ e.val \in d.on
       ELSE /\ e.atom \in Atoms(c, id)
            /\ CASE d.op = "AND" -> \A k \in kids : Matches(c, k, e)
                 [] d.op = "OR" -> \E k \in kids : Matches(c, k, e)
                 [] d.op = "NAND" -> \E k \in kids : ~Matches(c, k, e)
                 [] OTHER -> \A k \in kids : ~Matches(c, k, e)

Latest(S) == CHOOSE i \in S : \A j \in S : j <= i

\* A simple predicate after event n, for a key: it knows the events after number from.  Without
\* nesting the last of its events decides; with nesting some run of them has more starts than stops.
SimpleHolds(c, d, key, log, from, n) ==
    LET On(id, i) == id # NoId /\ Matches(c, id, log[i])
        ends == {i \in from + 1..n : On(d.stopAll, i)}
        base == IF ends = {} THEN from ELSE Latest(ends)
        mine == {i \in base + 1..n : ~d.sliced \/ log[i].key = key}
        stops == {i \in mine : On(d.stop, i)}
        starts == {i \in mine : On(d.start, i)} \ stops
        open == IF d.nesting
                THEN \E j \in starts : Cardinality({i \in starts : i >= j}) > Cardinality({i \in stops : i >= j})
                ELSE starts # {} /\ Latest(starts \union stops) \in starts
    IN IF starts \union stops = {} THEN IF ends = {} THEN d.initial ELSE kFalse
       ELSE IF open THEN kTrue ELSE kFalse

RECURSIVE Holds(_, _, _, _, _, _)

\* A predicate after event n; from gives for each simple predicate the events it has not seen.
Holds(c, id, key, log, from, n) ==
    LET d == c.predicates[Position(c.predicates, id)]
        kids == {Holds(c, k, key, log, from, n) : k \in ToSet(d.children)}
    IN IF d.kind = "simple" THEN SimpleHolds(c, d, key, log, from[id], n)
       ELSE IF kUnknown \in kids THEN kUnknown
       ELSE LET b == CASE d.op = "AND" -> kFalse \notin kids
                       [] d.op = "OR" -> kTrue \in kids
                       [] d.op = "NAND" -> kFalse \in kids
                       [] OTHER -> kTrue \notin kids
            IN IF b THEN kTrue ELSE kFalse

\* The state of a key after event n: what the last event says, or the last reset if the key had a
\* state then.  A nested state is the one there was more of since it became known, and the other
\* one when there were as many.  An atom's state is not both nested and reset.
StateAfter(atom, key, log, from, n) ==
    LET of == {i \in from + 1..n : log[i].atom = atom}
        resets == {i \in of : log[i].reset # -1}
        mine == {i \in of \ resets : log[i].key = key}
        known == {i \in mine : \A j \in mine : log[j].val = kStateUnknown => j < i}
        first == log[CHOOSE i \in known : \A j \in known : i <= j].val
        same == {i \in known : log[i].val = first}
    IN IF known = {} THEN kStateUnknown
       ELSE IF log[Latest(known)].nested
       THEN IF Cardinality(same) > Cardinality(known \ same) THEN first
            ELSE CHOOSE v \in {log[i].val : i \in known} : v # first
       ELSE LET at == Latest(known \union {i \in resets : \E j \in known : j < i})
            IN IF at \in resets THEN log[at].reset ELSE log[at].val
=============================================================================
