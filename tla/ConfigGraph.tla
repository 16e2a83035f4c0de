---------------------------- MODULE ConfigGraph ----------------------------
(***************************************************************************)
(* The matchers and predicates of a config as trackers that refer to each  *)
(* other by index: how they are created and initialised depth first, how a *)
(* modular update decides which of the old ones it keeps, and how those    *)
(* that are kept get their new indices.                                    *)
(*                                                                         *)
(* A definition is a record of the config: a matcher is simple (an atom    *)
(* and the values it accepts) or a combination of matchers, a predicate is *)
(* simple (start, stop and stop_all matchers) or a combination of          *)
(* predicates.  The hash of a serialised definition is the definition      *)
(* itself: two different definitions never have the same hash.             *)
(* A tracker keeps the values of its class and, as history, when it was    *)
(* created: the number of the update, and the events handled before it.    *)
(***************************************************************************)
EXTENDS Integers, Sequences, FiniteSets, SequencesExt

CONSTANT KeyLimit    \* StatsdStats::kDimensionKeySizeHardLimit

NoId == "none"
DEFAULT_DIMENSION_KEY == "default"

\* ConditionState: the larger of two states wins where they are combined with |.
kNotEvaluated == -2
kUnknown == -1
kFalse == 0
kTrue == 1

Ids(s) == {s[i].id : i \in DOMAIN s}
Position(s, id) == CHOOSE i \in DOMAIN s : s[i].id = id
\* s itself; TLC evaluates the elements of a concatenation once, those of a function at every use.
Evaluated(s) == s \o <<>>

HasDuplicates(s) == Cardinality(Ids(s)) # Len(s)

\* ok says that a definition lacks no field it must have and has none out of range.
WellFormed(defs, which) == \A i \in which : defs[i].ok

-----------------------------------------------------------------------------
(* Creating trackers.                                                      *)

createAtomMatchingTracker(d, i, born) ==
    [id |-> d.id, def |-> d, index |-> i, children |-> <<>>, sliced |-> FALSE,
     leaves |-> IF d.kind = "simple" THEN {d.atom} ELSE {},    \* mAtomIds
     ready |-> d.kind = "simple", born |-> born]

\* What a simple predicate names its matchers by, in the order in which they are looked up.
Links == <<"start", "stop", "stopAll">>

\* The lookup ends, with a warning, at the first matcher that is not in the config.
LookedUp(d, matchers) ==
    {Links[i] : i \in {j \in DOMAIN Links : \A k \in 1..j : d[Links[k]] \in Ids(matchers) \union {NoId}}}

\* setMatcherIndices: 0 stands for a matcher the predicate does not have.  What is not looked up keeps
\* the index it had, which for a new tracker was never set.
Unset == -1
NeverSet == [start |-> Unset, stop |-> Unset, stopAll |-> Unset]
NoIndices == [start |-> 0, stop |-> 0, stopAll |-> 0]

setMatcherIndices(d, matchers, at) ==
    [f \in DOMAIN at |-> IF f \notin LookedUp(d, matchers) THEN at[f]
                         ELSE IF d[f] = NoId THEN 0 ELSE Position(matchers, d[f])]

\* mTrackerIndex
TrackerIndex(d, matchers) == {Position(matchers, d[f]) : f \in {g \in LookedUp(d, matchers) : d[g] # NoId}}

createConditionTracker(d, i, matchers, born) ==
    LET simple == d.kind = "simple"
    IN [id |-> d.id, def |-> d, index |-> i, children |-> <<>>,
        at |-> IF simple THEN setMatcherIndices(d, matchers, NeverSet) ELSE NoIndices,
        leaves |-> IF simple THEN TrackerIndex(d, matchers) ELSE {},
        sliced |-> d.kind = "simple" /\ d.sliced, ready |-> d.kind = "simple",
        initial |-> IF d.kind = "simple" THEN d.initial ELSE kUnknown,
        counts |-> <<>>,    \* mSlicedConditionState: a count for each key seen
        last |-> kUnknown,  \* mUnSlicedPartCondition
        born |-> born, lost |-> {}]

-----------------------------------------------------------------------------
(* init: a combination takes its children, and from them what it depends   *)
(* on.  The trackers, those on the recursion stack, and whether all went   *)
(* well so far.                                                            *)

RECURSIVE init(_, _)

AddChild(s, i, id) ==
    IF ~s.ok \/ id \notin Ids(s.ts) \/ Position(s.ts, id) \in s.stack
    THEN [s EXCEPT !.ok = FALSE]
    ELSE LET k == Position(s.ts, id)
             t == init(s, k)
         IN IF ~t.ok THEN t
            ELSE [t EXCEPT !.ts[i].children = Append(@, k),
                           !.ts[i].leaves = @ \union t.ts[k].leaves,
                           !.ts[i].sliced = @ \/ t.ts[k].sliced]

init(s, i) ==
    LET d == s.ts[i].def
        Child(t, id) == AddChild(t, i, id)
        done == FoldLeft(Child, [s EXCEPT !.stack = @ \union {i}], d.children)
    IN CASE s.ts[i].ready -> s
         [] d.op = "NOT" /\ Len(d.children) # 1 -> [s EXCEPT !.ok = FALSE]
         [] OTHER -> IF ~done.ok THEN done
                     ELSE [done EXCEPT !.ts[i].ready = TRUE, !.stack = @ \ {i}]

\* init of all trackers in their order, until one fails.
InitAll(ts) ==
    LET Step(s, i) == IF s.ok THEN init(s, i) ELSE s
    IN FoldLeft(Step, [ts |-> Evaluated(ts), stack |-> {}, ok |-> TRUE], [i \in DOMAIN ts |-> i])

-----------------------------------------------------------------------------
(* What a modular update does with each definition.                        *)

\* The matchers a definition names itself, not through a child.
Named(d) == IF "start" \in DOMAIN d THEN {d.start, d.stop, d.stopAll} ELSE {}

RECURSIVE determineStatus(_, _, _, _, _)

\* The loop over the children of definition i: it ends at the first one that is replaced.
ExamineChild(s, defs, old, replaced, id) ==
    IF ~s.ok \/ s.found THEN s
    ELSE IF id \notin Ids(defs) \/ Position(defs, id) \in s.stack THEN [s EXCEPT !.ok = FALSE]
    ELSE LET t == determineStatus(s, defs, old, replaced, Position(defs, id))
         IN [t EXCEPT !.found = t.ok /\ t.status[Position(defs, id)] = "REPLACE"]

\* Faulty: the children of a combination are not looked at.
CombinationStatus_Shallow(s, defs, old, replaced, i) ==
    [s EXCEPT !.status[i] = "PRESERVE"]

CombinationStatus(s, defs, old, replaced, i) ==
    LET Child(t, id) == ExamineChild(t, defs, old, replaced, id)
        t == FoldLeft(Child, [s EXCEPT !.stack = @ \union {i}, !.found = FALSE], defs[i].children)
    IN IF ~t.ok THEN t
       ELSE [t EXCEPT !.status[i] = IF t.found THEN "REPLACE" ELSE "PRESERVE",
                      !.stack = @ \ {i}, !.found = FALSE]

\* replaced are the matchers that are replaced, which matter to predicates only.
determineStatus(s, defs, old, replaced, i) ==
    LET d == defs[i]
        Set(x) == [s EXCEPT !.status[i] = x]
    IN CASE s.status[i] # "UNKNOWN" -> s
         [] d.id \notin Ids(old) -> Set("NEW")
         [] OTHER -> IF old[Position(old, d.id)].def # d THEN Set("REPLACE")
                     ELSE IF d.kind = "combination" THEN CombinationStatus(s, defs, old, replaced, i)
                     ELSE Set(IF Named(d) \cap replaced # {} THEN "REPLACE" ELSE "PRESERVE")

determineMatcherUpdateStatus(s, defs, old, i) == determineStatus(s, defs, old, {}, i)

determineConditionUpdateStatus(s, defs, old, replacedMatchers, i) ==
    determineStatus(s, defs, old, replacedMatchers, i)

\* The statuses of all definitions, in their order, until one fails.
NoStatus(defs) == [status |-> Evaluated([i \in DOMAIN defs |-> "UNKNOWN"]), stack |-> {}, found |-> FALSE,
                   ok |-> TRUE]

MatcherStatuses(defs, old) ==
    LET Step(s, i) == IF s.ok THEN determineMatcherUpdateStatus(s, defs, old, i) ELSE s
    IN FoldLeft(Step, NoStatus(defs), [i \in DOMAIN defs |-> i])

ConditionStatuses(defs, old, replacedMatchers) ==
    LET Step(s, i) == IF s.ok THEN determineConditionUpdateStatus(s, defs, old, replacedMatchers, i) ELSE s
    IN FoldLeft(Step, NoStatus(defs), [i \in DOMAIN defs |-> i])

Replaced(defs, status) == {defs[i].id : i \in {j \in DOMAIN defs : status[j] = "REPLACE"}}

-----------------------------------------------------------------------------
(* Matchers.                                                               *)

Failed == [ok |-> FALSE]

initAtomMatchingTrackers(c, born) ==
    IF HasDuplicates(c.matchers) \/ ~WellFormed(c.matchers, DOMAIN c.matchers) THEN Failed
    ELSE LET s == InitAll([i \in DOMAIN c.matchers |-> createAtomMatchingTracker(c.matchers[i], i, born)])
         IN [ok |-> s.ok, ts |-> s.ts]

\* CombinationAtomMatchingTracker::onConfigUpdated, SimpleAtomMatchingTracker::onConfigUpdated
MatcherUpdated(t, i, defs) ==
    [t EXCEPT !.index = i,
              !.children = Evaluated([k \in DOMAIN @ |-> Position(defs, t.def.children[k])])]

\* Keeps or makes the trackers, once the statuses s are known, and initializes them.
MatchersByStatus(c, old, s, born) ==
    LET Tracker(i) == IF s.status[i] = "PRESERVE"
                      THEN MatcherUpdated(old[Position(old, c.matchers[i].id)], i, c.matchers)
                      ELSE createAtomMatchingTracker(c.matchers[i], i, born)
        new == {i \in DOMAIN c.matchers : s.status[i] # "PRESERVE"}
    IN IF HasDuplicates(c.matchers) \/ ~s.ok \/ ~WellFormed(c.matchers, new)
       THEN Failed
       ELSE LET r == InitAll([i \in DOMAIN c.matchers |-> Tracker(i)])
            IN [ok |-> r.ok, ts |-> r.ts, replaced |-> Replaced(c.matchers, s.status)]

updateAtomMatchingTrackers(c, old, born) ==
    MatchersByStatus(c, old, MatcherStatuses(c.matchers, old), born)

-----------------------------------------------------------------------------
(* Conditions.                                                             *)

Or(l, r) == IF l >= r THEN l ELSE r
SliceState(n) == IF n > 0 THEN kTrue ELSE kFalse

evaluateCombinationCondition(op, values) ==
    CASE kUnknown \in values -> kUnknown
      [] OTHER -> CASE op = "AND" -> IF kFalse \in values THEN kFalse ELSE kTrue
                    [] op = "OR" -> IF kTrue \in values THEN kTrue ELSE kFalse
                    [] op = "NOT" -> IF values = {} THEN kUnknown
                                     ELSE IF values = {kFalse} THEN kTrue ELSE kFalse
                    [] op = "NAND" -> IF kFalse \in values THEN kTrue ELSE kFalse
                    [] op = "NOR" -> IF kTrue \in values THEN kFalse ELSE kTrue

RECURSIVE initialCondition(_, _)

\* What init leaves in the condition cache: a sliced condition is asked with the default key
\* as a partial link, which every key contains.
initialCondition(ts, i) ==
    LET t == ts[i]
    IN IF t.def.kind = "simple"
       THEN FoldLeft(Or, t.initial, SetToSeq({SliceState(t.counts[k]) : k \in DOMAIN t.counts}))
       ELSE evaluateCombinationCondition(t.def.op, {initialCondition(ts, k) : k \in ToSet(t.children)})

\* init of the combinations in fresh evaluates the part that is not sliced.
WithUnslicedPart(ts, fresh) ==
    Evaluated([i \in DOMAIN ts |->
        LET kids == {k \in ToSet(ts[i].children) : ~ts[k].sliced}
        IN IF i \in fresh /\ ts[i].def.kind = "combination"
           THEN [ts[i] EXCEPT !.last = evaluateCombinationCondition(ts[i].def.op,
                                           {initialCondition(ts, k) : k \in kids})]
           ELSE ts[i]])

initConditions(c, born) ==
    IF HasDuplicates(c.predicates) \/ ~WellFormed(c.predicates, DOMAIN c.predicates) THEN Failed
    ELSE LET s == InitAll([i \in DOMAIN c.predicates |->
                             createConditionTracker(c.predicates[i], i, c.matchers, born)])
         IN [ok |-> s.ok, ts |-> IF s.ok THEN WithUnslicedPart(s.ts, DOMAIN s.ts) ELSE s.ts]

RECURSIVE conditionUpdated(_, _, _)

\* CombinationConditionTracker::onConfigUpdated: the children first, then what it takes from them.
combinationUpdated(ts, i, c) ==
    LET kids == Evaluated([k \in DOMAIN ts[i].def.children |-> Position(c.predicates, ts[i].def.children[k])])
        Child(u, k) == conditionUpdated(u, k, c)
        new == FoldLeft(Child, ts, kids)
    IN [new EXCEPT ![i].index = i, ![i].children = kids,
                   ![i].leaves = UNION {new[k].leaves : k \in ToSet(kids)}]

\* ConditionTracker::onConfigUpdated
conditionUpdated(ts, i, c) ==
    LET d == ts[i].def
    IN IF d.kind = "combination" THEN combinationUpdated(ts, i, c)
       ELSE [ts EXCEPT ![i].index = i, ![i].at = setMatcherIndices(d, c.matchers, @),
                       ![i].leaves = TrackerIndex(d, c.matchers)]

\* Keeps or makes the trackers, once the statuses s are known, and initializes them.
ConditionsByStatus(c, old, s, born) ==
    LET kept == {i \in DOMAIN c.predicates : s.status[i] = "PRESERVE"}
        new == DOMAIN c.predicates \ kept
        Tracker(i) == IF i \in kept THEN old[Position(old, c.predicates[i].id)]
                      ELSE createConditionTracker(c.predicates[i], i, c.matchers, born)
        Update(ts, i) == IF i \in kept THEN conditionUpdated(ts, i, c) ELSE ts
        trackers == Evaluated([i \in DOMAIN c.predicates |-> Tracker(i)])
    IN IF HasDuplicates(c.predicates) \/ ~s.ok \/ ~WellFormed(c.predicates, new)
       THEN Failed
       ELSE LET r == InitAll(FoldLeft(Update, trackers, [i \in DOMAIN trackers |-> i]))
            IN [ok |-> r.ok, ts |-> IF r.ok THEN WithUnslicedPart(r.ts, new) ELSE r.ts,
                replaced |-> Replaced(c.predicates, s.status)]

updateConditions(c, old, replacedMatchers, born) ==
    ConditionsByStatus(c, old, ConditionStatuses(c.predicates, old, replacedMatchers), born)
=============================================================================
