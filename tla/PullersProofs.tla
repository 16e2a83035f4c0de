---------------------------- MODULE PullersProofs ----------------------------
(***************************************************************************)
(* Proofs about pulling, for any uids, configs, metrics, pull uids and     *)
(* limits: a pull returns data that was asked for (PulledDataRight), and   *)
(* what is registered stays in force (RegistrationsInForce).               *)
(*                                                                         *)
(* What is inductive says what a puller's cache is, how the one request    *)
(* under way and the ones nobody waits for any more can be told apart, and *)
(* that mLock keeps everybody else away from the pullers meanwhile; then   *)
(* that pullers and providers are the ones registered last; then what the  *)
(* alarm is set for while the alarm's thread moves receivers on.           *)
(***************************************************************************)
EXTENDS Pullers, WellFoundedInduction, TLAPS

USE SMTT(30), Zenon

cool == Max({CoolDown, kMinCoolDownNs})
timeout == Min({Timeout, kMaxTimeoutNs})

\* The fields of records, and the domain of a function, as equations.  They are
\* predicates of their own so that a proof expands them only where it needs them.
ManagerRecord(mm) == mm = [pullers |-> mm.pullers, receivers |-> mm.receivers, providers |-> mm.providers,
                           mNextPullTimeNs |-> mm.mNextPullTimeNs, companion |-> mm.companion]
CalledRecord(a) == a = [at |-> "called", elapsed |-> a.elapsed]
Pulling(a) == a = [at |-> "pulling", elapsed |-> a.elapsed, due |-> a.due, todo |-> a.todo,
                   config |-> a.config, min |-> a.min]
CountsRecord(c) == c = [registrations |-> c.registrations, pulls |-> c.pulls, configs |-> c.configs]
OwnersOf(o) == o = [l \in Locks |-> o[l]]

ManagerOK(mm) ==
    /\ ManagerRecord(mm)
    /\ mm.pullers \in [Uids -> PullerStates \cup {None}]

\* The request that a pull waits for.
Request(p) == [id |-> m.pullers[p.uid].id, start |-> p.start, event |-> p.event]

\* A cache that may be returned was cleared, or holds what the last pull got.
CacheOK(p) ==
    p.good => \/ p.cached = {} /\ p.lastPull = 0 /\ p.lastEvent = 0
              \/ p.cached # {} /\ \A d \in p.cached : d.id = p.id /\ d.start = p.lastPull /\ d.event = p.lastEvent

\* The pull under way: requests of earlier pulls are older, an answer to its
\* own is the only one it takes.
PullOK ==
    pull # None =>
      /\ pull \in Pulls /\ m.pullers[pull.uid] \in PullerStates /\ pull.start <= now
      /\ m.pullers[pull.uid].lastPull = pull.start /\ m.pullers[pull.uid].lastEvent = pull.event
      /\ \A q \in asked : q.start < pull.start \/ (q = Request(pull) /\ ~pull.finish)
      /\ pull.finish /\ pull.success => pull.data = {Request(pull)}

\* Once the clock has passed the cool down, a cleared cache does not count
\* as fresh any more.
ResultOK == cool <= Start => PulledDataRight

DataOK ==
    /\ now \in Nat /\ now >= Start /\ asked \in SUBSET Requests /\ ManagerOK(m)
    /\ pull = None => \A q \in asked : q.start < now
    /\ PullOK
    /\ \A u \in Uids : m.pullers[u] # None /\ ~(pull # None /\ pull.uid = u) => CacheOK(m.pullers[u])
    /\ ResultOK

\* Who pulls has mLock, and one thread does.
LockOK ==
    /\ OwnersOf(owner)
    /\ owner["mLock"] = "alarm" <=> onAlarm.at = "pulling"
    /\ owner["mLock"] = "event" <=> puller.at = "pulling"
    /\ pull # None => \/ pull.by = "alarm" /\ onAlarm.at = "pulling" /\ onAlarm.config # None
                      \/ pull.by = "event" /\ puller.at = "pulling"

\* What a thread is about to pull for.
ThreadsOK ==
    /\ onAlarm.at # "idle" => onAlarm.elapsed \in Nat \ {0}
    /\ onAlarm.at = "called" => CalledRecord(onAlarm)
    /\ onAlarm.at = "pulling" =>
          /\ onAlarm.todo \in SUBSET Configs
          /\ Pulling(onAlarm)
    /\ puller.at = "locking" => puller.from \in Configs \cup Uids /\ puller.event \in Nat \ {0}
    /\ CountsRecord(counts)
    /\ counts.registrations \in Nat

IInv == DataOK /\ LockOK /\ ThreadsOK

-----------------------------------------------------------------------------
(* Numbers.                                                                *)

\* The least element of a set of numbers.
LEMMA MinInSet ==
    ASSUME NEW S \in SUBSET Nat, S # {}
    PROVE  Min(S) \in S /\ \A y \in S : Min(S) <= y
  <1>1. PICK R : R = OpToRel(<, Nat)
    BY Zenon
  <1>2. IsWellFoundedOn(R, Nat)
    BY Zenon, <1>1, NatLessThanWellFounded, Zenon
  <1>3. ASSUME NEW a \in Nat, NEW b \in Nat, a < b PROVE <<a, b>> \in R
    <2>1. PICK p : p = <<a, b>>
      BY Zenon
    <2>2. p \in Nat \X Nat /\ p[1] = a /\ p[2] = b
      BY Zenon, <2>1
    <2>3. p \in {ss \in Nat \X Nat : ss[1] < ss[2]}
      BY Zenon, <1>3, <2>2
    <2>4. p \in OpToRel(<, Nat)
      BY Zenon, <2>3, Zenon DEF OpToRel
    <2> QED BY Zenon, <2>1, <2>4, <1>1, Zenon
  <1>4. PICK x \in S : \A y \in S : ~(<<y, x>> \in R)
    BY Zenon, <1>2, WFMin
  <1>5. ASSUME NEW y \in S PROVE x <= y
    <2>1. x \in Nat /\ y \in Nat
      BY Zenon
    <2>2. ~(y < x)
      BY Zenon, <2>1, <1>3, <1>4, Zenon
    <2> QED BY <2>1, <2>2
  <1> QED BY Zenon, <1>5 DEF Min

LEMMA LimitsAreNumbers == cool \in {CoolDown, kMinCoolDownNs} /\ cool \in Nat /\ timeout \in Nat
  <1>1. CoolDown \in Nat /\ kMinCoolDownNs \in Nat /\ Timeout \in Nat /\ kMaxTimeoutNs \in Nat
    BY Zenon, PullersAssumption
  <1>2. \E x \in {CoolDown, kMinCoolDownNs} : \A y \in {CoolDown, kMinCoolDownNs} : x >= y
    BY <1>1
  <1>3. cool \in {CoolDown, kMinCoolDownNs}
    BY Zenon, <1>2, Zenon DEF cool, Max
  <1>4. timeout \in {Timeout, kMaxTimeoutNs}
    BY Zenon, <1>1, MinInSet DEF timeout
  <1> QED BY Zenon, <1>1, <1>3, <1>4

LEMMA NewPullerState ==
    ASSUME NEW id \in Nat PROVE NewPuller(id) \in PullerStates /\ CacheOK(NewPuller(id)) /\ NewPuller(id).id = id
  <1>1. NewPuller(id) = [id |-> id, coolDown |-> cool, timeout |-> timeout, lastPull |-> 0,
                         lastEvent |-> 0, good |-> FALSE, cached |-> {}]
    BY Zenon DEF NewPuller, cool, timeout
  <1> QED BY <1>1, LimitsAreNumbers DEF PullerStates, CacheOK, cool, timeout

-----------------------------------------------------------------------------
(* The pullers and what has been asked.                                    *)

\* Steps that leave the pullers, the pull and the requests alone.
LEMMA DataKept ==
    ASSUME DataOK, ManagerOK(m'), m'.pullers = m.pullers, now' = now, pull' = pull, asked' = asked,
           result' = result \/ result' = NoResult
    PROVE  DataOK'
  <1>1. ResultOK'
    BY DEF DataOK, ResultOK, PulledDataRight, NoResult
  <1>2. PullOK'
    BY Zenon DEF DataOK, PullOK, Request
  <1> QED BY <1>1, <1>2 DEF DataOK, CacheOK

\* Steps that change one puller or all while nobody pulls.
LEMMA DataReplaced ==
    ASSUME DataOK, pull = None, ManagerOK(m'), now' = now, pull' = pull, asked' = asked, result' = result,
           \A u \in Uids : m'.pullers[u] # None => CacheOK(m'.pullers[u])
    PROVE  DataOK'
  <1>1. ResultOK' /\ PullOK'
    BY Zenon DEF DataOK, ResultOK, PulledDataRight, PullOK
  <1> QED BY Zenon, <1>1 DEF DataOK, CacheOK

LEMMA TickStep ==
    ASSUME DataOK, Tick PROVE DataOK'
  <1>1. now' = now + 1 /\ UNCHANGED <<m, pull, asked, result>> /\ now \in Nat /\ Start \in Nat
    BY Zenon, PullersAssumption DEF Tick, DataOK
  <1>2. ResultOK'
    BY Zenon, <1>1 DEF DataOK, ResultOK, PulledDataRight
  <1>3. PullOK'
    BY <1>1 DEF DataOK, PullOK, Request, Pulls
  <1>4. pull' = None => \A q \in asked' : q.start < now'
    BY <1>1 DEF DataOK, Requests
  <1>5. \A u \in Uids : m'.pullers[u] # None /\ ~(pull' # None /\ pull'.uid = u) => CacheOK(m'.pullers[u])
    BY Zenon, <1>1 DEF DataOK
  <1> QED BY <1>1, <1>2, <1>3, <1>4, <1>5 DEF DataOK, ManagerOK, ManagerRecord, CacheOK

\* An answer, to the request of the pull under way or to an older one.
LEMMA AnswerStep ==
    ASSUME DataOK, Answer PROVE DataOK' /\ ((pull' # None) = (pull # None)) /\ (pull # None => pull'.by = pull.by)
  <1>1. PICK q \in asked, success \in BOOLEAN :
           /\ asked' = asked \ {q}
           /\ pull' = IF Answers(q)
                      THEN [pull EXCEPT !.finish = TRUE, !.success = success,
                                        !.data = IF success THEN {q} ELSE {}]
                      ELSE pull
    BY Zenon DEF Answer
  <1>2. UNCHANGED <<now, m, result>> /\ q \in Requests
    BY Zenon DEF Answer, DataOK
  <1>3. CASE ~Answers(q)
    <2>1. pull' = pull
      BY Zenon, <1>1, <1>3
    <2>2. PullOK'
      BY Zenon, <1>1, <1>2, <2>1 DEF DataOK, PullOK, Request
    <2>3. ResultOK'
      BY Zenon, <1>2 DEF DataOK, ResultOK, PulledDataRight
    <2> QED BY <1>1, <1>2, <2>1, <2>2, <2>3 DEF DataOK, CacheOK
  <1>4. CASE Answers(q)
    <2>1. /\ pull # None /\ pull \in Pulls /\ pull.start \in Nat /\ q.start = pull.start
          /\ \A r \in asked : r.start < pull.start \/ (r = Request(pull) /\ ~pull.finish)
      BY Zenon, <1>4 DEF Answers, DataOK, PullOK, Pulls
    <2>2. q = Request(pull)
      BY <2>1
    <2>3. PICK data \in SUBSET Requests : data = (IF success THEN {q} ELSE {})
      BY Zenon, <1>2
    <2>4. pull' = [pull EXCEPT !.finish = TRUE, !.success = success, !.data = data]
      BY Zenon, <1>1, <1>4, <2>3
    <2>5. /\ pull' \in Pulls /\ pull'.by = pull.by /\ pull'.uid = pull.uid /\ pull'.start = pull.start
          /\ pull'.event = pull.event /\ pull'.finish /\ pull'.success = success /\ pull'.data = data
      BY Zenon, <2>1, <2>4 DEF Pulls
    <2>6. pull' # None
      BY Zenon, <2>5, PullersAssumption
    <2>7. \A r \in asked' : r.start < pull'.start
      BY Zenon, <1>1, <2>1, <2>2, <2>5
    <2>8. Request(pull)' = Request(pull)
      BY Zenon, <1>2, <2>5 DEF Request
    <2>9. PullOK'
      BY Zenon, <1>2, <2>1, <2>2, <2>3, <2>5, <2>7, <2>8 DEF DataOK, PullOK
    <2>10. ResultOK'
      BY Zenon, <1>2 DEF DataOK, ResultOK, PulledDataRight
    <2> QED BY <1>1, <1>2, <2>1, <2>5, <2>6, <2>9, <2>10 DEF DataOK, CacheOK
  <1> QED BY Zenon, <1>3, <1>4

\* A pull changes what a puller has cached, not which puller it is.
SamePullers ==
    /\ m'.providers = m.providers
    /\ \A u \in Uids : m.pullers[u] # None => m'.pullers[u] # None /\ m'.pullers[u].id = m.pullers[u].id

\* The end of a pull: data is kept as good only if the pull was answered.
LEMMA FinishStep ==
    ASSUME DataOK, NEW by, FinishPull(by) PROVE DataOK' /\ SamePullers /\ pull' = None
  <1>1. PICK p : p = m.pullers[pull.uid]
    BY Zenon
  <1>2. /\ pull # None /\ pull \in Pulls /\ pull.uid \in Uids /\ p \in PullerStates /\ ManagerOK(m)
        /\ p.lastPull = pull.start /\ p.lastEvent = pull.event /\ pull.start <= now
        /\ pull.finish \/ TimedOut(p)
        /\ UNCHANGED <<now, asked>> /\ pull' = None /\ now \in Nat /\ asked \in SUBSET Requests
    BY Zenon, <1>1 DEF FinishPull, DataOK, PullOK, Pulls
  <1>3. PICK data : data = (IF Good(p) THEN pull.data ELSE {})
    BY Zenon
  <1>4. PICK good \in BOOLEAN : good <=> Good(p)
    BY Zenon DEF Good
  <1>5. Good(p) => data = {Request(pull)} /\ pull.finish
    BY Zenon, <1>2, <1>3 DEF Good, DataOK, PullOK, Pulls
  <1>6. data \in SUBSET Requests
    BY Zenon, <1>2, <1>3 DEF Pulls
  <1>7. PICK new : new = [p EXCEPT !.good = good, !.cached = data]
    BY Zenon
  <1>8. /\ new \in PullerStates /\ new.good = good /\ new.cached = data /\ new.id = p.id
        /\ new.lastPull = pull.start /\ new.lastEvent = pull.event
    BY Zenon, <1>2, <1>6, <1>7 DEF PullerStates
  <1>9. m' = [m EXCEPT !.pullers = [m.pullers EXCEPT ![pull.uid] = new]]
    <2>1. good = Good(p)
      BY Zenon, <1>4 DEF Good
    <2>2. m' = [m EXCEPT !.pullers[pull.uid].good = good, !.pullers[pull.uid].cached = data]
      BY Zenon, <2>1, <1>1, <1>3 DEF FinishPull
    <2> QED BY Zenon, <2>2, <1>1, <1>2, <1>7 DEF ManagerOK, ManagerRecord, PullerStates
  <1>10. ManagerOK(m') /\ m'.pullers = [m.pullers EXCEPT ![pull.uid] = new]
    BY Zenon, <1>2, <1>8, <1>9 DEF ManagerOK, ManagerRecord
  <1>11. CacheOK(new)
    <2>1. PICK r : r = Request(pull)
      BY Zenon
    <2>2. r.id = p.id /\ r.start = pull.start /\ r.event = pull.event
      BY Zenon, <1>1, <2>1 DEF Request
    <2>3. good => new.cached = {r}
      BY Zenon, <1>4, <1>5, <1>8, <2>1
    <2> QED BY Zenon, <1>8, <2>2, <2>3 DEF CacheOK
  <1>12. \A u \in Uids : m'.pullers[u] # None => CacheOK(m'.pullers[u])
    BY Zenon, <1>2, <1>10, <1>11 DEF DataOK, ManagerOK, ManagerRecord
  <1>13. \A q \in asked : q.start < now
    <2>1. SUFFICES ASSUME NEW q \in asked PROVE q.start < now
      BY Zenon
    <2>2. q.start \in Nat /\ pull.start \in Nat /\ now \in Nat /\ pull.start <= now
      BY Zenon, <1>2 DEF Requests, Pulls
    <2>3. CASE q.start < pull.start
      BY <2>2, <2>3
    <2>4. CASE q = Request(pull) /\ ~pull.finish
      <3>1. now - pull.start > timeout
        BY Zenon, <1>2, <2>4 DEF TimedOut, PullerStates, timeout
      <3>2. q.start = pull.start
        BY Zenon, <2>4 DEF Request
      <3> QED BY <2>2, <3>1, <3>2, LimitsAreNumbers
    <2> QED BY Zenon, <2>3, <2>4, <1>2 DEF DataOK, PullOK
  <1>14. ResultOK'
    <2>1. result' = Outcome(Good(p), data, pull.event, pull.start, p)
      BY Zenon, <1>1, <1>3 DEF FinishPull
    <2>2. /\ result'.ok = Good(p) /\ result'.data = data /\ result'.event = pull.event /\ result'.id = p.id
      BY Zenon, <2>1 DEF Outcome
    <2>3. PICK r : r = Request(pull)
      BY Zenon
    <2>4. r.id = p.id /\ r.event = pull.event
      BY Zenon, <1>1, <2>3 DEF Request
    <2>5. result'.ok => result'.data = {r}
      BY Zenon, <1>5, <2>2, <2>3
    <2> QED BY Zenon, <2>2, <2>4, <2>5 DEF ResultOK, PulledDataRight
  <1>15. SamePullers
    <2>1. m'.providers = m.providers
      BY Zenon, <1>2, <1>9 DEF ManagerOK, ManagerRecord
    <2>2. new # None
      BY Zenon, <1>8, PullersAssumption
    <2> QED BY Zenon, <1>1, <1>2, <1>8, <1>10, <2>1, <2>2 DEF ManagerOK, ManagerRecord, SamePullers
  <1> QED BY Zenon, <1>2, <1>10, <1>12, <1>13, <1>14, <1>15 DEF DataOK, PullOK

\* The start of a pull while none is under way: no puller, a cache, a dead
\* process, or a request.
LEMMA StartStep ==
    ASSUME DataOK, pull = None, now' = now, NEW by \in {"alarm", "event"},
           NEW uids \in Seq(Uids), NEW event \in Nat \ {0}, StartPull(by, uids, event)
    PROVE  DataOK' /\ SamePullers /\ (pull' # None => pull'.by = by)
  <1>1. PICK known : known = {i \in DOMAIN uids : m.pullers[uids[i]] # None}
    BY Zenon
  <1>2. CASE known = {}
    <2>1. result' = NoResult /\ UNCHANGED <<m, pull, asked>>
      BY Zenon, <1>1, <1>2 DEF StartPull
    <2> QED BY Zenon, <2>1, DataKept DEF DataOK, SamePullers
  <1>3. CASE known # {}
    <2>1. PICK u, p, fresh :
             /\ u = uids[Min(known)] /\ p = m.pullers[u]
             /\ fresh = [p EXCEPT !.cached = {}, !.lastPull = now, !.lastEvent = event]
      BY Zenon
    <2>2. Min(known) \in known /\ u \in Uids /\ p # None /\ p \in PullerStates
      <3>1. known \in SUBSET Nat
        BY <1>1
      <3>2. Min(known) \in known
        BY Zenon, <3>1, <1>3, MinInSet
      <3> QED BY <1>1, <2>1, <3>2 DEF DataOK, ManagerOK, ManagerRecord
    <2>3. now \in Nat /\ now >= Start /\ ManagerOK(m) /\ Start \in Nat /\ cool \in Nat
      BY Zenon, PullersAssumption, LimitsAreNumbers DEF DataOK
    <2>4. /\ fresh \in PullerStates /\ fresh.id = p.id /\ fresh.cached = {}
          /\ fresh.lastPull = now /\ fresh.lastEvent = event
      BY Zenon, <2>1, <2>2, <2>3 DEF PullerStates
    <2>5. CASE shouldUseCache(p, event)
      <3>1. /\ result' = Outcome(p.good, IF p.good THEN p.cached ELSE {}, event, now, p)
            /\ UNCHANGED <<m, pull, asked>>
        BY Zenon, <1>1, <1>3, <2>1, <2>5 DEF StartPull
      <3>2. p.good => /\ cool <= Start => p.cached # {}
                      /\ \A d \in p.cached : d.id = p.id /\ d.start = p.lastPull /\ d.event = p.lastEvent
        <4>1. CacheOK(p)
          BY Zenon, <2>1, <2>2 DEF DataOK
        <4>2. cool <= Start => ~(p.lastPull = 0 /\ p.lastEvent = 0)
          BY <2>2, <2>3, <2>5 DEF shouldUseCache, PullerStates, cool
        <4> QED BY Zenon, <4>1, <4>2 DEF CacheOK
      <3>3. /\ result'.ok = p.good /\ (p.good => result'.data = p.cached) /\ result'.event = event
            /\ result'.time = now /\ result'.cool = p.coolDown /\ result'.id = p.id
        BY Zenon, <3>1 DEF Outcome
      <3>4. ResultOK'
        BY Zenon, <3>2, <3>3, <2>5 DEF ResultOK, PulledDataRight, shouldUseCache
      <3> QED BY <3>1, <3>4 DEF DataOK, PullOK, CacheOK, SamePullers
    <2>6. CASE ~shouldUseCache(p, event) /\ p.id \in dead
      <3>1. /\ m' = [m EXCEPT !.pullers[u] = [fresh EXCEPT !.good = FALSE]]
            /\ result' = Outcome(FALSE, {}, event, now, p) /\ UNCHANGED <<pull, asked>>
        BY Zenon, <1>1, <1>3, <2>1, <2>6 DEF StartPull
      <3>2. PICK new : new = [fresh EXCEPT !.good = FALSE]
        BY Zenon
      <3>3. new \in PullerStates /\ CacheOK(new) /\ new.id = p.id
        BY Zenon, <3>2, <2>4 DEF PullerStates, CacheOK
      <3>4. ManagerOK(m') /\ m'.pullers = [m.pullers EXCEPT ![u] = new] /\ m'.providers = m.providers
        BY Zenon, <3>1, <3>2, <3>3, <2>2, <2>3 DEF ManagerOK, ManagerRecord
      <3>5. \A v \in Uids : m'.pullers[v] # None => CacheOK(m'.pullers[v])
        BY Zenon, <3>3, <3>4, <2>2 DEF DataOK, ManagerOK, ManagerRecord
      <3>6. ResultOK'
        BY Zenon, <3>1 DEF ResultOK, PulledDataRight, Outcome
      <3>7. SamePullers
        <4>1. new # None
          BY Zenon, <3>3, PullersAssumption
        <4> QED BY Zenon, <2>1, <2>2, <2>3, <3>3, <3>4, <4>1 DEF ManagerOK, ManagerRecord, SamePullers
      <3> QED BY Zenon, <3>1, <3>4, <3>5, <3>6, <3>7 DEF DataOK, PullOK
    <2>7. CASE ~shouldUseCache(p, event) /\ p.id \notin dead
      <3>1. /\ m' = [m EXCEPT !.pullers[u] = fresh] /\ UNCHANGED result
            /\ pull' = [by |-> by, uid |-> u, start |-> now, event |-> event, finish |-> FALSE,
                        success |-> FALSE, data |-> {}]
            /\ asked' = asked \cup {[id |-> p.id, start |-> now, event |-> event]}
        BY Zenon, <1>1, <1>3, <2>1, <2>7 DEF StartPull
      <3>2. /\ ManagerOK(m') /\ m'.pullers = [m.pullers EXCEPT ![u] = fresh] /\ m'.pullers[u] = fresh
            /\ m'.providers = m.providers
        BY Zenon, <3>1, <2>2, <2>3, <2>4 DEF ManagerOK, ManagerRecord
      <3>3. /\ pull' \in Pulls /\ pull'.by = by /\ pull'.uid = u /\ pull'.start = now
            /\ pull'.event = event /\ ~pull'.finish
        BY Zenon, <3>1, <2>2, <2>3 DEF Pulls
      <3>4. pull' # None
        BY Zenon, <3>3, PullersAssumption
      <3>5. Request(pull)' = [id |-> p.id, start |-> now, event |-> event]
        BY Zenon, <3>2, <3>3, <2>4 DEF Request
      <3>6. asked' \in SUBSET Requests
        BY <3>1, <2>2, <2>3 DEF DataOK, Requests, PullerStates
      <3>7. PullOK'
        <4>1. \A q \in asked : q.start < now
          BY Zenon DEF DataOK
        <4>2. \A q \in asked' : q.start < pull'.start \/ (q = Request(pull)' /\ ~pull'.finish)
          BY Zenon, <4>1, <3>1, <3>3, <3>5
        <4> QED BY <4>2, <3>2, <3>3, <2>3, <2>4 DEF PullOK
      <3>8. \A v \in Uids : m'.pullers[v] # None /\ v # u => CacheOK(m'.pullers[v])
        BY Zenon, <3>2, <2>2 DEF DataOK, ManagerOK, ManagerRecord
      <3>9. ResultOK'
        BY Zenon, <3>1 DEF DataOK, ResultOK, PulledDataRight
      <3>10. SamePullers
        <4>1. fresh # None
          BY Zenon, <2>4, PullersAssumption
        <4> QED BY Zenon, <2>1, <2>2, <2>3, <2>4, <3>2, <4>1 DEF ManagerOK, ManagerRecord, SamePullers
      <3> QED BY Zenon, <3>2, <3>3, <3>4, <3>6, <3>7, <3>8, <3>9, <3>10 DEF DataOK
    <2> QED BY Zenon, <2>5, <2>6, <2>7
  <1> QED BY Zenon, <1>2, <1>3

-----------------------------------------------------------------------------
(* The threads and their locks.                                            *)

LEMMA NoneIsNoThread == None # "alarm" /\ None # "event" /\ None \notin Configs
BY Zenon, PullersAssumption

\* While mLock is free nobody pulls.
LEMMA FreeMeansNoPull ==
    ASSUME LockOK, Free("mLock") PROVE pull = None /\ onAlarm.at # "pulling" /\ puller.at # "pulling"
BY Zenon, NoneIsNoThread DEF LockOK, OwnersOf, Free

\* Steps that take other locks than mLock, and move no pulling thread.
LEMMA OthersStep ==
    ASSUME IInv, ManagerOK(m'), m'.pullers = m.pullers, counts' = [counts EXCEPT !.configs = counts'.configs],
           owner' = [l \in Locks |-> owner'[l]], owner'["mLock"] = owner["mLock"],
           UNCHANGED <<now, pull, asked, result, onAlarm, puller>>
    PROVE  IInv'
  <1>1. DataOK'
    BY Zenon, DataKept DEF IInv
  <1>2. LockOK'
    BY Zenon DEF IInv, LockOK, OwnersOf
  <1>3. ThreadsOK'
    BY Zenon DEF IInv, ThreadsOK, CalledRecord, CountsRecord
  <1> QED BY Zenon, <1>1, <1>2, <1>3 DEF IInv

LEMMA AlarmThreadStep ==
    ASSUME IInv, AlarmThread PROVE IInv' /\ SamePullers
  <1>0. "mLock" \in Locks /\ ManagerOK(m) /\ now \in Nat \ {0}
    BY PullersAssumption DEF Locks, IInv, DataOK
  <1>1. CASE informPollAlarmFired
    <2>1. /\ onAlarm' = [at |-> "called", elapsed |-> now] /\ onAlarm = Idle
          /\ UNCHANGED <<now, m, owner, puller, pull, asked, result, counts>>
      BY Zenon, <1>1 DEF informPollAlarmFired
    <2>2. onAlarm'.at = "called" /\ onAlarm'.elapsed = now /\ onAlarm.at = "idle"
      BY Zenon, <2>1 DEF Idle
    <2>3. DataOK'
      BY Zenon, <1>0, <2>1, DataKept DEF IInv
    <2>4. LockOK' /\ ThreadsOK'
      BY Zenon, <1>0, <2>1, <2>2 DEF IInv, LockOK, OwnersOf, ThreadsOK, CalledRecord, CountsRecord
    <2> QED BY Zenon, <2>3, <2>4, <2>1 DEF IInv, SamePullers
  <1>2. CASE informPullAlarmFired
    <2>1. /\ onAlarm.at = "called" /\ onAlarm' = [onAlarm EXCEPT !.at = "locking"]
          /\ owner' = [owner EXCEPT !["mMetricsMutex"] = "alarm"]
          /\ UNCHANGED <<now, m, puller, pull, asked, result, counts>>
      BY Zenon, <1>2 DEF informPullAlarmFired
    <2>2. DataOK'
      BY Zenon, <1>0, <2>1, DataKept DEF IInv
    <2>3. LockOK' /\ ThreadsOK'
      BY Zenon, <1>0, <2>1 DEF IInv, LockOK, OwnersOf, ThreadsOK, CalledRecord, CountsRecord
    <2> QED BY Zenon, <2>2, <2>3, <2>1 DEF IInv, SamePullers
  <1>3. CASE OnAlarmFired
    <2>1. PICK due : due = {r \in Receivers : Registered(r) /\ m.receivers[r].next <= onAlarm.elapsed}
      BY Zenon
    <2>2. PICK min : min = Min({NO_ALARM_UPDATE} \cup
                               {m.receivers[r].next : r \in {r \in Receivers : Registered(r)} \ due})
      BY Zenon
    <2>3. onAlarm' = [at |-> "pulling", elapsed |-> onAlarm.elapsed, due |-> due,
                      todo |-> {ConfigOf[r] : r \in due}, config |-> None, min |-> min]
      BY Zenon, <1>3, <2>1, <2>2 DEF OnAlarmFired
    <2>4. /\ onAlarm.at = "locking" /\ Free("mLock") /\ owner' = [owner EXCEPT !["mLock"] = "alarm"]
          /\ UNCHANGED <<now, m, puller, pull, asked, result, counts>>
      BY Zenon, <1>3 DEF OnAlarmFired
    <2>5. /\ onAlarm'.at = "pulling" /\ onAlarm'.elapsed = onAlarm.elapsed /\ onAlarm'.todo \in SUBSET Configs
          /\ Pulling(onAlarm')
      BY <2>1, <2>3, PullersAssumption DEF Pulling
    <2>6. pull = None /\ puller.at # "pulling"
      BY Zenon, <2>4, FreeMeansNoPull DEF IInv
    <2>7. DataOK'
      BY Zenon, <1>0, <2>4, DataKept DEF IInv
    <2>8. LockOK' /\ ThreadsOK'
      BY Zenon, <1>0, <2>4, <2>5, <2>6 DEF IInv, LockOK, OwnersOf, ThreadsOK, CalledRecord, CountsRecord
    <2> QED BY Zenon, <2>7, <2>8, <2>4 DEF IInv, SamePullers
  <1>4. CASE PullForAlarm
    <2>1. PICK c \in onAlarm.todo : /\ StartPull("alarm", UidsOf(c), onAlarm.elapsed)
                                    /\ onAlarm' = [onAlarm EXCEPT !.config = c]
      BY Zenon, <1>4 DEF PullForAlarm
    <2>2. onAlarm.at = "pulling" /\ onAlarm.config = None /\ UNCHANGED <<now, owner, puller, counts>>
      BY Zenon, <1>4 DEF PullForAlarm
    <2>3. c \in Configs /\ onAlarm.elapsed \in Nat \ {0}
      BY Zenon, <2>1, <2>2 DEF IInv, ThreadsOK, CalledRecord, CountsRecord
    <2>4. pull = None /\ puller.at # "pulling"
      BY Zenon, <2>2 DEF IInv, LockOK, OwnersOf
    <2>5. UidsOf(c) \in Seq(Uids)
      BY <2>3, PullersAssumption DEF UidsOf
    <2>6. DataOK' /\ SamePullers /\ (pull' # None => pull'.by = "alarm")
      BY Zenon, <2>1, <2>2, <2>3, <2>4, <2>5, StartStep DEF IInv
    <2>7. LockOK' /\ ThreadsOK'
      <3>1. /\ onAlarm'.at = onAlarm.at /\ onAlarm'.elapsed = onAlarm.elapsed /\ onAlarm'.todo = onAlarm.todo
            /\ onAlarm'.config = c /\ Pulling(onAlarm')
        BY Zenon, <2>1, <2>2 DEF IInv, ThreadsOK, CalledRecord, CountsRecord, Pulling
      <3>2. pull' # None => onAlarm'.config # None
        BY Zenon, <2>3, <3>1, NoneIsNoThread
      <3> QED BY Zenon, <2>2, <2>4, <2>6, <3>1, <3>2 DEF IInv, LockOK, OwnersOf, ThreadsOK, CalledRecord, CountsRecord
    <2> QED BY Zenon, <2>6, <2>7 DEF IInv
  <1>5. CASE FinishForAlarm
    <2>1. DataOK' /\ SamePullers /\ pull' = None
      BY Zenon, <1>5, FinishStep DEF FinishForAlarm, IInv
    <2>2. UNCHANGED <<owner, onAlarm, puller, counts>>
      BY Zenon, <1>5 DEF FinishForAlarm, FinishPull
    <2> QED BY Zenon, <2>1, <2>2 DEF IInv, LockOK, OwnersOf, ThreadsOK, CalledRecord, CountsRecord
  <1>6. CASE DeliverToReceiver
    <2>1. PICK r \in onAlarm.due :
             \/ m' = m /\ onAlarm' = [onAlarm EXCEPT !.due = @ \ {r}]
             \/ /\ m' = [m EXCEPT !.receivers[r].next = NextPull(m.receivers[r])]
                /\ onAlarm' = [onAlarm EXCEPT !.due = @ \ {r}, !.min = Min({@, NextPull(m.receivers[r])})]
      BY Zenon, <1>6 DEF DeliverToReceiver
    <2>2. onAlarm.at = "pulling" /\ pull = None /\ UNCHANGED <<now, owner, puller, pull, asked, result, counts>>
      BY Zenon, <1>6 DEF DeliverToReceiver
    <2>3. ManagerOK(m') /\ m'.pullers = m.pullers
      BY Zenon, <1>0, <2>1 DEF ManagerOK, ManagerRecord
    <2>4. /\ onAlarm'.at = onAlarm.at /\ onAlarm'.elapsed = onAlarm.elapsed /\ onAlarm'.todo = onAlarm.todo
          /\ Pulling(onAlarm')
      BY Zenon, <2>1, <2>2 DEF IInv, ThreadsOK, CalledRecord, CountsRecord, Pulling
    <2>5. DataOK'
      BY Zenon, <2>2, <2>3, DataKept DEF IInv
    <2>6. LockOK' /\ ThreadsOK'
      BY Zenon, <2>2, <2>4 DEF IInv, LockOK, OwnersOf, ThreadsOK, CalledRecord, CountsRecord
    <2> QED BY Zenon, <2>5, <2>6, <2>1, <1>0 DEF IInv, SamePullers, ManagerOK, ManagerRecord
  <1>7. CASE NextConfig
    <2>1. /\ onAlarm.at = "pulling" /\ pull = None /\ result' = NoResult
          /\ onAlarm' = [onAlarm EXCEPT !.config = None, !.todo = @ \ {onAlarm.config}]
          /\ UNCHANGED <<now, m, owner, puller, pull, asked, counts>>
      BY Zenon, <1>7 DEF NextConfig
    <2>2. DataOK'
      BY Zenon, <1>0, <2>1, DataKept DEF IInv
    <2>3. LockOK' /\ ThreadsOK'
      BY Zenon, <2>1 DEF IInv, LockOK, OwnersOf, ThreadsOK, CalledRecord, CountsRecord, Pulling
    <2> QED BY Zenon, <2>2, <2>3, <2>1 DEF IInv, SamePullers
  <1>8. CASE AlarmDone
    <2>1. /\ onAlarm.at = "pulling" /\ onAlarm.config = None /\ m' = [m EXCEPT !.mNextPullTimeNs = onAlarm.min]
          /\ owner' = [l \in Locks |-> IF owner[l] = "alarm" THEN None ELSE owner[l]] /\ onAlarm' = Idle
          /\ UNCHANGED <<now, puller, pull, asked, result, counts>>
      BY Zenon, <1>8 DEF AlarmDone
    <2>2. pull = None /\ puller.at # "pulling" /\ owner'["mLock"] = None /\ onAlarm'.at = "idle"
      BY Zenon, <1>0, <2>1 DEF IInv, LockOK, OwnersOf, Idle
    <2>3. ManagerOK(m') /\ m'.pullers = m.pullers
      BY Zenon, <1>0, <2>1 DEF ManagerOK, ManagerRecord
    <2>4. DataOK'
      BY Zenon, <2>1, <2>3, DataKept DEF IInv
    <2>5. LockOK' /\ ThreadsOK'
      BY Zenon, <2>1, <2>2, NoneIsNoThread DEF IInv, LockOK, OwnersOf, ThreadsOK, CalledRecord, CountsRecord
    <2> QED BY Zenon, <2>4, <2>5, <2>1, <1>0 DEF IInv, SamePullers, ManagerOK, ManagerRecord
  <1> QED BY Zenon, <1>1, <1>2, <1>3, <1>4, <1>5, <1>6, <1>7, <1>8 DEF AlarmThread

LEMMA PullerThreadStep ==
    ASSUME IInv, PullerThread PROVE IInv' /\ SamePullers
  <1>0. "mLock" \in Locks /\ ManagerOK(m)
    BY Zenon DEF Locks, IInv, DataOK
  <1>1. CASE Pull
    <2>1. PICK uids : uids = (IF puller.from \in Configs THEN UidsOf(puller.from) ELSE <<puller.from>>)
      BY Zenon
    <2>2. /\ puller.at = "locking" /\ Free("mLock") /\ StartPull("event", uids, puller.event)
          /\ puller' = [at |-> "pulling"] /\ owner' = [owner EXCEPT !["mLock"] = "event"]
          /\ UNCHANGED <<now, onAlarm, counts>>
      BY Zenon, <1>1, <2>1 DEF Pull
    <2>3. pull = None /\ onAlarm.at # "pulling"
      BY Zenon, <2>2, FreeMeansNoPull DEF IInv
    <2>4. uids \in Seq(Uids) /\ puller.event \in Nat \ {0}
      <3>1. CASE puller.from \in Configs
        BY <3>1, <2>1, <2>2, PullersAssumption DEF UidsOf, IInv, ThreadsOK, CalledRecord, CountsRecord
      <3>2. CASE puller.from \in Uids /\ puller.from \notin Configs
        BY <3>2, <2>1, <2>2 DEF IInv, ThreadsOK, CalledRecord, CountsRecord
      <3> QED BY Zenon, <3>1, <3>2, <2>2 DEF IInv, ThreadsOK, CalledRecord, CountsRecord
    <2>5. DataOK' /\ SamePullers /\ (pull' # None => pull'.by = "event")
      BY Zenon, <2>2, <2>3, <2>4, StartStep DEF IInv
    <2>6. LockOK' /\ ThreadsOK'
      BY Zenon, <1>0, <2>2, <2>3, <2>5 DEF IInv, LockOK, OwnersOf, ThreadsOK, CalledRecord, CountsRecord
    <2> QED BY Zenon, <2>5, <2>6 DEF IInv
  <1>2. CASE FinishForEvent
    <2>1. DataOK' /\ SamePullers /\ pull' = None
      BY Zenon, <1>2, FinishStep DEF FinishForEvent, IInv
    <2>2. UNCHANGED <<owner, onAlarm, puller, counts>>
      BY Zenon, <1>2 DEF FinishForEvent, FinishPull
    <2> QED BY Zenon, <2>1, <2>2 DEF IInv, LockOK, OwnersOf, ThreadsOK, CalledRecord, CountsRecord
  <1>3. CASE PullReturns
    <2>1. /\ puller.at = "pulling" /\ pull = None /\ puller' = Idle /\ result' = NoResult
          /\ owner' = [l \in Locks |-> IF owner[l] = "event" THEN None ELSE owner[l]]
          /\ UNCHANGED <<now, m, onAlarm, pull, asked, counts>>
      BY Zenon, <1>3 DEF PullReturns
    <2>2. owner'["mLock"] = None /\ puller'.at = "idle" /\ onAlarm.at # "pulling"
      BY Zenon, <1>0, <2>1 DEF IInv, LockOK, OwnersOf, Idle
    <2>3. DataOK'
      BY Zenon, <1>0, <2>1, DataKept DEF IInv
    <2>4. LockOK' /\ ThreadsOK'
      BY Zenon, <2>1, <2>2, NoneIsNoThread DEF IInv, LockOK, OwnersOf, ThreadsOK, CalledRecord, CountsRecord
    <2> QED BY Zenon, <2>3, <2>4, <2>1 DEF IInv, SamePullers
  <1> QED BY Zenon, <1>1, <1>2, <1>3 DEF PullerThread

\* A thread starts to pull for an event or for the shell.
LEMMA BeginStep ==
    ASSUME IInv, ConditionChanges \/ ShellPulls PROVE IInv'
  <1>0. "mLock" \in Locks /\ ManagerOK(m) /\ now \in Nat /\ now >= 2
    <2>1. Start \in Nat \ {0, 1}
      BY Zenon, PullersAssumption
    <2> QED BY <2>1 DEF Locks, IInv, DataOK
  <1>1. CASE ConditionChanges
    <2>1. PICK r \in Receivers, late \in {0, 1} :
             /\ puller' = [at |-> "locking", from |-> ConfigOf[r], event |-> now - late]
             /\ owner' = [owner EXCEPT !["mMetricsMutex"] = "event", ![r] = "event"]
      BY Zenon, <1>1 DEF ConditionChanges
    <2>2. /\ puller = Idle /\ counts' = [counts EXCEPT !.pulls = @ + 1]
          /\ UNCHANGED <<now, m, onAlarm, pull, asked, result>>
      BY Zenon, <1>1 DEF ConditionChanges
    <2>3. puller'.at = "locking" /\ puller'.from \in Configs /\ puller'.event \in Nat \ {0} /\ puller.at = "idle"
      BY <1>0, <2>1, <2>2, PullersAssumption DEF Idle
    <2>4. owner'["mLock"] = owner["mLock"] /\ owner' = [l \in Locks |-> owner'[l]]
      BY Zenon, <1>0, <2>1, PullersAssumption DEF IInv, LockOK, OwnersOf
    <2>5. DataOK'
      BY Zenon, <1>0, <2>2, DataKept DEF IInv
    <2>6. LockOK' /\ ThreadsOK'
      BY Zenon, <2>2, <2>3, <2>4 DEF IInv, LockOK, OwnersOf, ThreadsOK, CalledRecord, CountsRecord
    <2> QED BY Zenon, <2>5, <2>6 DEF IInv
  <1>2. CASE ShellPulls
    <2>1. PICK u \in Uids : puller' = [at |-> "locking", from |-> u, event |-> now]
      BY Zenon, <1>2 DEF ShellPulls
    <2>2. /\ puller = Idle /\ counts' = [counts EXCEPT !.pulls = @ + 1]
          /\ UNCHANGED <<now, m, owner, onAlarm, pull, asked, result>>
      BY Zenon, <1>2 DEF ShellPulls
    <2>3. puller'.at = "locking" /\ puller'.from \in Uids /\ puller'.event \in Nat \ {0} /\ puller.at = "idle"
      BY <1>0, <2>1, <2>2 DEF Idle
    <2>4. DataOK'
      BY Zenon, <1>0, <2>2, DataKept DEF IInv
    <2>5. LockOK' /\ ThreadsOK'
      BY Zenon, <2>2, <2>3 DEF IInv, LockOK, OwnersOf, ThreadsOK, CalledRecord, CountsRecord
    <2> QED BY Zenon, <2>4, <2>5 DEF IInv
  <1> QED BY Zenon, <1>1, <1>2

\* Callbacks come and go, and caches are cleared, with mLock.
LEMMA CallbackStep ==
    ASSUME IInv, RegisterPullAtomCallback \/ UnregisterPullAtomCallback \/ pullAtomCallbackDied
                 \/ ForceClearPullerCache \/ ClearPullerCacheIfNecessary
    PROVE  IInv'
  <1>0. ManagerOK(m) /\ pull = None
    BY Zenon, FreeMeansNoPull DEF IInv, DataOK, RegisterPullAtomCallback, UnregisterPullAtomCallback,
       pullAtomCallbackDied, ForceClearPullerCache, ClearPullerCacheIfNecessary
  <1>1. /\ UNCHANGED <<now, owner, onAlarm, puller, pull, asked, result>>
        /\ counts' = counts \/ counts' = [counts EXCEPT !.registrations = counts.registrations + 1]
    BY Zenon DEF RegisterPullAtomCallback, UnregisterPullAtomCallback,
       pullAtomCallbackDied, ForceClearPullerCache, ClearPullerCacheIfNecessary
  <1>2. LockOK' /\ ThreadsOK'
    BY <1>1 DEF IInv, LockOK, OwnersOf, ThreadsOK, CalledRecord, CountsRecord
  <1>3. \A u \in Uids : m.pullers[u] # None => CacheOK(m.pullers[u])
    BY Zenon, <1>0 DEF IInv, DataOK
  <1>4. \A p \in PullerStates : Cleared(p) \in PullerStates /\ CacheOK(Cleared(p))
    BY Zenon DEF Cleared, PullerStates, CacheOK
  <1>5. PICK pullers \in [Uids -> PullerStates \cup {None}] :
           /\ m' = [m EXCEPT !.pullers = pullers]
           /\ \A u \in Uids : pullers[u] # None => CacheOK(pullers[u])
    <2>1. CASE RegisterPullAtomCallback
      <3>1. PICK u \in Uids : m' = [m EXCEPT !.pullers[u] = NewPuller(counts.registrations + 1)]
        BY Zenon, <2>1 DEF RegisterPullAtomCallback
      <3>2. PICK new \in PullerStates : new = NewPuller(counts.registrations + 1) /\ CacheOK(new)
        BY NewPullerState DEF IInv, ThreadsOK, CalledRecord, CountsRecord
      <3>3. m' = [m EXCEPT !.pullers = [m.pullers EXCEPT ![u] = new]]
        BY Zenon, <3>1, <3>2
      <3>4. PICK f : f = [m.pullers EXCEPT ![u] = new]
        BY Zenon
      <3>5. f \in [Uids -> PullerStates \cup {None}] /\ \A v \in Uids : f[v] # None => CacheOK(f[v])
        BY Zenon, <3>2, <3>4, <1>0, <1>3, <1>4 DEF ManagerOK, ManagerRecord
      <3> QED BY Zenon, <3>3, <3>4, <3>5
    <2>2. CASE UnregisterPullAtomCallback
      <3>1. PICK u \in Uids : m' = [m EXCEPT !.pullers[u] = None]
        BY Zenon, <2>2 DEF UnregisterPullAtomCallback
      <3>2. m' = [m EXCEPT !.pullers = [m.pullers EXCEPT ![u] = None]]
        BY Zenon, <3>1
      <3>3. PICK f : f = [m.pullers EXCEPT ![u] = None]
        BY Zenon
      <3>4. f \in [Uids -> PullerStates \cup {None}] /\ \A v \in Uids : f[v] # None => CacheOK(f[v])
        BY Zenon, <3>3, <1>0, <1>3, <1>4 DEF ManagerOK, ManagerRecord
      <3> QED BY Zenon, <3>2, <3>3, <3>4
    <2>3. CASE pullAtomCallbackDied
      <3>1. PICK u : m' = m \/ m' = [m EXCEPT !.pullers[u] = None]
        BY Zenon, <2>3 DEF pullAtomCallbackDied
      <3>2. CASE m' = m
        <4>1. m' = [m EXCEPT !.pullers = m.pullers]
          BY Zenon, <3>2, <1>0 DEF ManagerOK, ManagerRecord
        <4> QED BY Zenon, <4>1, <1>0, <1>3 DEF ManagerOK, ManagerRecord
      <3>3. CASE m' = [m EXCEPT !.pullers[u] = None]
        <4>1. m' = [m EXCEPT !.pullers = [m.pullers EXCEPT ![u] = None]]
          BY Zenon, <3>3
        <4>2. PICK f : f = [m.pullers EXCEPT ![u] = None]
        BY Zenon
        <4>3. f \in [Uids -> PullerStates \cup {None}] /\ \A v \in Uids : f[v] # None => CacheOK(f[v])
        BY Zenon, <4>2, <1>0, <1>3, <1>4 DEF ManagerOK, ManagerRecord
        <4> QED BY Zenon, <4>1, <4>2, <4>3
      <3> QED BY Zenon, <3>1, <3>2, <3>3
    <2>4. CASE ForceClearPullerCache
      <3>1. m' = [m EXCEPT !.pullers = [u \in Uids |-> IF m.pullers[u] = None THEN None ELSE Cleared(m.pullers[u])]]
        BY Zenon, <2>4 DEF ForceClearPullerCache
      <3>2. PICK f : f = [u \in Uids |-> IF m.pullers[u] = None THEN None ELSE Cleared(m.pullers[u])]
        BY Zenon
      <3>3. f \in [Uids -> PullerStates \cup {None}] /\ \A v \in Uids : f[v] # None => CacheOK(f[v])
        BY Zenon, <3>2, <1>0, <1>3, <1>4 DEF ManagerOK, ManagerRecord
      <3> QED BY Zenon, <3>1, <3>2, <3>3
    <2>5. CASE ClearPullerCacheIfNecessary
      <3>1. m' = [m EXCEPT !.pullers = [u \in Uids |->
                   IF m.pullers[u] # None /\ now - m.pullers[u].lastPull > m.pullers[u].coolDown
                   THEN Cleared(m.pullers[u]) ELSE m.pullers[u]]]
        BY Zenon, <2>5 DEF ClearPullerCacheIfNecessary
      <3>2. PICK f : f = [u \in Uids |->
                   IF m.pullers[u] # None /\ now - m.pullers[u].lastPull > m.pullers[u].coolDown
                   THEN Cleared(m.pullers[u]) ELSE m.pullers[u]]
        BY Zenon
      <3>3. f \in [Uids -> PullerStates \cup {None}] /\ \A v \in Uids : f[v] # None => CacheOK(f[v])
        BY Zenon, <3>2, <1>0, <1>3, <1>4 DEF ManagerOK, ManagerRecord
      <3> QED BY Zenon, <3>1, <3>2, <3>3
    <2> QED BY Zenon, <2>1, <2>2, <2>3, <2>4, <2>5
  <1>6. ManagerOK(m') /\ m'.pullers = pullers
    BY Zenon, <1>0, <1>5 DEF ManagerOK, ManagerRecord
  <1>7. DataOK'
    BY Zenon, <1>0, <1>1, <1>5, <1>6, DataReplaced DEF IInv
  <1> QED BY Zenon, <1>2, <1>7 DEF IInv

\* Everything else: receivers, configs, the companion and its alarm.
LEMMA RestStep ==
    ASSUME IInv, AlarmFires \/ DestroyOld \/ ProcessDies \/ RegisterReceiver \/ OnConfigUpdated
                 \/ statsCompanionReady \/ SystemServerDies \/ statsCompanionServiceDied
    PROVE  IInv'
  <1>0. /\ "mLock" \in Locks /\ "mMetricsMutex" \in Locks /\ ManagerOK(m) /\ owner = [l \in Locks |-> owner[l]]
        /\ counts = [registrations |-> counts.registrations, pulls |-> counts.pulls, configs |-> counts.configs]
    BY Zenon DEF Locks, IInv, DataOK, LockOK, OwnersOf, ThreadsOK, CalledRecord, CountsRecord
  <1>1. UNCHANGED <<now, pull, asked, result, onAlarm, puller>>
    BY Zenon DEF AlarmFires, DestroyOld, ProcessDies, RegisterReceiver, OnConfigUpdated, statsCompanionReady,
           SystemServerDies, statsCompanionServiceDied
  <1>2. owner' = [l \in Locks |-> owner'[l]] /\ owner'["mLock"] = owner["mLock"]
    <2>1. owner' = owner \/ \E x : owner' = [owner EXCEPT !["mMetricsMutex"] = x]
      BY Zenon DEF AlarmFires, DestroyOld, ProcessDies, RegisterReceiver, OnConfigUpdated, statsCompanionReady,
             SystemServerDies, statsCompanionServiceDied
    <2> QED BY Zenon, <1>0, <2>1
  <1>3. counts' = [counts EXCEPT !.configs = counts'.configs]
    <2>1. counts' = counts \/ counts' = [counts EXCEPT !.configs = @ + 1]
      BY Zenon DEF AlarmFires, DestroyOld, ProcessDies, RegisterReceiver, OnConfigUpdated, statsCompanionReady,
             SystemServerDies, statsCompanionServiceDied
    <2>2. CASE counts' = counts
      BY Zenon, <1>0, <2>2
    <2>3. CASE counts' = [counts EXCEPT !.configs = @ + 1]
      BY Zenon, <1>0, <2>3
    <2> QED BY Zenon, <2>1, <2>2, <2>3
  <1>4. ManagerOK(m') /\ m'.pullers = m.pullers
    <2>1. CASE AlarmFires \/ ProcessDies \/ SystemServerDies
      BY Zenon, <2>1, <1>0 DEF AlarmFires, ProcessDies, SystemServerDies
    <2>2. CASE DestroyOld
      <3>1. PICK receivers, provider :
               m' = [m EXCEPT !.receivers = receivers, !.providers[config.config] = provider]
        BY Zenon, <2>2 DEF DestroyOld
      <3> QED BY Zenon, <3>1, <1>0 DEF ManagerOK, ManagerRecord
    <2>3. CASE RegisterReceiver
      <3>1. PICK r, new, next : m' = [m EXCEPT !.receivers[r] = new, !.mNextPullTimeNs = next]
        BY Zenon, <2>3 DEF RegisterReceiver
      <3> QED BY Zenon, <3>1, <1>0 DEF ManagerOK, ManagerRecord
    <2>4. CASE OnConfigUpdated
      <3>1. PICK c, new : m' = m \/ m' = [m EXCEPT !.providers[c] = new]
        BY Zenon, <2>4 DEF OnConfigUpdated
      <3> QED BY Zenon, <3>1, <1>0 DEF ManagerOK, ManagerRecord
    <2>5. CASE statsCompanionReady \/ statsCompanionServiceDied
      <3>1. PICK new : m' = [m EXCEPT !.companion = new]
        BY Zenon, <2>5 DEF statsCompanionReady, statsCompanionServiceDied
      <3> QED BY Zenon, <3>1, <1>0 DEF ManagerOK, ManagerRecord
    <2> QED BY Zenon, <2>1, <2>2, <2>3, <2>4, <2>5
  <1> QED BY Zenon, <1>1, <1>2, <1>3, <1>4, OthersStep

-----------------------------------------------------------------------------
(* The whole.                                                              *)

LEMMA PullersInitially ==
    ASSUME Init PROVE IInv
  <1>1. m.pullers = [u \in Uids |-> IF u \in instance.callbacks THEN NewPuller(1) ELSE None]
    BY Zenon DEF Init
  <1>2. ManagerOK(m) /\ \A u \in Uids : m.pullers[u] # None => CacheOK(m.pullers[u])
    <2>1. m.pullers \in [Uids -> PullerStates \cup {None}]
      BY <1>1, NewPullerState
    <2>2. \A u \in Uids : m.pullers[u] # None => CacheOK(m.pullers[u])
      BY Zenon, <1>1, NewPullerState
    <2> QED BY Zenon, <2>1, <2>2 DEF Init, ManagerOK, ManagerRecord
  <1>3. DataOK
    <2>1. now = Start /\ asked = {} /\ pull = None /\ result = NoResult
      BY Zenon DEF Init
    <2>2. now \in Nat /\ now >= Start
      BY <2>1, PullersAssumption
    <2>3. PullOK /\ ResultOK
      BY Zenon, <2>1 DEF PullOK, ResultOK, PulledDataRight, NoResult
    <2> QED BY Zenon, <1>2, <2>1, <2>2, <2>3 DEF DataOK
  <1>4. LockOK
    <2>1. "mLock" \in Locks
      BY Zenon DEF Locks
    <2>2. owner = [l \in Locks |-> None] /\ onAlarm.at = "idle" /\ puller.at = "idle" /\ pull = None
      BY Zenon DEF Init, Idle
    <2> QED BY Zenon, <2>1, <2>2, NoneIsNoThread DEF LockOK, OwnersOf
  <1>5. ThreadsOK
    BY Zenon DEF Init, Idle, ThreadsOK, CalledRecord, CountsRecord
  <1> QED BY Zenon, <1>3, <1>4, <1>5 DEF IInv

LEMMA PullersNext ==
    ASSUME IInv, [Next]_vars PROVE IInv'
  <1>1. CASE Tick \/ Answer
    <2>1. DataOK' /\ ((pull' # None) = (pull # None)) /\ (pull # None => pull'.by = pull.by)
      BY Zenon, <1>1, TickStep, AnswerStep DEF IInv, Tick
    <2>2. UNCHANGED <<owner, onAlarm, puller, counts>>
      BY Zenon, <1>1 DEF Tick, Answer
    <2> QED BY Zenon, <2>1, <2>2 DEF IInv, LockOK, OwnersOf, ThreadsOK, CalledRecord, CountsRecord
  <1>2. CASE UNCHANGED vars
    <2>1. UNCHANGED <<now, m, owner, onAlarm, puller, pull, asked, result, counts>>
      BY Zenon, <1>2 DEF vars
    <2>2. DataOK'
      BY Zenon, <2>1, DataKept DEF IInv, DataOK
    <2> QED BY Zenon, <2>1, <2>2 DEF IInv, LockOK, OwnersOf, ThreadsOK, CalledRecord, CountsRecord
  <1> QED BY Zenon, <1>1, <1>2, AlarmThreadStep, PullerThreadStep, BeginStep, CallbackStep, RestStep DEF Next

\* Data that a pull returns as good was asked for within the cool down or for
\* the same event, from the puller registered now (StatsPuller::Pull,
\* StatsCallbackPuller::PullInternal and what holds StatsPullerManager::mLock):
\* for any number of uids, configs and metrics and any limits, once the clock
\* has passed the cool down.  Before that a cleared cache counts as fresh.
THEOREM PullsReturnWhatWasAsked ==
    ASSUME cool <= Start PROVE Spec => []PulledDataRight
  <1>1. Init => IInv
    BY Zenon, PullersInitially
  <1>2. IInv /\ [Next]_vars => IInv'
    BY Zenon, PullersNext
  <1>3. IInv => PulledDataRight
    BY Zenon DEF IInv, DataOK, ResultOK
  <1> QED BY <1>1, <1>2, <1>3, PTL DEF Spec

-----------------------------------------------------------------------------
(* Registrations.                                                          *)

\* The puller a live process registered last is the one in force.
CallbacksOK ==
    /\ current = [u \in Uids |-> current[u]]
    /\ \A u \in Uids : current[u] # 0 /\ current[u] \notin dead =>
           m.pullers[u] # None /\ m.pullers[u].id = current[u]

\* While a config's old MetricsManager is being destroyed, with
\* mMetricsMutex held, its new one is the provider already, if there is one.
ProvidersOK ==
    /\ counts.configs \in Nat /\ m.providers \in [Configs -> Nat] /\ manager \in [Configs -> 0..counts.configs]
    /\ config.at # "destroying" => m.providers = manager
    /\ config.at = "destroying" =>
          /\ owner["mMetricsMutex"] = "config" /\ config.config \in Configs
          /\ \A c \in Configs \ {config.config} : m.providers[c] = manager[c]
          /\ \/ manager[config.config] = 0 /\ m.providers[config.config] = config.old
             \/ manager[config.config] # config.old /\ m.providers[config.config] = manager[config.config]

KeptInv == IInv /\ CallbacksOK /\ ProvidersOK

\* Steps that replace no puller and no provider.
LEMMA KeptByOthers ==
    ASSUME KeptInv, IInv', SamePullers, UNCHANGED <<current, config, manager>>, dead \subseteq dead',
           counts'.configs = counts.configs,
           owner["mMetricsMutex"] = "config" => owner'["mMetricsMutex"] = "config"
    PROVE  KeptInv'
  <1>1. CallbacksOK'
    BY Zenon DEF KeptInv, CallbacksOK, SamePullers
  <1>2. ProvidersOK'
    BY Zenon DEF KeptInv, ProvidersOK, SamePullers
  <1> QED BY Zenon, <1>1, <1>2 DEF KeptInv

LEMMA KeptByThreads ==
    ASSUME KeptInv, AlarmThread \/ PullerThread PROVE KeptInv'
  <1>1. IInv' /\ SamePullers
    BY Zenon, AlarmThreadStep, PullerThreadStep DEF KeptInv
  <1>2. UNCHANGED <<current, config, manager, dead, counts>>
    BY Zenon DEF AlarmThread, informPollAlarmFired, informPullAlarmFired, OnAlarmFired, PullForAlarm, FinishForAlarm,
           DeliverToReceiver, NextConfig, AlarmDone, PullerThread, Pull, FinishForEvent, PullReturns, FinishPull
  <1>3. owner["mMetricsMutex"] = "config" => owner'["mMetricsMutex"] = "config"
    <2>1. "mMetricsMutex" \in Locks /\ owner = [l \in Locks |-> owner[l]]
      BY Zenon DEF Locks, KeptInv, IInv, LockOK, OwnersOf
    <2>2. CASE informPullAlarmFired
      BY Zenon, <2>2, PullersAssumption DEF informPullAlarmFired, Free
    <2>3. CASE OnAlarmFired \/ Pull
      BY Zenon, <2>1, <2>3 DEF OnAlarmFired, Pull
    <2>4. CASE AlarmDone \/ PullReturns
      BY Zenon, <2>1, <2>4 DEF AlarmDone, PullReturns
    <2>5. CASE owner' = owner
      BY Zenon, <2>5
    <2> QED BY Zenon, <2>2, <2>3, <2>4, <2>5 DEF AlarmThread, informPollAlarmFired, PullForAlarm, FinishForAlarm,
               DeliverToReceiver, NextConfig, PullerThread, FinishForEvent
  <1> QED BY Zenon, <1>1, <1>2, <1>3, KeptByOthers

\* A callback is replaced, withdrawn, or removed because its process died;
\* only the last could take away the puller of a process that lives.
LEMMA KeptByCallbacks ==
    ASSUME KeptInv, RegisterPullAtomCallback \/ UnregisterPullAtomCallback \/ pullAtomCallbackDied
    PROVE  KeptInv'
  <1>0. /\ IInv' /\ ManagerOK(m) /\ None \notin PullerStates /\ CallbacksOK
        /\ counts.registrations \in Nat
        /\ counts = [registrations |-> counts.registrations, pulls |-> counts.pulls, configs |-> counts.configs]
    BY Zenon, CallbackStep, PullersAssumption DEF KeptInv, IInv, DataOK, ThreadsOK, CalledRecord, CountsRecord
  <1>1. UNCHANGED <<owner, config, manager, dead>>
    BY Zenon DEF RegisterPullAtomCallback, UnregisterPullAtomCallback, pullAtomCallbackDied
  <1>2. CASE RegisterPullAtomCallback
    <2>1. PICK u \in Uids : /\ m' = [m EXCEPT !.pullers[u] = NewPuller(counts.registrations + 1)]
                            /\ current' = [current EXCEPT ![u] = counts.registrations + 1]
                            /\ counts' = [counts EXCEPT !.registrations = counts.registrations + 1]
      BY Zenon, <1>2 DEF RegisterPullAtomCallback
    <2>2. PICK new \in PullerStates : new = NewPuller(counts.registrations + 1) /\ new.id = counts.registrations + 1
      BY <1>0, NewPullerState
    <2>3. m'.pullers = [m.pullers EXCEPT ![u] = new] /\ m'.providers = m.providers /\ counts'.configs = counts.configs
      BY Zenon, <1>0, <2>1, <2>2 DEF ManagerOK, ManagerRecord
    <2>4. CallbacksOK'
      BY Zenon, <1>0, <1>1, <2>1, <2>2, <2>3 DEF CallbacksOK, ManagerOK, ManagerRecord
    <2>5. ProvidersOK'
      BY <1>1, <2>3 DEF KeptInv, ProvidersOK
    <2> QED BY Zenon, <1>0, <2>4, <2>5 DEF KeptInv
  <1>3. CASE UnregisterPullAtomCallback
    <2>1. PICK u \in Uids : m' = [m EXCEPT !.pullers[u] = None] /\ current' = [current EXCEPT ![u] = 0]
      BY Zenon, <1>3 DEF UnregisterPullAtomCallback
    <2>2. m'.pullers = [m.pullers EXCEPT ![u] = None] /\ m'.providers = m.providers /\ counts' = counts
      BY Zenon, <1>0, <1>3, <2>1 DEF ManagerOK, ManagerRecord, UnregisterPullAtomCallback
    <2>3. CallbacksOK'
      BY Zenon, <1>0, <1>1, <2>1, <2>2 DEF CallbacksOK, ManagerOK, ManagerRecord
    <2>4. ProvidersOK'
      BY Zenon, <1>1, <2>2 DEF KeptInv, ProvidersOK
    <2> QED BY Zenon, <1>0, <2>3, <2>4 DEF KeptInv
  <1>4. CASE pullAtomCallbackDied
    <2>1. PICK k \in cookies :
             /\ k.id \in dead
             /\ m' = IF m.pullers[k.uid] # None /\ m.pullers[k.uid].id = k.id
                     THEN [m EXCEPT !.pullers[k.uid] = None] ELSE m
      BY Zenon, <1>4 DEF pullAtomCallbackDied, SamePuller
    <2>2. UNCHANGED <<current, counts>>
      BY Zenon, <1>4 DEF pullAtomCallbackDied
    <2>3. m'.providers = m.providers /\ \A u \in Uids : m'.pullers[u] = m.pullers[u] \/ m.pullers[u].id \in dead
      BY Zenon, <1>0, <2>1 DEF ManagerOK, ManagerRecord
    <2>4. CallbacksOK'
      BY Zenon, <1>0, <1>1, <2>2, <2>3 DEF CallbacksOK
    <2>5. ProvidersOK'
      BY Zenon, <1>1, <2>2, <2>3 DEF KeptInv, ProvidersOK
    <2> QED BY Zenon, <1>0, <2>4, <2>5 DEF KeptInv
  <1> QED BY Zenon, <1>2, <1>3, <1>4

\* The old manager takes itself away as provider only if it still is.
LEMMA KeptByConfigs ==
    ASSUME KeptInv, OnConfigUpdated \/ DestroyOld PROVE KeptInv'
  <1>0. /\ IInv' /\ ManagerOK(m) /\ ProvidersOK /\ "mMetricsMutex" \in Locks /\ owner = [l \in Locks |-> owner[l]]
        /\ counts = [registrations |-> counts.registrations, pulls |-> counts.pulls, configs |-> counts.configs]
    BY Zenon, RestStep DEF KeptInv, IInv, DataOK, LockOK, OwnersOf, ThreadsOK, CalledRecord, CountsRecord, Locks
  <1>1. UNCHANGED <<current, dead>>
    BY Zenon DEF OnConfigUpdated, DestroyOld
  <1>2. CASE OnConfigUpdated
    <2>1. PICK c \in Configs, new \in {0, counts.configs + 1} :
             /\ manager[c] # 0
             /\ owner' = [owner EXCEPT !["mMetricsMutex"] = "config"]
             /\ config' = [at |-> "destroying", config |-> c, old |-> manager[c],
                           receivers |-> {r \in Receivers : Registered(r) /\ ConfigOf[r] = c}]
             /\ manager' = [manager EXCEPT ![c] = new]
             /\ m' = IF new = 0 THEN m ELSE [m EXCEPT !.providers[c] = new]
      BY Zenon, <1>2 DEF OnConfigUpdated
    <2>2. /\ counts' = [counts EXCEPT !.configs = @ + 1] /\ owner["mMetricsMutex"] = None
      BY Zenon, <1>2 DEF OnConfigUpdated, Free
    <2>3. m.providers = manager /\ counts.configs \in Nat /\ counts'.configs = counts.configs + 1
      BY Zenon, <1>0, <2>2, PullersAssumption DEF ProvidersOK
    <2>4. m'.pullers = m.pullers /\ m'.providers = IF new = 0 THEN manager ELSE [manager EXCEPT ![c] = new]
      BY Zenon, <1>0, <2>1, <2>3 DEF ManagerOK, ManagerRecord
    <2>5. config'.at = "destroying" /\ config'.config = c /\ config'.old = manager[c]
      BY Zenon, <2>1
    <2>6. manager[c] \in 0..counts.configs /\ new # manager[c]
      BY <1>0, <2>1, <2>3 DEF ProvidersOK
    <2>7. ProvidersOK'
      <3>1. manager' \in [Configs -> 0..counts'.configs] /\ m'.providers \in [Configs -> Nat]
        BY <1>0, <2>1, <2>3, <2>4 DEF ProvidersOK
      <3>2. \A d \in Configs \ {c} : m'.providers[d] = manager'[d]
        BY Zenon, <1>0, <2>1, <2>4 DEF ProvidersOK
      <3>3. \/ manager'[c] = 0 /\ m'.providers[c] = manager[c]
            \/ manager'[c] # manager[c] /\ m'.providers[c] = manager'[c]
        BY Zenon, <1>0, <2>1, <2>4, <2>6 DEF ProvidersOK
      <3> QED BY <1>0, <2>1, <2>3, <2>5, <3>1, <3>2, <3>3 DEF ProvidersOK
    <2>8. CallbacksOK'
      BY Zenon, <1>1, <2>4 DEF KeptInv, CallbacksOK
    <2> QED BY Zenon, <1>0, <2>7, <2>8 DEF KeptInv
  <1>3. CASE DestroyOld
    <2>1. PICK receivers : receivers = [r \in Receivers |-> IF r \in config.receivers THEN None ELSE m.receivers[r]]
      BY Zenon
    <2>2. /\ config.at = "destroying" /\ config' = Idle /\ UNCHANGED <<manager, counts>>
          /\ m' = [m EXCEPT !.receivers = receivers,
                            !.providers[config.config] = IF m.providers[config.config] = config.old THEN 0 ELSE @]
      BY Zenon, <1>3, <2>1 DEF DestroyOld, SameProvider
    <2>3. PICK p : p = (IF m.providers[config.config] = config.old THEN 0 ELSE m.providers[config.config])
      BY Zenon
    <2>4. m' = [m EXCEPT !.receivers = receivers, !.providers = [m.providers EXCEPT ![config.config] = p]]
      BY Zenon, <1>0, <2>2, <2>3 DEF ManagerOK, ManagerRecord
    <2>5. m'.pullers = m.pullers /\ m'.providers = [m.providers EXCEPT ![config.config] = p]
      BY Zenon, <1>0, <2>4 DEF ManagerOK, ManagerRecord
    <2>6. p = manager[config.config]
      BY Zenon, <1>0, <2>2, <2>3 DEF ProvidersOK
    <2>7. m'.providers = manager
      BY <1>0, <2>2, <2>5, <2>6 DEF ProvidersOK
    <2>8. config'.at = "idle"
      BY Zenon, <2>2 DEF Idle
    <2>9. ProvidersOK'
      BY <1>0, <2>2, <2>7, <2>8 DEF ProvidersOK
    <2>10. CallbacksOK'
      BY Zenon, <1>1, <2>5 DEF KeptInv, CallbacksOK
    <2> QED BY Zenon, <1>0, <2>9, <2>10 DEF KeptInv
  <1> QED BY Zenon, <1>2, <1>3

LEMMA KeptInitially ==
    ASSUME Init PROVE KeptInv
  <1>1. IInv
    BY Zenon, PullersInitially
  <1>2. \A u \in Uids : u \in instance.callbacks => m.pullers[u] # None /\ m.pullers[u].id = 1
    <2>1. NewPuller(1) # None /\ NewPuller(1).id = 1
      BY Zenon, NewPullerState, PullersAssumption
    <2> QED BY Zenon, <2>1 DEF Init
  <1>3. CallbacksOK
    BY Zenon, <1>2 DEF Init, CallbacksOK
  <1>4. ProvidersOK
    <2>1. m.providers = [c \in Configs |-> 1] /\ manager = [c \in Configs |-> 1] /\ counts.configs = 1
      BY Zenon DEF Init
    <2>2. config.at = "idle"
      BY Zenon DEF Init, Idle
    <2> QED BY <2>1, <2>2 DEF ProvidersOK
  <1> QED BY Zenon, <1>1, <1>3, <1>4 DEF KeptInv

LEMMA KeptNext ==
    ASSUME KeptInv, [Next]_vars PROVE KeptInv'
  <1>0. IInv' /\ ManagerOK(m)
    BY Zenon, PullersNext DEF KeptInv, IInv, DataOK
  <1>1. CASE AlarmThread \/ PullerThread
    BY Zenon, <1>1, KeptByThreads
  <1>2. CASE RegisterPullAtomCallback \/ UnregisterPullAtomCallback \/ pullAtomCallbackDied
    BY Zenon, <1>2, KeptByCallbacks
  <1>3. CASE OnConfigUpdated \/ DestroyOld
    BY Zenon, <1>3, KeptByConfigs
  <1>4. CASE ForceClearPullerCache \/ ClearPullerCacheIfNecessary
    <2>1. UNCHANGED <<current, config, manager, dead, counts, owner>>
      BY Zenon, <1>4 DEF ForceClearPullerCache, ClearPullerCacheIfNecessary
    <2>2. None \notin PullerStates /\ \A p \in PullerStates : Cleared(p) \in PullerStates /\ Cleared(p).id = p.id
      BY Zenon, PullersAssumption DEF Cleared, PullerStates
    <2>3. PICK pullers :
             /\ m' = [m EXCEPT !.pullers = pullers]
             /\ \A u \in Uids : pullers[u] = m.pullers[u]
                                \/ (m.pullers[u] # None /\ pullers[u] = Cleared(m.pullers[u]))
      <3>1. CASE ForceClearPullerCache
        <4>1. PICK f : f = [u \in Uids |-> IF m.pullers[u] = None THEN None ELSE Cleared(m.pullers[u])]
          BY Zenon
        <4>2. m' = [m EXCEPT !.pullers = f]
          BY Zenon, <3>1, <4>1 DEF ForceClearPullerCache
        <4>3. \A u \in Uids : f[u] = m.pullers[u] \/ (m.pullers[u] # None /\ f[u] = Cleared(m.pullers[u]))
          BY Zenon, <4>1
        <4> QED BY Zenon, <4>2, <4>3
      <3>2. CASE ClearPullerCacheIfNecessary
        <4>1. PICK f : f = [u \in Uids |->
                   IF m.pullers[u] # None /\ now - m.pullers[u].lastPull > m.pullers[u].coolDown
                   THEN Cleared(m.pullers[u]) ELSE m.pullers[u]]
          BY Zenon
        <4>2. m' = [m EXCEPT !.pullers = f]
          BY Zenon, <3>2, <4>1 DEF ClearPullerCacheIfNecessary
        <4>3. \A u \in Uids : f[u] = m.pullers[u] \/ (m.pullers[u] # None /\ f[u] = Cleared(m.pullers[u]))
          BY Zenon, <4>1
        <4> QED BY Zenon, <4>2, <4>3
      <3> QED BY Zenon, <1>4, <3>1, <3>2
    <2>4. m'.pullers = pullers /\ m'.providers = m.providers
      BY Zenon, <1>0, <2>3 DEF ManagerOK, ManagerRecord
    <2>5. SamePullers
      BY <1>0, <2>2, <2>3, <2>4 DEF SamePullers, ManagerOK, ManagerRecord
    <2> QED BY Zenon, <1>0, <2>1, <2>5, KeptByOthers
  <1>5. CASE Tick \/ Answer \/ AlarmFires \/ ProcessDies \/ SystemServerDies \/ UNCHANGED vars
    <2>1. UNCHANGED <<m, current, config, manager, counts, owner>> /\ dead \subseteq dead'
      BY Zenon, <1>5 DEF Tick, Answer, AlarmFires, ProcessDies, SystemServerDies, vars
    <2> QED BY Zenon, <1>0, <2>1, KeptByOthers DEF SamePullers
  <1>6. CASE ConditionChanges \/ ShellPulls
    <2>1. UNCHANGED <<m, current, config, manager, dead>> /\ counts' = [counts EXCEPT !.pulls = @ + 1]
      BY Zenon, <1>6 DEF ConditionChanges, ShellPulls
    <2>2. counts'.configs = counts.configs
      BY Zenon, <2>1 DEF KeptInv, IInv, ThreadsOK, CalledRecord, CountsRecord
    <2>3. owner["mMetricsMutex"] = "config" => owner'["mMetricsMutex"] = "config"
      BY Zenon, <1>6, PullersAssumption DEF ConditionChanges, ShellPulls, Free
    <2> QED BY Zenon, <1>0, <2>1, <2>2, <2>3, KeptByOthers DEF SamePullers
  <1>7. CASE RegisterReceiver
    <2>1. PICK r, new, next : m' = [m EXCEPT !.receivers[r] = new, !.mNextPullTimeNs = next]
      BY Zenon, <1>7 DEF RegisterReceiver
    <2>2. m'.pullers = m.pullers /\ m'.providers = m.providers
      BY Zenon, <1>0, <2>1 DEF ManagerOK, ManagerRecord
    <2>3. UNCHANGED <<current, config, manager, dead, counts, owner>>
      BY Zenon, <1>7 DEF RegisterReceiver
    <2> QED BY Zenon, <1>0, <2>2, <2>3, KeptByOthers DEF SamePullers
  <1>8. CASE statsCompanionReady \/ statsCompanionServiceDied
    <2>1. PICK new : m' = [m EXCEPT !.companion = new]
      BY Zenon, <1>8 DEF statsCompanionReady, statsCompanionServiceDied
    <2>2. m'.pullers = m.pullers /\ m'.providers = m.providers
      BY Zenon, <1>0, <2>1 DEF ManagerOK, ManagerRecord
    <2>3. UNCHANGED <<current, config, manager, dead, counts, owner>>
      BY Zenon, <1>8 DEF statsCompanionReady, statsCompanionServiceDied
    <2> QED BY Zenon, <1>0, <2>2, <2>3, KeptByOthers DEF SamePullers
  <1> QED BY Zenon, <1>1, <1>2, <1>3, <1>4, <1>5, <1>6, <1>7, <1>8 DEF Next

\* The death of a process never takes away the puller that it registered
\* after a restart (pullAtomCallbackDied compares the puller its cookie names
\* with the one registered), and a MetricsManager that is destroyed never
\* takes away its successor as pull uid provider: for any number of uids,
\* registrations and configs.
THEOREM RegistrationsAreKept == Spec => []RegistrationsKept
  <1>1. Init => KeptInv
    BY Zenon, KeptInitially
  <1>2. KeptInv /\ [Next]_vars => KeptInv'
    BY Zenon, KeptNext
  <1>3. KeptInv => RegistrationsKept
    BY DEF KeptInv, CallbacksOK, ProvidersOK, RegistrationsKept, Idle
  <1> QED BY <1>1, <1>2, <1>3, PTL DEF Spec

-----------------------------------------------------------------------------
(* The alarm, and the receivers it is set for.                             *)

\* The receivers, whose next pull is at most one interval away.
SchedulesOK ==
    /\ m.receivers \in [Receivers -> Schedules \cup {None}]
    /\ m.mNextPullTimeNs \in Nat /\ alarm \in Nat \cup {None}
    /\ \A r \in Receivers : Registered(r) => /\ m.receivers[r].next <= now + Minute + 1
                                             /\ m.receivers[r].interval <= Minute + 1
    /\ onAlarm.at # "idle" => onAlarm.elapsed <= now
    /\ instance.receivers \subseteq Receivers

\* mNextPullTimeNs is no later than any receiver's next pull, except that
\* the alarm's thread has yet to move those that are due and to store the
\* new minimum; it has kept config updates away since before it looked.
NextPullOK ==
    /\ onAlarm.at # "pulling" => \A r \in Receivers : Registered(r) => m.mNextPullTimeNs <= m.receivers[r].next
    /\ onAlarm.at = "locking" => owner["mMetricsMutex"] = "alarm"
    /\ onAlarm.at = "pulling" =>
          /\ owner["mMetricsMutex"] = "alarm" /\ onAlarm.min \in Nat
          /\ onAlarm.due \in SUBSET Receivers
          /\ \A r \in onAlarm.due : /\ Registered(r) /\ m.receivers[r].next <= onAlarm.elapsed
                                    /\ ConfigOf[r] \in onAlarm.todo
          /\ \A r \in Receivers : Registered(r) => r \in onAlarm.due \/ onAlarm.min <= m.receivers[r].next

\* Unless the alarm has just fired, it is set for mNextPullTimeNs or earlier.
AlarmOK ==
    m.companion /\ systemUp /\ ~fired /\ onAlarm.at = "idle" /\ m.mNextPullTimeNs # NO_ALARM_UPDATE =>
        alarm # None /\ alarm * Ms <= m.mNextPullTimeNs

ArmedInv == KeptInv /\ SchedulesOK /\ NextPullOK /\ AlarmOK

-----------------------------------------------------------------------------
(* Times.                                                                  *)

LEMMA Quotient ==
    ASSUME NEW a \in Nat, NEW d \in Nat \ {0}
    PROVE  a \div d \in Nat /\ (a \div d) * d <= a /\ a < (a \div d + 1) * d
  <1>1. /\ a \div d \in Nat /\ a % d \in 0..(d - 1)
        /\ a = (d * (a \div d)) + (a % d)
    OBVIOUS
  <1>2. PICK q \in Nat : q = a \div d
    BY Zenon, <1>1
  <1>3. d * q <= a /\ a < d * q + d
    BY <1>1, <1>2
  <1>4. q * d = d * q /\ (q + 1) * d = d * q + d
    BY <1>2
  <1> QED BY Zenon, <1>2, <1>3, <1>4

LEMMA LesserOf ==
    ASSUME NEW a \in Nat, NEW b \in Nat
    PROVE  Min({a, b}) \in Nat /\ Min({a, b}) \in {a, b} /\ Min({a, b}) <= a /\ Min({a, b}) <= b
  <1>1. {a, b} \in SUBSET Nat /\ {a, b} # {}
    BY Zenon
  <1>2. Min({a, b}) \in {a, b} /\ \A y \in {a, b} : Min({a, b}) <= y
    BY Zenon, <1>1, MinInSet
  <1> QED BY Zenon, <1>2

\* A receiver that is moved on is next pulled for within one interval.
LEMMA NextPullIsNear ==
    ASSUME NEW info \in Schedules, onAlarm.elapsed \in Nat, info.next <= onAlarm.elapsed
    PROVE  NextPull(info) \in Nat /\ NextPull(info) <= onAlarm.elapsed + info.interval
  <1>1. PICK n \in Nat, i \in Nat \ {0}, e \in Nat :
           n = info.next /\ i = info.interval /\ e = onAlarm.elapsed /\ n <= e
    BY Zenon DEF Schedules
  <1>2. PICK a \in Nat : a = e - n
    BY <1>1
  <1>3. PICK q \in Nat : q = a \div i /\ q * i <= a
    BY Zenon, <1>1, <1>2, Quotient
  <1>4. (q + 1) * i = q * i + i /\ q * i \in Nat
    BY <1>1, <1>3
  <1>5. NextPull(info) = n + (q + 1) * i
    BY Zenon, <1>1, <1>2, <1>3 DEF NextPull
  <1> QED BY <1>1, <1>2, <1>3, <1>4, <1>5

LEMMA RoundedInterval ==
    ASSUME NEW interval \in {1, Minute + 1}
    PROVE  Rounded(interval) \in Nat \ {0} /\ Rounded(interval) <= Minute + 1
  <1>1. Minute \in Nat \ {0} /\ interval \in Nat /\ interval <= Minute + 1
    BY PullersAssumption
  <1>2. PICK q \in Nat : q = interval \div Minute /\ q * Minute <= interval
    BY Zenon, <1>1, Quotient
  <1>3. PICK x \in Nat : x = q * Minute /\ x <= Minute + 1
    BY <1>1, <1>2
  <1>4. \E y \in {Minute, x} : \A z \in {Minute, x} : y >= z
    BY <1>1, <1>3
  <1>5. Max({Minute, x}) \in {Minute, x} /\ \A z \in {Minute, x} : Max({Minute, x}) >= z
    BY Zenon, <1>4, Zenon DEF Max
  <1>6. Rounded(interval) = Max({Minute, x})
    BY Zenon, <1>2, <1>3 DEF Rounded
  <1> QED BY <1>1, <1>3, <1>5, <1>6

\* What updateAlarmLocked sets.
LEMMA AlarmIsSet ==
    ASSUME NEW mm, mm.mNextPullTimeNs \in Nat, alarm \in Nat \cup {None}, alarm' = updateAlarmLocked(mm)
    PROVE  /\ alarm' \in Nat \cup {None}
           /\ mm.companion /\ systemUp /\ mm.mNextPullTimeNs # NO_ALARM_UPDATE =>
                 alarm' # None /\ alarm' * Ms <= mm.mNextPullTimeNs
  <1>1. Ms \in Nat \ {0} /\ None \notin Nat
    BY Zenon, PullersAssumption
  <1>2. PICK t \in Nat : t = mm.mNextPullTimeNs
    BY Zenon
  <1>3. PICK q \in Nat : q = t \div Ms /\ q * Ms <= t
    BY Zenon, <1>1, Quotient
  <1>4. alarm' = IF t = NO_ALARM_UPDATE \/ ~mm.companion \/ ~systemUp THEN alarm ELSE q
    BY Zenon, <1>2, <1>3 DEF updateAlarmLocked
  <1> QED BY Zenon, <1>1, <1>2, <1>3, <1>4

-----------------------------------------------------------------------------
(* The steps.                                                              *)

SameReceivers ==
    m'.receivers = m.receivers /\ m'.mNextPullTimeNs = m.mNextPullTimeNs /\ m'.companion = m.companion

\* Steps that touch neither the receivers nor the alarm.
LEMMA ArmedByOthers ==
    ASSUME ArmedInv, KeptInv', SameReceivers, now' \in {now, now + 1}, UNCHANGED <<alarm, onAlarm, systemUp, fired, instance>>,
           owner["mMetricsMutex"] = "alarm" => owner'["mMetricsMutex"] = "alarm"
    PROVE  ArmedInv'
  <1>1. now \in Nat /\ now <= now' /\ now' \in Nat /\ Minute \in Nat
    BY PullersAssumption DEF ArmedInv, KeptInv, IInv, DataOK
  <1>2. SchedulesOK'
    <2>1. \A r \in Receivers : Registered(r)' =>
             m'.receivers[r].next <= now' + Minute + 1 /\ m'.receivers[r].interval <= Minute + 1
      BY <1>1 DEF ArmedInv, SchedulesOK, SameReceivers, Registered, Schedules
    <2>2. onAlarm'.at # "idle" => onAlarm'.elapsed <= now'
      BY <1>1 DEF ArmedInv, SchedulesOK, KeptInv, IInv, ThreadsOK
    <2> QED BY Zenon, <2>1, <2>2 DEF ArmedInv, SchedulesOK, SameReceivers
  <1>3. NextPullOK'
    BY Zenon DEF ArmedInv, NextPullOK, SameReceivers, Registered
  <1>4. AlarmOK'
    BY Zenon DEF ArmedInv, AlarmOK, SameReceivers
  <1> QED BY Zenon, <1>2, <1>3, <1>4 DEF ArmedInv

\* A pull changes a puller, not the receivers.
LEMMA StartSameReceivers ==
    ASSUME ManagerOK(m), NEW by, NEW uids, NEW event, StartPull(by, uids, event) PROVE SameReceivers
  <1>1. PICK u : u = uids[Min({i \in DOMAIN uids : m.pullers[uids[i]] # None})]
    BY Zenon
  <1>2. m' = m \/ \E p : m' = [m EXCEPT !.pullers[u] = p]
    BY Zenon, <1>1 DEF StartPull
  <1> QED BY Zenon, <1>2 DEF ManagerOK, ManagerRecord, SameReceivers

LEMMA FinishSameReceivers ==
    ASSUME ManagerOK(m), NEW by, FinishPull(by) PROVE SameReceivers
  <1>1. PICK good, data : m' = [m EXCEPT !.pullers[pull.uid].good = good, !.pullers[pull.uid].cached = data]
    BY Zenon DEF FinishPull
  <1> QED BY Zenon, <1>1 DEF ManagerOK, ManagerRecord, SameReceivers

\* A thread that holds mMetricsMutex is the only one, so no config is being
\* destroyed while the alarm's thread does.
LEMMA NoneGone ==
    ASSUME ArmedInv, onAlarm.at = "pulling", NEW r PROVE ~Gone(r)
  <1>1. owner["mMetricsMutex"] = "alarm"
    BY Zenon DEF ArmedInv, NextPullOK
  <1>2. config.at # "destroying"
    BY Zenon, <1>1 DEF ArmedInv, KeptInv, ProvidersOK
  <1> QED BY Zenon, <1>2 DEF Gone

\* The alarm's thread up to the pulls: it looks for receivers that are due.
LEMMA ArmedWhileCalled ==
    ASSUME ArmedInv, KeptInv', informPollAlarmFired \/ informPullAlarmFired \/ OnAlarmFired PROVE ArmedInv'
  <1>0. /\ now \in Nat /\ UNCHANGED <<now, m, alarm, systemUp, instance>> /\ "mMetricsMutex" \in Locks
        /\ OwnersOf(owner)
    <2>1. now \in Nat /\ OwnersOf(owner) /\ "mMetricsMutex" \in Locks
      BY Zenon DEF ArmedInv, KeptInv, IInv, DataOK, LockOK, Locks
    <2>2. UNCHANGED <<now, m, alarm, systemUp, instance>>
      BY Zenon DEF informPollAlarmFired, informPullAlarmFired, OnAlarmFired
    <2> QED BY Zenon, <2>1, <2>2
  <1>1. CASE informPollAlarmFired
    <2>1. onAlarm = Idle /\ onAlarm' = [at |-> "called", elapsed |-> now] /\ owner' = owner
      BY Zenon, <1>1 DEF informPollAlarmFired
    <2>2. onAlarm.at = "idle" /\ onAlarm'.at = "called" /\ onAlarm'.elapsed = now
      BY Zenon, <2>1 DEF Idle
    <2>3. SchedulesOK'
      BY <1>0, <2>2 DEF ArmedInv, SchedulesOK, Registered
    <2>4. NextPullOK' /\ AlarmOK'
      BY Zenon, <1>0, <2>2 DEF ArmedInv, NextPullOK, AlarmOK, Registered
    <2> QED BY Zenon, <2>3, <2>4 DEF ArmedInv
  <1>2. CASE informPullAlarmFired
    <2>1. /\ onAlarm.at = "called" /\ onAlarm' = [onAlarm EXCEPT !.at = "locking"]
          /\ owner' = [owner EXCEPT !["mMetricsMutex"] = "alarm"]
      BY Zenon, <1>2 DEF informPullAlarmFired
    <2>2. onAlarm'.at = "locking" /\ onAlarm'.elapsed = onAlarm.elapsed /\ owner'["mMetricsMutex"] = "alarm"
      BY Zenon, <1>0, <2>1 DEF ArmedInv, KeptInv, IInv, ThreadsOK, CalledRecord, OwnersOf
    <2>3. SchedulesOK'
      BY Zenon, <1>0, <2>1, <2>2 DEF ArmedInv, SchedulesOK, Registered
    <2>4. NextPullOK' /\ AlarmOK'
      BY Zenon, <1>0, <2>1, <2>2 DEF ArmedInv, NextPullOK, AlarmOK, Registered
    <2> QED BY Zenon, <2>3, <2>4 DEF ArmedInv
  <1>3. CASE OnAlarmFired
    <2>1. PICK due : due = {r \in Receivers : Registered(r) /\ m.receivers[r].next <= onAlarm.elapsed}
      BY Zenon
    <2>2. PICK nexts : nexts = {NO_ALARM_UPDATE} \cup {m.receivers[r].next : r \in {r \in Receivers : Registered(r)} \ due}
      BY Zenon
    <2>3. \A r \in Receivers : Registered(r) => m.receivers[r].next \in Nat
      BY Zenon DEF ArmedInv, SchedulesOK, Registered, Schedules
    <2>4. nexts \in SUBSET Nat /\ nexts # {}
      BY <2>2, <2>3 DEF NO_ALARM_UPDATE
    <2>5. PICK min \in Nat : min = Min(nexts) /\ \A y \in nexts : min <= y
      BY Zenon, <2>4, MinInSet
    <2>6. onAlarm' = [at |-> "pulling", elapsed |-> onAlarm.elapsed, due |-> due,
                      todo |-> {ConfigOf[r] : r \in due}, config |-> None, min |-> min]
      BY Zenon, <1>3, <2>1, <2>2, <2>5 DEF OnAlarmFired
    <2>7. onAlarm.at = "locking" /\ owner' = [owner EXCEPT !["mLock"] = "alarm"]
      BY Zenon, <1>3 DEF OnAlarmFired
    <2>8. owner'["mMetricsMutex"] = "alarm"
      BY Zenon, <1>0, <2>7 DEF ArmedInv, NextPullOK, OwnersOf
    <2>9. /\ onAlarm'.at = "pulling" /\ onAlarm'.elapsed = onAlarm.elapsed /\ onAlarm'.due = due
          /\ onAlarm'.todo = {ConfigOf[r] : r \in due} /\ onAlarm'.min = min
      BY Zenon, <2>6
    <2>10. SchedulesOK'
      BY Zenon, <1>0, <2>7, <2>9 DEF ArmedInv, SchedulesOK, Registered
    <2>11. \A r \in Receivers : Registered(r) => r \in due \/ min <= m.receivers[r].next
      BY Zenon, <2>2, <2>5
    <2>12. NextPullOK'
      BY Zenon, <1>0, <2>1, <2>5, <2>8, <2>9, <2>11 DEF NextPullOK, Registered
    <2>13. AlarmOK'
      BY Zenon, <2>9 DEF AlarmOK
    <2> QED BY Zenon, <2>10, <2>12, <2>13 DEF ArmedInv
  <1> QED BY Zenon, <1>1, <1>2, <1>3

\* The alarm's thread while it pulls: every receiver that was due is moved
\* on and its new time is taken into the minimum.
LEMMA ArmedWhilePulling ==
    ASSUME ArmedInv, KeptInv', PullForAlarm \/ FinishForAlarm \/ DeliverToReceiver \/ NextConfig PROVE ArmedInv'
  <1>0. /\ now \in Nat /\ ManagerOK(m) /\ UNCHANGED <<now, alarm, fired, systemUp, owner, instance>>
    BY Zenon DEF ArmedInv, KeptInv, IInv, DataOK, PullForAlarm, FinishForAlarm, FinishPull, DeliverToReceiver, NextConfig
  <1>1. CASE PullForAlarm
    <2>1. PICK c : StartPull("alarm", UidsOf(c), onAlarm.elapsed) /\ onAlarm' = [onAlarm EXCEPT !.config = c]
      BY Zenon, <1>1 DEF PullForAlarm
    <2>2. SameReceivers
      BY Zenon, <1>0, <2>1, StartSameReceivers
    <2>3. onAlarm.at = "pulling"
      BY Zenon, <1>1 DEF PullForAlarm
    <2>4. /\ onAlarm'.at = "pulling" /\ onAlarm'.elapsed = onAlarm.elapsed /\ onAlarm'.due = onAlarm.due
          /\ onAlarm'.todo = onAlarm.todo /\ onAlarm'.min = onAlarm.min
      BY Zenon, <2>1, <2>3 DEF ArmedInv, KeptInv, IInv, ThreadsOK, Pulling
    <2>5. SchedulesOK'
      BY Zenon, <1>0, <2>2, <2>3, <2>4 DEF ArmedInv, SchedulesOK, SameReceivers, Registered
    <2>6. NextPullOK' /\ AlarmOK'
      BY Zenon, <1>0, <2>2, <2>3, <2>4 DEF ArmedInv, NextPullOK, AlarmOK, SameReceivers, Registered
    <2> QED BY Zenon, <2>5, <2>6 DEF ArmedInv
  <1>2. CASE FinishForAlarm
    <2>1. SameReceivers /\ onAlarm' = onAlarm
      BY Zenon, <1>0, <1>2, FinishSameReceivers DEF FinishForAlarm
    <2> QED BY Zenon, <1>0, <2>1, ArmedByOthers
  <1>3. CASE DeliverToReceiver
    <2>1. onAlarm.at = "pulling"
      BY Zenon, <1>3 DEF DeliverToReceiver
    <2>2. PICK r \in onAlarm.due :
             /\ m' = [m EXCEPT !.receivers[r].next = NextPull(m.receivers[r])]
             /\ onAlarm' = [onAlarm EXCEPT !.due = @ \ {r}, !.min = Min({@, NextPull(m.receivers[r])})]
      BY Zenon, <1>3, <2>1, NoneGone DEF DeliverToReceiver
    <2>3. /\ r \in Receivers /\ m.receivers[r] \in Schedules /\ m.receivers[r].next <= onAlarm.elapsed
          /\ m.receivers[r].interval <= Minute + 1 /\ onAlarm.elapsed \in Nat /\ onAlarm.elapsed <= now
          /\ onAlarm.min \in Nat /\ Minute \in Nat
      BY Zenon, <2>1, PullersAssumption DEF ArmedInv, SchedulesOK, NextPullOK, Registered, KeptInv, IInv, ThreadsOK
    <2>4. PICK next \in Nat : next = NextPull(m.receivers[r]) /\ next <= onAlarm.elapsed + m.receivers[r].interval
      BY Zenon, <2>3, NextPullIsNear
    <2>5. PICK min \in Nat : min = Min({onAlarm.min, next}) /\ min <= onAlarm.min /\ min <= next
      BY Zenon, <2>3, LesserOf
    <2>6. PICK new \in Schedules : new = [m.receivers[r] EXCEPT !.next = next] /\ new.next = next
                                   /\ new.interval = m.receivers[r].interval
      <3>1. PICK old \in Schedules : old = m.receivers[r]
        BY Zenon, <2>3
      <3>2. [old EXCEPT !.next = next] = [next |-> next, interval |-> old.interval]
        BY DEF Schedules
      <3>3. [next |-> next, interval |-> old.interval] \in Schedules
        BY Zenon DEF Schedules
      <3> QED BY Zenon, <3>1, <3>2, <3>3
    <2>6a. /\ min \in Nat /\ min <= onAlarm.min /\ min <= next
           /\ new \in Schedules /\ new.next = next /\ new.interval = m.receivers[r].interval
      BY Zenon, <2>5, <2>6
    <2>7. /\ m'.receivers = [m.receivers EXCEPT ![r] = new] /\ m'.mNextPullTimeNs = m.mNextPullTimeNs
      BY Zenon, <1>0, <2>2, <2>4, <2>6 DEF ManagerOK, ManagerRecord
    <2>8. /\ onAlarm'.at = "pulling" /\ onAlarm'.elapsed = onAlarm.elapsed /\ onAlarm'.due = onAlarm.due \ {r}
          /\ onAlarm'.todo = onAlarm.todo /\ onAlarm'.min = min
      BY Zenon, <2>1, <2>2, <2>4, <2>5 DEF ArmedInv, KeptInv, IInv, ThreadsOK, Pulling
    <2>9. \A s \in Receivers : m'.receivers[s] = IF s = r THEN new ELSE m.receivers[s]
      BY Zenon, <2>3, <2>7 DEF ArmedInv, SchedulesOK
    <2>10. new.next <= now + Minute + 1 /\ new # None
      <3>1. new # None
        BY Zenon, PullersAssumption
      <3>2. PICK e \in Nat, i \in Nat : e = onAlarm.elapsed /\ i = m.receivers[r].interval
        BY Zenon, <2>3 DEF Schedules
      <3>3. next <= e + i /\ e <= now /\ i <= Minute + 1
        BY Zenon, <2>3, <2>4, <3>2
      <3> QED BY <1>0, <2>3, <2>6a, <3>1, <3>2, <3>3
    <2>11. SchedulesOK'
      <3>1. m'.receivers \in [Receivers -> Schedules \cup {None}]
        BY Zenon, <2>3, <2>7 DEF ArmedInv, SchedulesOK
      <3>2. \A s \in Receivers : Registered(s)' =>
               m'.receivers[s].next <= now' + Minute + 1 /\ m'.receivers[s].interval <= Minute + 1
        BY Zenon, <1>0, <2>3, <2>6a, <2>9, <2>10 DEF ArmedInv, SchedulesOK, Registered
      <3> QED BY Zenon, <1>0, <2>3, <2>7, <2>8, <3>1, <3>2 DEF ArmedInv, SchedulesOK
    <2>12. NextPullOK'
      <3>1. owner'["mMetricsMutex"] = "alarm" /\ onAlarm'.min \in Nat /\ onAlarm'.due \in SUBSET Receivers
        BY Zenon, <1>0, <2>1, <2>6a, <2>8 DEF ArmedInv, NextPullOK
      <3>2. \A s \in onAlarm'.due : Registered(s)' /\ m'.receivers[s].next <= onAlarm'.elapsed /\ ConfigOf[s] \in onAlarm'.todo
        BY Zenon, <2>1, <2>8, <2>9 DEF ArmedInv, NextPullOK, Registered
      <3>3. ASSUME NEW s \in Receivers, Registered(s)', s \notin onAlarm'.due PROVE onAlarm'.min <= m'.receivers[s].next
        <4>1. CASE s = r
          <5>1. m'.receivers[s].next = next
            BY Zenon, <2>6a, <2>9, <4>1
          <5> QED BY Zenon, <2>6a, <2>8, <5>1
        <4>2. CASE s # r
          <5>1. Registered(s) /\ m'.receivers[s] = m.receivers[s] /\ s \notin onAlarm.due
            BY Zenon, <2>8, <2>9, <3>3, <4>2 DEF Registered
          <5>2. onAlarm.min <= m.receivers[s].next /\ m.receivers[s].next \in Nat
            BY Zenon, <2>1, <5>1 DEF ArmedInv, NextPullOK, SchedulesOK, Schedules, Registered
          <5> QED BY <2>3, <2>6a, <2>8, <5>1, <5>2
        <4> QED BY Zenon, <4>1, <4>2
      <3> QED BY Zenon, <2>8, <3>1, <3>2, <3>3 DEF NextPullOK
    <2>13. AlarmOK'
      BY Zenon, <2>8 DEF AlarmOK
    <2> QED BY Zenon, <2>11, <2>12, <2>13 DEF ArmedInv
  <1>4. CASE NextConfig
    <2>1. /\ onAlarm.at = "pulling" /\ m' = m
          /\ \A r \in onAlarm.due : ConfigOf[r] # onAlarm.config
          /\ onAlarm' = [onAlarm EXCEPT !.config = None, !.todo = @ \ {onAlarm.config}]
      BY Zenon, <1>4 DEF NextConfig
    <2>2. /\ onAlarm'.at = "pulling" /\ onAlarm'.elapsed = onAlarm.elapsed /\ onAlarm'.due = onAlarm.due
          /\ onAlarm'.todo = onAlarm.todo \ {onAlarm.config} /\ onAlarm'.min = onAlarm.min
      BY Zenon, <2>1 DEF ArmedInv, KeptInv, IInv, ThreadsOK, Pulling
    <2>3. SchedulesOK'
      BY Zenon, <1>0, <2>1, <2>2 DEF ArmedInv, SchedulesOK, Registered
    <2>4. NextPullOK' /\ AlarmOK'
      BY Zenon, <1>0, <2>1, <2>2 DEF ArmedInv, NextPullOK, AlarmOK, Registered
    <2> QED BY Zenon, <2>3, <2>4 DEF ArmedInv
  <1> QED BY Zenon, <1>1, <1>2, <1>3, <1>4

\* At the end of OnAlarmFired nothing is due any more and the alarm is set.
LEMMA ArmedWhenDone ==
    ASSUME ArmedInv, KeptInv', AlarmDone PROVE ArmedInv'
  <1>1. /\ onAlarm.at = "pulling" /\ onAlarm.todo = {} /\ onAlarm' = Idle
        /\ m' = [m EXCEPT !.mNextPullTimeNs = onAlarm.min]
        /\ UNCHANGED <<now, fired, systemUp, instance>> /\ alarm' = updateAlarmLocked(m')
    BY Zenon DEF AlarmDone
  <1>2. /\ m'.receivers = m.receivers /\ m'.mNextPullTimeNs = onAlarm.min /\ onAlarm'.at = "idle"
    BY <1>1 DEF ArmedInv, KeptInv, IInv, DataOK, ManagerOK, Idle
  <1>3. onAlarm.min \in Nat /\ \A r \in Receivers : Registered(r) => onAlarm.min <= m.receivers[r].next
    BY Zenon, <1>1 DEF ArmedInv, NextPullOK
  <1>4. /\ alarm' \in Nat \cup {None}
        /\ m'.companion /\ systemUp /\ m'.mNextPullTimeNs # NO_ALARM_UPDATE =>
              alarm' # None /\ alarm' * Ms <= m'.mNextPullTimeNs
    BY Zenon, <1>1, <1>2, <1>3, AlarmIsSet DEF ArmedInv, SchedulesOK
  <1>5. SchedulesOK'
    BY Zenon, <1>1, <1>2, <1>3, <1>4 DEF ArmedInv, SchedulesOK, Registered
  <1>6. NextPullOK'
    BY Zenon, <1>2, <1>3 DEF NextPullOK, Registered
  <1>7. AlarmOK'
    BY Zenon, <1>1, <1>4 DEF AlarmOK
  <1> QED BY Zenon, <1>5, <1>6, <1>7 DEF ArmedInv

\* A new receiver: the alarm is moved forward for it, or is early enough.
LEMMA ArmedByRegistration ==
    ASSUME ArmedInv, KeptInv', RegisterReceiver PROVE ArmedInv'
  <1>1. PICK r \in Receivers, next \in now + 1 .. now + 2, interval \in {1, Minute + 1} :
           /\ m' = [m EXCEPT !.receivers[r] = [next |-> next, interval |-> Rounded(interval)],
                             !.mNextPullTimeNs = Min({@, next})]
           /\ alarm' = IF next < m.mNextPullTimeNs THEN updateAlarmLocked(m') ELSE alarm
    <2>1. PICK r \in instance.receivers, next \in now + 1 .. now + 2, interval \in {1, Minute + 1} :
             /\ m' = [m EXCEPT !.receivers[r] = [next |-> next, interval |-> Rounded(interval)],
                               !.mNextPullTimeNs = Min({@, next})]
             /\ alarm' = IF next < m.mNextPullTimeNs THEN updateAlarmLocked(m') ELSE alarm
      BY Zenon DEF RegisterReceiver
    <2>2. instance.receivers \subseteq Receivers
      BY Zenon DEF ArmedInv, SchedulesOK
    <2> QED BY Zenon, <2>1, <2>2
  <1>2. /\ now \in Nat /\ Minute \in Nat \ {0} /\ UNCHANGED <<now, fired, onAlarm, systemUp, instance>>
        /\ m.mNextPullTimeNs \in Nat /\ next \in Nat /\ next <= now + Minute + 1 /\ None \notin Schedules
        /\ alarm \in Nat \cup {None}
    <2>1. now \in Nat /\ m.mNextPullTimeNs \in Nat /\ alarm \in Nat \cup {None}
      BY Zenon DEF ArmedInv, KeptInv, IInv, DataOK, SchedulesOK
    <2>2. UNCHANGED <<now, fired, onAlarm, systemUp, instance>>
      BY Zenon DEF RegisterReceiver
    <2>3. Minute \in Nat \ {0} /\ None \notin Schedules
      BY Zenon, PullersAssumption
    <2>4. next \in Nat /\ next <= now + 2
      BY <2>1
    <2> QED BY <2>1, <2>2, <2>3, <2>4
  <1>3. PICK new \in Schedules : new = [next |-> next, interval |-> Rounded(interval)]
                                 /\ new.next = next /\ new.interval <= Minute + 1
    <2>1. PICK i \in Nat \ {0} : i = Rounded(interval) /\ i <= Minute + 1
      BY Zenon, RoundedInterval
    <2>2. [next |-> next, interval |-> i] \in Schedules
      BY Zenon, <1>2 DEF Schedules
    <2> QED BY Zenon, <2>1, <2>2
  <1>4. PICK min \in Nat : min = Min({m.mNextPullTimeNs, next}) /\ min \in {m.mNextPullTimeNs, next}
                           /\ min <= m.mNextPullTimeNs /\ min <= next
    BY Zenon, <1>2, LesserOf
  <1>4a. /\ min \in Nat /\ min <= m.mNextPullTimeNs /\ min <= next
         /\ new \in Schedules /\ new.next = next /\ new.interval <= Minute + 1
    BY Zenon, <1>3, <1>4
  <1>5. m' = [m EXCEPT !.receivers[r] = new, !.mNextPullTimeNs = min]
    BY Zenon, <1>1, <1>3, <1>4
  <1>6. /\ m'.receivers = [m.receivers EXCEPT ![r] = new] /\ m'.mNextPullTimeNs = min /\ m'.companion = m.companion
    BY <1>5 DEF ArmedInv, KeptInv, IInv, DataOK, ManagerOK
  <1>7. \A s \in Receivers : m'.receivers[s] = IF s = r THEN new ELSE m.receivers[s]
    BY Zenon, <1>6 DEF ArmedInv, SchedulesOK
  <1>8. onAlarm.at # "pulling" /\ (onAlarm.at = "locking" => owner' = owner)
    BY Zenon, PullersAssumption DEF RegisterReceiver, Free, ArmedInv, KeptInv, IInv, LockOK
  <1>9. alarm' \in Nat \cup {None} /\ AlarmOK'
    <2>1. CASE next < m.mNextPullTimeNs
      <3>1. alarm' = updateAlarmLocked(m')
        BY Zenon, <1>1, <2>1
      <3> QED BY Zenon, <1>2, <1>6, <3>1, AlarmIsSet DEF AlarmOK
    <2>2. CASE ~(next < m.mNextPullTimeNs)
      <3>1. min = m.mNextPullTimeNs /\ alarm' = alarm
        BY <1>1, <1>2, <1>4, <2>2
      <3> QED BY Zenon, <1>2, <1>6, <3>1 DEF ArmedInv, AlarmOK
    <2> QED BY Zenon, <2>1, <2>2
  <1>10. SchedulesOK'
    <2>1. m'.receivers \in [Receivers -> Schedules \cup {None}]
      BY Zenon, <1>6 DEF ArmedInv, SchedulesOK
    <2>2. \A s \in Receivers : Registered(s)' =>
             m'.receivers[s].next <= now' + Minute + 1 /\ m'.receivers[s].interval <= Minute + 1
      BY <1>2, <1>4a, <1>7 DEF ArmedInv, SchedulesOK, Registered
    <2> QED BY Zenon, <1>2, <1>6, <1>9, <2>1, <2>2 DEF ArmedInv, SchedulesOK
  <1>11. NextPullOK'
    <2>1. ASSUME NEW s \in Receivers, Registered(s)' PROVE min <= m'.receivers[s].next
      <3>1. CASE s = r
        BY Zenon, <1>4a, <1>7, <3>1
      <3>2. CASE s # r
        <4>1. m'.receivers[s] = m.receivers[s] /\ Registered(s)
          BY Zenon, <1>7, <2>1, <3>2 DEF Registered
        <4>2. m.mNextPullTimeNs <= m.receivers[s].next /\ m.receivers[s].next \in Nat
          BY Zenon, <1>8, <4>1 DEF ArmedInv, NextPullOK, SchedulesOK, Schedules, Registered
        <4> QED BY <1>2, <1>4a, <4>1, <4>2
      <3> QED BY Zenon, <3>1, <3>2
    <2>2. onAlarm.at = "locking" => owner'["mMetricsMutex"] = "alarm"
      BY Zenon, <1>8 DEF ArmedInv, NextPullOK
    <2> QED BY Zenon, <1>2, <1>6, <1>8, <2>1, <2>2 DEF NextPullOK
  <1> QED BY Zenon, <1>9, <1>10, <1>11 DEF ArmedInv

\* A config's receivers leave; the alarm stays and may find nothing to do.
LEMMA ArmedByConfigs ==
    ASSUME ArmedInv, KeptInv', OnConfigUpdated \/ DestroyOld PROVE ArmedInv'
  <1>0. /\ now \in Nat /\ ManagerOK(m) /\ UNCHANGED <<now, alarm, fired, onAlarm, systemUp, instance>>
    BY Zenon DEF ArmedInv, KeptInv, IInv, DataOK, OnConfigUpdated, DestroyOld
  <1>1. CASE OnConfigUpdated
    <2>1. m' = m \/ \E c, new : m' = [m EXCEPT !.providers[c] = new]
      BY Zenon, <1>1 DEF OnConfigUpdated
    <2>2. SameReceivers
      BY Zenon, <1>0, <2>1 DEF ManagerOK, ManagerRecord, SameReceivers
    <2>3. owner["mMetricsMutex"] # "alarm"
      BY Zenon, <1>1, NoneIsNoThread DEF OnConfigUpdated, Free
    <2> QED BY Zenon, <1>0, <2>2, <2>3, ArmedByOthers
  <1>2. CASE DestroyOld
    <2>1. PICK receivers : receivers = [r \in Receivers |-> IF r \in config.receivers THEN None ELSE m.receivers[r]]
      BY Zenon
    <2>2. PICK new : m' = [m EXCEPT !.receivers = receivers, !.providers[config.config] = new]
      BY Zenon, <1>2, <2>1 DEF DestroyOld
    <2>3. m'.receivers = receivers /\ m'.mNextPullTimeNs = m.mNextPullTimeNs /\ m'.companion = m.companion
      BY Zenon, <1>0, <2>2 DEF ManagerOK, ManagerRecord
    <2>4. config.at = "destroying"
      BY Zenon, <1>2 DEF DestroyOld
    <2>5. owner["mMetricsMutex"] = "config"
      BY Zenon, <2>4 DEF ArmedInv, KeptInv, ProvidersOK
    <2>6. onAlarm.at \notin {"locking", "pulling"}
      BY Zenon, <2>5 DEF ArmedInv, NextPullOK
    <2>7. \A r \in Receivers : m'.receivers[r] \in {None, m.receivers[r]}
      BY Zenon, <2>1, <2>3
    <2>8. SchedulesOK'
      <3>1. m'.receivers \in [Receivers -> Schedules \cup {None}]
        BY <2>1, <2>3 DEF ArmedInv, SchedulesOK
      <3>2. instance' = instance
        BY Zenon, <1>2 DEF DestroyOld
      <3> QED BY Zenon, <1>0, <2>3, <2>7, <3>1, <3>2 DEF ArmedInv, SchedulesOK, Registered
    <2>9. NextPullOK'
      BY Zenon, <1>0, <2>3, <2>6, <2>7 DEF ArmedInv, NextPullOK, Registered
    <2>10. AlarmOK'
      BY Zenon, <1>0, <2>3 DEF ArmedInv, AlarmOK
    <2> QED BY Zenon, <2>8, <2>9, <2>10 DEF ArmedInv
  <1> QED BY Zenon, <1>1, <1>2

\* The system server dies with its alarms, and a new one sets them again;
\* the alarm fires.
LEMMA ArmedBySystemServer ==
    ASSUME ArmedInv, KeptInv', AlarmFires \/ SystemServerDies \/ statsCompanionServiceDied \/ statsCompanionReady
    PROVE  ArmedInv'
  <1>0. /\ ManagerOK(m) /\ UNCHANGED <<now, onAlarm, owner, instance>> /\ m.mNextPullTimeNs \in Nat /\ alarm \in Nat \cup {None}
    BY Zenon DEF ArmedInv, KeptInv, IInv, DataOK, SchedulesOK, AlarmFires, SystemServerDies, statsCompanionServiceDied,
           statsCompanionReady
  <1>1. /\ m'.receivers = m.receivers /\ m'.mNextPullTimeNs = m.mNextPullTimeNs
    <2>1. m' = m \/ \E new : m' = [m EXCEPT !.companion = new]
      BY Zenon DEF AlarmFires, SystemServerDies, statsCompanionServiceDied, statsCompanionReady
    <2> QED BY Zenon, <1>0, <2>1 DEF ManagerOK, ManagerRecord
  <1>2. alarm' \in Nat \cup {None} /\ AlarmOK'
    <2>1. CASE AlarmFires
      BY Zenon, <2>1 DEF AlarmFires, AlarmOK
    <2>2. CASE SystemServerDies
      BY Zenon, <2>2 DEF SystemServerDies, AlarmOK
    <2>3. CASE statsCompanionServiceDied
      <3>1. m'.companion = FALSE /\ alarm' = alarm
        BY <1>0, <2>3 DEF statsCompanionServiceDied, ManagerOK
      <3> QED BY Zenon, <1>0, <3>1 DEF AlarmOK
    <2>4. CASE statsCompanionReady
      <3>1. alarm' = updateAlarmLocked(m') /\ systemUp' = systemUp
        BY Zenon, <2>4 DEF statsCompanionReady, ReadyAlarm
      <3> QED BY Zenon, <1>0, <1>1, <3>1, AlarmIsSet DEF AlarmOK
    <2> QED BY Zenon, <2>1, <2>2, <2>3, <2>4
  <1>3. SchedulesOK'
    BY Zenon, <1>0, <1>1, <1>2 DEF ArmedInv, SchedulesOK, Registered
  <1>4. NextPullOK'
    BY Zenon, <1>0, <1>1 DEF ArmedInv, NextPullOK, Registered
  <1> QED BY Zenon, <1>2, <1>3, <1>4 DEF ArmedInv

LEMMA ArmedByPullers ==
    ASSUME ArmedInv, KeptInv', PullerThread PROVE ArmedInv'
  <1>0. /\ ManagerOK(m) /\ UNCHANGED <<now, alarm, fired, onAlarm, systemUp, instance>>
        /\ "mMetricsMutex" \in Locks /\ OwnersOf(owner)
    <2>1. ManagerOK(m) /\ OwnersOf(owner) /\ "mMetricsMutex" \in Locks
      BY Zenon DEF ArmedInv, KeptInv, IInv, DataOK, LockOK, Locks
    <2>2. UNCHANGED <<now, alarm, fired, onAlarm, systemUp, instance>>
      BY Zenon DEF PullerThread, Pull, FinishForEvent, FinishPull, PullReturns
    <2> QED BY Zenon, <2>1, <2>2
  <1>1. SameReceivers
    <2>1. CASE Pull
      <3>1. PICK uids : StartPull("event", uids, puller.event)
        BY Zenon, <2>1 DEF Pull
      <3> QED BY Zenon, <1>0, <3>1, StartSameReceivers
    <2>2. CASE FinishForEvent
      BY Zenon, <1>0, <2>2, FinishSameReceivers DEF FinishForEvent
    <2>3. CASE PullReturns
      BY Zenon, <2>3 DEF PullReturns, SameReceivers
    <2> QED BY Zenon, <2>1, <2>2, <2>3 DEF PullerThread
  <1>2. owner["mMetricsMutex"] = "alarm" => owner'["mMetricsMutex"] = "alarm"
    <2>1. owner' = owner \/ owner' = [owner EXCEPT !["mLock"] = "event"]
          \/ owner' = [l \in Locks |-> IF owner[l] = "event" THEN None ELSE owner[l]]
      BY Zenon DEF PullerThread, Pull, FinishForEvent, PullReturns
    <2> QED BY Zenon, <1>0, <2>1 DEF OwnersOf
  <1> QED BY Zenon, <1>0, <1>1, <1>2, ArmedByOthers

LEMMA ArmedInitially ==
    ASSUME Init PROVE ArmedInv
  <1>1. KeptInv
    BY Zenon, KeptInitially
  <1>2. /\ m.receivers = [r \in Receivers |-> None] /\ m.mNextPullTimeNs = NO_ALARM_UPDATE
        /\ alarm = None /\ onAlarm.at = "idle" /\ instance \in Instances
    BY Zenon DEF Init, Idle
  <1>3. SchedulesOK
    BY <1>2, PullersAssumption DEF SchedulesOK, Registered, NO_ALARM_UPDATE
  <1>4. NextPullOK /\ AlarmOK
    BY Zenon, <1>2 DEF NextPullOK, AlarmOK, Registered
  <1> QED BY Zenon, <1>1, <1>3, <1>4 DEF ArmedInv

LEMMA ArmedNext ==
    ASSUME ArmedInv, [Next]_vars PROVE ArmedInv'
  <1>0. KeptInv' /\ ManagerOK(m) /\ "mMetricsMutex" \in Locks /\ OwnersOf(owner)
    BY Zenon, KeptNext DEF ArmedInv, KeptInv, IInv, DataOK, LockOK, Locks
  <1>1. CASE AlarmThread
    <2>1. CASE informPollAlarmFired \/ informPullAlarmFired \/ OnAlarmFired
      BY Zenon, <1>0, <2>1, ArmedWhileCalled
    <2>2. CASE PullForAlarm \/ FinishForAlarm \/ DeliverToReceiver \/ NextConfig
      BY Zenon, <1>0, <2>2, ArmedWhilePulling
    <2>3. CASE AlarmDone
      BY Zenon, <1>0, <2>3, ArmedWhenDone
    <2> QED BY Zenon, <1>1, <2>1, <2>2, <2>3 DEF AlarmThread
  <1>2. CASE PullerThread
    BY Zenon, <1>0, <1>2, ArmedByPullers
  <1>3. CASE OnConfigUpdated \/ DestroyOld
    BY Zenon, <1>0, <1>3, ArmedByConfigs
  <1>4. CASE RegisterReceiver
    BY Zenon, <1>0, <1>4, ArmedByRegistration
  <1>5. CASE AlarmFires \/ SystemServerDies \/ statsCompanionServiceDied \/ statsCompanionReady
    BY Zenon, <1>0, <1>5, ArmedBySystemServer
  <1>6. CASE RegisterPullAtomCallback \/ UnregisterPullAtomCallback \/ pullAtomCallbackDied
             \/ ForceClearPullerCache \/ ClearPullerCacheIfNecessary
    <2>1. SameReceivers
      <3>1. CASE RegisterPullAtomCallback
        <4>1. PICK u : m' = [m EXCEPT !.pullers[u] = NewPuller(counts.registrations + 1)]
          BY Zenon, <3>1 DEF RegisterPullAtomCallback
        <4> QED BY Zenon, <1>0, <4>1 DEF ManagerOK, ManagerRecord, SameReceivers
      <3>2. CASE UnregisterPullAtomCallback
        <4>1. PICK u : m' = [m EXCEPT !.pullers[u] = None]
          BY Zenon, <3>2 DEF UnregisterPullAtomCallback
        <4> QED BY Zenon, <1>0, <4>1 DEF ManagerOK, ManagerRecord, SameReceivers
      <3>3. CASE pullAtomCallbackDied
        <4>1. m' = m \/ \E u : m' = [m EXCEPT !.pullers[u] = None]
          BY Zenon, <3>3 DEF pullAtomCallbackDied
        <4> QED BY Zenon, <1>0, <4>1 DEF ManagerOK, ManagerRecord, SameReceivers
      <3>4. CASE ForceClearPullerCache
        <4>1. PICK f : f = [u \in Uids |-> IF m.pullers[u] = None THEN None ELSE Cleared(m.pullers[u])]
          BY Zenon
        <4>2. m' = [m EXCEPT !.pullers = f]
          BY Zenon, <3>4, <4>1 DEF ForceClearPullerCache
        <4> QED BY Zenon, <1>0, <4>2 DEF ManagerOK, ManagerRecord, SameReceivers
      <3>5. CASE ClearPullerCacheIfNecessary
        <4>1. PICK f : f = [u \in Uids |->
                   IF m.pullers[u] # None /\ now - m.pullers[u].lastPull > m.pullers[u].coolDown
                   THEN Cleared(m.pullers[u]) ELSE m.pullers[u]]
          BY Zenon
        <4>2. m' = [m EXCEPT !.pullers = f]
          BY Zenon, <3>5, <4>1 DEF ClearPullerCacheIfNecessary
        <4> QED BY Zenon, <1>0, <4>2 DEF ManagerOK, ManagerRecord, SameReceivers
      <3> QED BY Zenon, <1>6, <3>1, <3>2, <3>3, <3>4, <3>5
    <2>2. UNCHANGED <<now, owner, alarm, fired, onAlarm, systemUp, instance>>
      BY Zenon, <1>6 DEF RegisterPullAtomCallback, UnregisterPullAtomCallback, pullAtomCallbackDied, ForceClearPullerCache,
                  ClearPullerCacheIfNecessary
    <2> QED BY Zenon, <1>0, <2>1, <2>2, ArmedByOthers
  <1>7. CASE Tick \/ Answer \/ ProcessDies \/ UNCHANGED vars
    <2>1. /\ UNCHANGED <<m, owner, alarm, fired, onAlarm, systemUp, instance>> /\ now' \in {now, now + 1}
      BY Zenon, <1>7 DEF Tick, Answer, ProcessDies, vars
    <2> QED BY Zenon, <1>0, <2>1, ArmedByOthers DEF SameReceivers
  <1>8. CASE ConditionChanges \/ ShellPulls
    <2>1. UNCHANGED <<now, m, alarm, fired, onAlarm, systemUp, instance>>
      BY Zenon, <1>8 DEF ConditionChanges, ShellPulls
    <2>2. owner["mMetricsMutex"] = "alarm" => owner'["mMetricsMutex"] = "alarm"
      BY Zenon, <1>8, NoneIsNoThread DEF ConditionChanges, ShellPulls, Free
    <2> QED BY Zenon, <1>0, <2>1, <2>2, ArmedByOthers DEF SameReceivers
  <1> QED BY Zenon, <1>1, <1>2, <1>3, <1>4, <1>5, <1>6, <1>7, <1>8 DEF Next

\* What is registered stays in force, for any receivers, configs, callbacks
\* and times: whenever the companion is there and the alarm's thread is not
\* at work, the one alarm (updateAlarmLocked) is set no later than the next
\* pull of every receiver, through late alarms, receivers that come and go,
\* rounding to milliseconds and deaths of the system server; and pullers and
\* pull uid providers outlive the ends of their predecessors.  The clock is
\* taken to be more than a bucket away from INT64_MAX, which stands for "no
\* alarm".
THEOREM RegistrationsStayInForce ==
    Spec => [](now + Minute + 1 < NO_ALARM_UPDATE => RegistrationsInForce)
  <1>1. Init => ArmedInv
    BY Zenon, ArmedInitially
  <1>2. ArmedInv /\ [Next]_vars => ArmedInv'
    BY Zenon, ArmedNext
  <1>3. ArmedInv => (now + Minute + 1 < NO_ALARM_UPDATE => RegistrationsInForce)
    <2>1. SUFFICES ASSUME ArmedInv, now + Minute + 1 < NO_ALARM_UPDATE PROVE RegistrationsInForce
      BY Zenon
    <2>2. RegistrationsKept
      BY <2>1 DEF ArmedInv, KeptInv, CallbacksOK, ProvidersOK, RegistrationsKept, Idle
    <2>3. ASSUME m.companion, systemUp, ~fired, onAlarm = Idle, NEW r \in Receivers, Registered(r)
          PROVE  alarm # None /\ alarm * Ms <= m.receivers[r].next
      <3>1. onAlarm.at = "idle"
        BY Zenon, <2>3 DEF Idle
      <3>2. /\ m.receivers[r] \in Schedules /\ m.receivers[r].next <= now + Minute + 1
            /\ m.mNextPullTimeNs <= m.receivers[r].next /\ m.mNextPullTimeNs \in Nat
            /\ alarm \in Nat \cup {None} /\ now \in Nat /\ Minute \in Nat /\ Ms \in Nat
        BY Zenon, <2>1, <2>3, <3>1, PullersAssumption DEF ArmedInv, SchedulesOK, NextPullOK, Registered, KeptInv, IInv, DataOK
      <3>3. PICK next \in Nat : next = m.receivers[r].next
        BY Zenon, <3>2 DEF Schedules
      <3>4. m.mNextPullTimeNs # NO_ALARM_UPDATE
        BY <2>1, <3>2, <3>3 DEF NO_ALARM_UPDATE
      <3>5. alarm # None /\ alarm * Ms <= m.mNextPullTimeNs
        BY Zenon, <2>1, <2>3, <3>1, <3>4 DEF ArmedInv, AlarmOK
      <3>6. PICK a \in Nat : a = alarm * Ms
        BY <3>2, <3>5
      <3> QED BY <3>2, <3>3, <3>5, <3>6
    <2> QED BY Zenon, <2>2, <2>3 DEF RegistrationsInForce, AlarmArmed
  <1> QED BY <1>1, <1>2, <1>3, PTL DEF Spec
==============================================================================
