---------------------------- MODULE AlarmMonitor ----------------------------
(***************************************************************************)
(* anomaly/AlarmMonitor.cpp: a priority queue of alarms of which only (about)*)
(* the soonest is registered with a clock.  The clock is whatever the two  *)
(* callbacks given to the constructor reach: StatsLogProcessor's           *)
(* mNextAnomalyAlarmTime for the anomaly monitor, the alarm manager of the *)
(* system server, reached through StatsCompanionService, for the periodic  *)
(* one (StatsService.cpp).                                                 *)
(*                                                                         *)
(* A monitor is a record; each operation of the class, which holds mLock   *)
(* from beginning to end, is an operator from the monitor before to the    *)
(* monitor after.  Times are seconds; they are far from the uint32 limit.  *)
(***************************************************************************)
EXTENDS Integers

CONSTANTS Owners,             \* who may own an alarm; each owns at most one
          mMinUpdateTimeSec,  \* AlarmMonitor::mMinUpdateTimeSec (5 in StatsService.h)
          NeedsCompanion      \* does the update callback need the companion service?

ASSUME MinUpdateAssumption == mMinUpdateTimeSec \in Nat
ASSUME NeedsCompanionAssumption == NeedsCompanion \in BOOLEAN

\* An InternalAlarm.  Alarms are compared by reference; since an owner has one
\* alarm at a time, owner and time identify it.
Alarm == [owner : Owners, timestampSec : Nat]

\* mPq is the priority queue; `companion' is mStatsCompanionService # nullptr;
\* `armed' is the time the clock was last set to, 0 when it is not set.
Monitor == [mPq : SUBSET Alarm, mRegisteredAlarmTimeSec : Nat,
            companion : BOOLEAN, armed : Nat]

NewMonitor == [mPq |-> {}, mRegisteredAlarmTimeSec |-> 0, companion |-> FALSE, armed |-> 0]

Times(pq) == {a.timestampSec : a \in pq}

\* mPq.top()->timestampSec
Soonest(pq) == CHOOSE t \in Times(pq) : \A u \in Times(pq) : t <= u

\* mUpdateAlarm / mCancelAlarm
Arm(m, sec) == IF NeedsCompanion /\ ~m.companion THEN m.armed ELSE sec

\* Faulty: the time is noted but the clock is not set.
updateRegisteredAlarmTime_l_NoClock(m, sec) == [m EXCEPT !.mRegisteredAlarmTimeSec = sec]

updateRegisteredAlarmTime_l(m, sec) ==
    [m EXCEPT !.mRegisteredAlarmTimeSec = sec, !.armed = Arm(m, sec)]

cancelRegisteredAlarmTime_l(m) ==
    [m EXCEPT !.mRegisteredAlarmTimeSec = 0, !.armed = Arm(m, 0)]

setStatsCompanionService(m, up) ==
    LET n == [m EXCEPT !.companion = up] IN
    IF up /\ n.mPq # {} THEN updateRegisteredAlarmTime_l(n, Soonest(n.mPq)) ELSE n

add(m, a) ==
    LET n == [m EXCEPT !.mPq = @ \cup {a}] IN
    IF a.timestampSec < 1 THEN m
    ELSE IF m.mRegisteredAlarmTimeSec < 1
            \/ a.timestampSec + mMinUpdateTimeSec < m.mRegisteredAlarmTimeSec
    THEN updateRegisteredAlarmTime_l(n, a.timestampSec)
    ELSE n

remove(m, a) ==
    LET n == [m EXCEPT !.mPq = @ \ {a}] IN
    IF a \notin m.mPq THEN m
    ELSE IF n.mPq = {} THEN cancelRegisteredAlarmTime_l(n)
    ELSE IF Soonest(n.mPq) > m.mRegisteredAlarmTimeSec + mMinUpdateTimeSec
    THEN updateRegisteredAlarmTime_l(n, Soonest(n.mPq))
    ELSE n

Due(m, sec) == {a \in m.mPq : a.timestampSec <= sec}

\* The monitor after popSoonerThan; Due(m, sec) is what it returns.
popSoonerThan(m, sec) ==
    LET n == [m EXCEPT !.mPq = @ \ Due(m, sec)] IN
    IF Due(m, sec) = {} THEN m
    ELSE IF n.mPq = {} THEN cancelRegisteredAlarmTime_l(n)
    ELSE updateRegisteredAlarmTime_l(n, Soonest(n.mPq))

-----------------------------------------------------------------------------
\* What AlarmMonitor.h says of mRegisteredAlarmTimeSec: it is 0 exactly when no
\* alarm is queued, and otherwise within mMinUpdateTimeSec of the soonest.
WithinMinUpdate(m) ==
    /\ m.mPq = {} <=> m.mRegisteredAlarmTimeSec = 0
    /\ m.mPq # {} =>
         /\ Soonest(m.mPq) <= m.mRegisteredAlarmTimeSec + mMinUpdateTimeSec
         /\ m.mRegisteredAlarmTimeSec <= Soonest(m.mPq) + mMinUpdateTimeSec
=============================================================================
