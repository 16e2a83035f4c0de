------------------------ MODULE AnomalyAlarmsProofs ------------------------
(***************************************************************************)
(* The safety of anomaly alarms for any owners, any times, any rounding    *)
(* unit and any mMinUpdateTimeSec.                                         *)
(*                                                                         *)
(* First what each operation of AlarmMonitor preserves; then the inductive *)
(* invariant of the composed system; then the theorems.                    *)
(***************************************************************************)
EXTENDS AnomalyAlarms, WellFoundedInduction, TLAPS

(* A set of natural numbers that is not empty has a least element. *)
LEMMA LeastNatural ==
    ASSUME NEW T \in SUBSET Nat, T # {}
    PROVE  \E t \in T : \A u \in T : t <= u
<1> DEFINE R == {ss \in Nat \X Nat : ss[1] < ss[2]}
<1>1. IsWellFoundedOn(R, Nat)
  BY NatLessThanWellFounded, Zenon DEF OpToRel
<1> HIDE DEF R
<1>2. PICK t \in T : \A u \in T : ~(<<u, t>> \in R)
  BY <1>1, WFMin, Zenon
<1>3. \A u \in T : ~(u < t)
  BY <1>2 DEF R
<1> QED BY <1>3

(* mPq.top() is an alarm of the queue and no other is sooner. *)
LEMMA SoonestIsLeast ==
    ASSUME NEW pq \in SUBSET Alarm, pq # {}
    PROVE  /\ Soonest(pq) \in Nat
           /\ \E a \in pq : Soonest(pq) = a.timestampSec
           /\ \A a \in pq : Soonest(pq) <= a.timestampSec
<1>1. Times(pq) \in SUBSET Nat /\ Times(pq) # {}
  BY DEF Times, Alarm
<1>2. \E t \in Times(pq) : \A u \in Times(pq) : t <= u
  BY <1>1, LeastNatural
<1>3. /\ Soonest(pq) \in Times(pq)
      /\ \A u \in Times(pq) : Soonest(pq) <= u
  BY <1>2 DEF Soonest
<1> QED BY <1>1, <1>3 DEF Times

(* Rounding up to seconds never loses time, and rounding down never gains it. *)
LEMMA Rounding ==
    ASSUME NEW t \in Nat
    PROVE  /\ CeilSec(t) \in Nat /\ CeilSec(t) * TicksPerSec >= t
           /\ t >= 1 => CeilSec(t) >= 1
           /\ t \div TicksPerSec \in Nat
           /\ \A s \in Nat : s <= t \div TicksPerSec => s * TicksPerSec <= t
<1> DEFINE T == TicksPerSec
           x == t + T - 1
<1>1. T \in Nat /\ T > 0 BY TicksAssumption
<1>2. x \in Nat BY <1>1
<1> HIDE DEF T, x
<1>3. /\ x \div T \in Nat /\ x % T \in 0..(T - 1)
      /\ x = (T * (x \div T)) + (x % T)
  BY <1>1, <1>2
<1>4. /\ t \div T \in Nat /\ t % T \in 0..(T - 1)
      /\ t = (T * (t \div T)) + (t % T)
  BY <1>1
<1>5. T * (x \div T) >= t
  BY <1>1, <1>3 DEF x
<1>6. (x \div T) * T >= t
  BY <1>1, <1>3, <1>5
<1>7. t >= 1 => x \div T >= 1
  BY <1>1, <1>3, <1>5
<1>8. ASSUME NEW s \in Nat, s <= t \div T PROVE s * T <= t
  <2>1. s * T <= (t \div T) * T BY <1>1, <1>4, <1>8
  <2> QED BY <2>1, <1>1, <1>4
<1> QED BY <1>3, <1>4, <1>6, <1>7, <1>8 DEF CeilSec, T, x

(* A monitor whose queue holds no alarm at time 0 and whose registered time is
   as AlarmMonitor.h says. *)
MonitorOK(m) ==
    /\ m \in Monitor
    /\ \A a \in m.mPq : a.timestampSec >= 1
    /\ WithinMinUpdate(m)

(* Registering the soonest alarm of a queue makes the monitor right, whatever
   it was before. *)
LEMMA UpdateToSoonest ==
    ASSUME NEW m \in Monitor, m.mPq # {}, \A a \in m.mPq : a.timestampSec >= 1
    PROVE  MonitorOK(updateRegisteredAlarmTime_l(m, Soonest(m.mPq)))
<1> DEFINE n == updateRegisteredAlarmTime_l(m, Soonest(m.mPq))
<1>1. m.mPq \in SUBSET Alarm BY DEF Monitor
<1>2. /\ Soonest(m.mPq) \in Nat /\ Soonest(m.mPq) >= 1
  BY <1>1, SoonestIsLeast
<1>3. /\ n \in Monitor /\ n.mPq = m.mPq
      /\ n.mRegisteredAlarmTimeSec = Soonest(m.mPq)
  BY <1>2 DEF Monitor, updateRegisteredAlarmTime_l, Arm
<1> QED BY <1>2, <1>3, MinUpdateAssumption DEF MonitorOK, WithinMinUpdate

(* Cancelling the registered alarm of an empty queue makes the monitor right. *)
LEMMA CancelWhenEmpty ==
    ASSUME NEW m \in Monitor, m.mPq = {}
    PROVE  MonitorOK(cancelRegisteredAlarmTime_l(m))
BY DEF MonitorOK, WithinMinUpdate, Monitor, cancelRegisteredAlarmTime_l, Arm

(* AlarmMonitor::setStatsCompanionService *)
LEMMA CompanionOK ==
    ASSUME NEW m, MonitorOK(m), NEW up \in BOOLEAN
    PROVE  LET n == setStatsCompanionService(m, up) IN
           MonitorOK(n) /\ n.mPq = m.mPq
<1> DEFINE n == [m EXCEPT !.companion = up]
<1>1. n \in Monitor /\ n.mPq = m.mPq /\ MonitorOK(n)
  BY DEF MonitorOK, Monitor, WithinMinUpdate
<1>2. CASE up /\ n.mPq # {}
  <2>1. MonitorOK(updateRegisteredAlarmTime_l(n, Soonest(n.mPq)))
    BY <1>1, <1>2, UpdateToSoonest DEF MonitorOK
  <2>2. updateRegisteredAlarmTime_l(n, Soonest(n.mPq)).mPq = n.mPq
    BY <1>1 DEF updateRegisteredAlarmTime_l, Monitor
  <2> QED BY <1>1, <1>2, <2>1, <2>2 DEF setStatsCompanionService
<1>3. CASE ~(up /\ n.mPq # {})
  BY <1>1, <1>3 DEF setStatsCompanionService
<1> QED BY <1>2, <1>3

(* The clock is set to the registered time, or neither has changed. *)
ClockStep(m, n) ==
    \/ n.armed = n.mRegisteredAlarmTimeSec
    \/ /\ n.armed = m.armed /\ n.mRegisteredAlarmTimeSec = m.mRegisteredAlarmTimeSec
       /\ n.mPq # {} => m.mPq # {}

(* Both ways of changing the registered time set the clock to it. *)
LEMMA ClockFollows ==
    ASSUME NEW m \in Monitor, NEW sec \in Nat
    PROVE  /\ LET n == updateRegisteredAlarmTime_l(m, sec) IN
              n \in Monitor /\ n.mPq = m.mPq /\ n.armed = sec /\ n.mRegisteredAlarmTimeSec = sec
           /\ LET n == cancelRegisteredAlarmTime_l(m) IN
              n \in Monitor /\ n.mPq = m.mPq /\ n.armed = 0 /\ n.mRegisteredAlarmTimeSec = 0
BY AnomalyClockAssumption
   DEF Monitor, updateRegisteredAlarmTime_l, cancelRegisteredAlarmTime_l, Arm

(* AlarmMonitor::setStatsCompanionService *)
LEMMA CompanionClock ==
    ASSUME NEW m, MonitorOK(m), NEW up \in BOOLEAN
    PROVE  ClockStep(m, setStatsCompanionService(m, up))
<1> DEFINE n == [m EXCEPT !.companion = up]
<1>1. /\ n \in Monitor /\ n.mPq = m.mPq /\ n.armed = m.armed
      /\ n.mRegisteredAlarmTimeSec = m.mRegisteredAlarmTimeSec
  BY DEF MonitorOK, Monitor
<1>2. CASE up /\ n.mPq # {}
  <2>1. Soonest(n.mPq) \in Nat BY <1>1, <1>2, SoonestIsLeast DEF Monitor
  <2> QED BY <1>1, <1>2, <2>1, ClockFollows DEF setStatsCompanionService, ClockStep
<1>3. CASE ~(up /\ n.mPq # {})
  BY <1>1, <1>3 DEF setStatsCompanionService, ClockStep
<1> QED BY <1>2, <1>3

(* AlarmMonitor::add *)
LEMMA AddOK ==
    ASSUME NEW m, MonitorOK(m), NEW a \in Alarm, a.timestampSec >= 1
    PROVE  LET n == add(m, a) IN
           MonitorOK(n) /\ n.mPq = m.mPq \cup {a} /\ ClockStep(m, n)
<1> DEFINE n == [m EXCEPT !.mPq = @ \cup {a}]
           t == a.timestampSec
           reg == m.mRegisteredAlarmTimeSec
<1>1. /\ m \in Monitor /\ m.mPq \in SUBSET Alarm /\ reg \in Nat /\ t \in Nat
      /\ \A b \in m.mPq : b.timestampSec \in Nat /\ b.timestampSec >= 1
  BY DEF MonitorOK, Monitor, Alarm
<1>2. /\ n \in Monitor /\ n.mPq = m.mPq \cup {a} /\ n.mPq # {}
      /\ n.mRegisteredAlarmTimeSec = reg /\ n.armed = m.armed
      /\ n.mPq \in SUBSET Alarm
      /\ \A b \in n.mPq : b.timestampSec \in Nat /\ b.timestampSec >= 1
  BY <1>1 DEF Monitor
<1> HIDE DEF n
<1>3. CASE reg < 1 \/ t + mMinUpdateTimeSec < reg
  <2>1. \A b \in m.mPq : t < b.timestampSec
    <3>1. CASE reg < 1 BY <3>1, <1>1 DEF MonitorOK, WithinMinUpdate
    <3>2. CASE t + mMinUpdateTimeSec < reg
      <4> SUFFICES ASSUME NEW b \in m.mPq PROVE t < b.timestampSec OBVIOUS
      <4>1. Soonest(m.mPq) \in Nat /\ Soonest(m.mPq) <= b.timestampSec
        BY <1>1, SoonestIsLeast
      <4>2. reg <= Soonest(m.mPq) + mMinUpdateTimeSec
        BY <1>1 DEF MonitorOK, WithinMinUpdate
      <4>3. b.timestampSec \in Nat BY <1>1 DEF Alarm
      <4> QED BY <1>1, <3>2, <4>1, <4>2, <4>3, MinUpdateAssumption
    <3> QED BY <1>3, <3>1, <3>2
  <2>2. \A b \in n.mPq : t <= b.timestampSec
    BY <1>1, <1>2, <2>1
  <2>3. Soonest(n.mPq) = t
    <3>1. /\ Soonest(n.mPq) \in Nat
          /\ \E b \in n.mPq : Soonest(n.mPq) = b.timestampSec
          /\ \A b \in n.mPq : Soonest(n.mPq) <= b.timestampSec
      BY <1>2, SoonestIsLeast
    <3> QED BY <1>1, <1>2, <2>2, <3>1
  <2>4. add(m, a) = updateRegisteredAlarmTime_l(n, t)
    BY <1>1, <1>3 DEF add, n
  <2>5. MonitorOK(updateRegisteredAlarmTime_l(n, t))
    BY <1>2, <2>3, UpdateToSoonest
  <2>6. LET u == updateRegisteredAlarmTime_l(n, t) IN
        u.mPq = n.mPq /\ u.armed = t /\ u.mRegisteredAlarmTimeSec = t
    BY <1>1, <1>2, ClockFollows
  <2> QED BY <1>2, <2>4, <2>5, <2>6 DEF ClockStep
<1>4. CASE ~(reg < 1 \/ t + mMinUpdateTimeSec < reg)
  <2>1. add(m, a) = n BY <1>1, <1>4 DEF add, n
  <2>2. m.mPq # {} BY <1>1, <1>4 DEF MonitorOK, WithinMinUpdate
  <2>3. /\ Soonest(m.mPq) \in Nat
        /\ \E b \in m.mPq : Soonest(m.mPq) = b.timestampSec
        /\ \A b \in m.mPq : Soonest(m.mPq) <= b.timestampSec
    BY <1>1, <2>2, SoonestIsLeast
  <2>4. /\ Soonest(n.mPq) \in Nat
        /\ \E b \in n.mPq : Soonest(n.mPq) = b.timestampSec
        /\ \A b \in n.mPq : Soonest(n.mPq) <= b.timestampSec
    BY <1>2, SoonestIsLeast
  <2>5. /\ Soonest(m.mPq) <= reg + mMinUpdateTimeSec
        /\ reg <= Soonest(m.mPq) + mMinUpdateTimeSec
    BY <2>2 DEF MonitorOK, WithinMinUpdate
  <2>6. Soonest(n.mPq) <= Soonest(m.mPq)
    BY <1>2, <2>3, <2>4
  <2>7. Soonest(n.mPq) = t \/ Soonest(m.mPq) <= Soonest(n.mPq)
    BY <1>2, <2>3, <2>4
  <2>8. reg <= t + mMinUpdateTimeSec /\ reg # 0
    BY <1>1, <1>4, MinUpdateAssumption
  <2>9. /\ Soonest(n.mPq) <= reg + mMinUpdateTimeSec
        /\ reg <= Soonest(n.mPq) + mMinUpdateTimeSec
    BY <1>1, <2>3, <2>4, <2>5, <2>6, <2>7, <2>8, MinUpdateAssumption
  <2>10. MonitorOK(n)
    BY <1>2, <2>8, <2>9 DEF MonitorOK, WithinMinUpdate
  <2> QED BY <1>2, <2>1, <2>2, <2>10 DEF ClockStep
<1> QED BY <1>3, <1>4

(* AlarmMonitor::remove *)
LEMMA RemoveOK ==
    ASSUME NEW m, MonitorOK(m), NEW a \in Alarm
    PROVE  LET n == remove(m, a) IN
           MonitorOK(n) /\ n.mPq = m.mPq \ {a} /\ ClockStep(m, n)
<1> DEFINE n == [m EXCEPT !.mPq = @ \ {a}]
           reg == m.mRegisteredAlarmTimeSec
<1>1. /\ m \in Monitor /\ m.mPq \in SUBSET Alarm /\ reg \in Nat
      /\ \A b \in m.mPq : b.timestampSec \in Nat /\ b.timestampSec >= 1
  BY DEF MonitorOK, Monitor, Alarm
<1>2. /\ n \in Monitor /\ n.mPq = m.mPq \ {a}
      /\ n.mRegisteredAlarmTimeSec = reg /\ n.armed = m.armed
      /\ n.mPq \in SUBSET Alarm
      /\ \A b \in n.mPq : b.timestampSec \in Nat /\ b.timestampSec >= 1
  BY <1>1 DEF Monitor
<1> HIDE DEF n
<1>3. CASE a \notin m.mPq
  <2>1. remove(m, a) = m BY <1>3 DEF remove
  <2> QED BY <1>3, <2>1 DEF ClockStep
<1>4. CASE a \in m.mPq /\ n.mPq = {}
  <2>1. remove(m, a) = cancelRegisteredAlarmTime_l(n) BY <1>4 DEF remove, n
  <2>2. LET u == cancelRegisteredAlarmTime_l(n) IN
        u.mPq = n.mPq /\ u.armed = 0 /\ u.mRegisteredAlarmTimeSec = 0
    BY <1>2, ClockFollows
  <2> QED BY <1>2, <1>4, <2>1, <2>2, CancelWhenEmpty DEF ClockStep
<1>5. CASE a \in m.mPq /\ n.mPq # {}
  <2>1. /\ Soonest(n.mPq) \in Nat
        /\ \E b \in n.mPq : Soonest(n.mPq) = b.timestampSec
    BY <1>2, <1>5, SoonestIsLeast
  <2>2. CASE Soonest(n.mPq) > reg + mMinUpdateTimeSec
    <3>1. remove(m, a) = updateRegisteredAlarmTime_l(n, Soonest(n.mPq))
      BY <1>5, <2>2 DEF remove, n
    <3>2. LET u == updateRegisteredAlarmTime_l(n, Soonest(n.mPq)) IN
          u.mPq = n.mPq /\ u.armed = Soonest(n.mPq)
          /\ u.mRegisteredAlarmTimeSec = Soonest(n.mPq)
      BY <1>2, <2>1, ClockFollows
    <3>3. MonitorOK(updateRegisteredAlarmTime_l(n, Soonest(n.mPq)))
      BY <1>2, <1>5, UpdateToSoonest
    <3> QED BY <1>2, <3>1, <3>2, <3>3 DEF ClockStep
  <2>3. CASE ~(Soonest(n.mPq) > reg + mMinUpdateTimeSec)
    <3>1. remove(m, a) = n BY <1>5, <2>3 DEF remove, n
    <3>2. /\ Soonest(m.mPq) \in Nat
          /\ \A b \in m.mPq : Soonest(m.mPq) <= b.timestampSec
      BY <1>1, <1>5, SoonestIsLeast
    <3>3. reg # 0 /\ reg <= Soonest(m.mPq) + mMinUpdateTimeSec
      BY <1>5 DEF MonitorOK, WithinMinUpdate
    <3>4. Soonest(m.mPq) <= Soonest(n.mPq) BY <1>2, <2>1, <3>2
    <3>5. MonitorOK(n)
      BY <1>1, <1>2, <1>5, <2>1, <2>3, <3>2, <3>3, <3>4, MinUpdateAssumption
         DEF MonitorOK, WithinMinUpdate
    <3> QED BY <1>2, <1>5, <3>1, <3>5 DEF ClockStep
  <2> QED BY <2>2, <2>3
<1> QED BY <1>3, <1>4, <1>5

(* AlarmMonitor::popSoonerThan *)
LEMMA PopOK ==
    ASSUME NEW m, MonitorOK(m), NEW sec \in Nat
    PROVE  LET n == popSoonerThan(m, sec) IN
           MonitorOK(n) /\ n.mPq = m.mPq \ Due(m, sec) /\ ClockStep(m, n)
<1> DEFINE n == [m EXCEPT !.mPq = @ \ Due(m, sec)]
<1>1. /\ m \in Monitor /\ m.mPq \in SUBSET Alarm
      /\ \A b \in m.mPq : b.timestampSec \in Nat /\ b.timestampSec >= 1
  BY DEF MonitorOK, Monitor, Alarm
<1>2. /\ n \in Monitor /\ n.mPq = m.mPq \ Due(m, sec) /\ n.mPq \in SUBSET Alarm
      /\ \A b \in n.mPq : b.timestampSec \in Nat /\ b.timestampSec >= 1
  BY <1>1 DEF Monitor
<1> HIDE DEF n
<1>3. CASE Due(m, sec) = {}
  <2>1. popSoonerThan(m, sec) = m BY <1>3 DEF popSoonerThan
  <2> QED BY <1>3, <2>1 DEF ClockStep
<1>4. CASE Due(m, sec) # {} /\ n.mPq = {}
  <2>1. popSoonerThan(m, sec) = cancelRegisteredAlarmTime_l(n)
    BY <1>4 DEF popSoonerThan, n
  <2>2. LET u == cancelRegisteredAlarmTime_l(n) IN
        u.mPq = n.mPq /\ u.armed = 0 /\ u.mRegisteredAlarmTimeSec = 0
    BY <1>2, ClockFollows
  <2> QED BY <1>2, <1>4, <2>1, <2>2, CancelWhenEmpty DEF ClockStep
<1>5. CASE Due(m, sec) # {} /\ n.mPq # {}
  <2>1. Soonest(n.mPq) \in Nat BY <1>2, <1>5, SoonestIsLeast
  <2>2. popSoonerThan(m, sec) = updateRegisteredAlarmTime_l(n, Soonest(n.mPq))
    BY <1>5 DEF popSoonerThan, n
  <2>3. LET u == updateRegisteredAlarmTime_l(n, Soonest(n.mPq)) IN
        u.mPq = n.mPq /\ u.armed = Soonest(n.mPq)
        /\ u.mRegisteredAlarmTimeSec = Soonest(n.mPq)
    BY <1>2, <2>1, ClockFollows
  <2>4. MonitorOK(updateRegisteredAlarmTime_l(n, Soonest(n.mPq)))
    BY <1>2, <1>5, UpdateToSoonest
  <2> QED BY <1>2, <2>2, <2>3, <2>4 DEF ClockStep
<1> QED BY <1>3, <1>4, <1>5

-----------------------------------------------------------------------------
(* The inductive invariant.                                                *)

(* startAlarm adds the alarm of one owner, and it is not at time 0. *)
AddsOne == pc = "add" => \E o \in Owners : targets = {o} /\ mAlarms[o] >= 1

(* An alarm is not before the time it was made for. *)
AlarmCovers == \A o \in Owners : mAlarms[o] # 0 => predicted[o] <= mAlarms[o] * TicksPerSec

(* The refractory period covers RefractorySecs after the last anomaly of the
   tracker, when the alert has one. *)
RefractoryCovers ==
    \A o \in WithRefractory : declared[o].at # -1 =>
       declared[o].at + RefractorySecs * TicksPerSec <= mRefractoryPeriodEndsSec[o] * TicksPerSec

IInv == /\ TypeOK /\ MonitorOK(mon) /\ QueueMatchesTrackers /\ ArmedUntilRegistered
        /\ AddsOne /\ AlarmCovers /\ RefractoryCovers

(* A step of the monitor that only sets the clock by ClockStep, without the
   time going back, keeps the clock right. *)
LEMMA ClockStepKeepsArmed ==
    ASSUME mon \in Monitor, ClockStep(mon, mon'), now \in Nat, now' \in Nat, now' >= now,
           ArmedUntilRegistered
    PROVE  ArmedUntilRegistered'
<1>1. mon.mRegisteredAlarmTimeSec * TicksPerSec \in Nat
  BY TicksAssumption DEF Monitor
<1> QED BY <1>1 DEF ClockStep, ArmedUntilRegistered

(* declareAnomaly: the new refractory periods cover the new anomalies, and an
   owner in its refractory period is left alone. *)
LEMMA DeclareOK ==
    ASSUME TypeOK, RefractoryCovers, NEW S \in SUBSET Owners, NEW t \in Nat,
           NEW by \in {"alarm", "detect"}, Declare(S, t, by)
    PROVE  /\ mRefractoryPeriodEndsSec' \in [Owners -> Nat]
           /\ declared' \in [Owners -> [at : Nat \cup {-1}, by : {"alarm", "detect"}]]
           /\ RefractoryCovers'
           /\ \A o \in Owners : declared'[o] # declared[o] =>
                 /\ o \in S /\ declared'[o].at = t /\ declared'[o].by = by
                 /\ o \in WithRefractory /\ declared[o].at # -1 =>
                      t >= declared[o].at + RefractorySecs * TicksPerSec
<1> DEFINE D == {o \in S : ~isInRefractoryPeriod(t, o)}
           end == CeilSec(t) + RefractorySecs
<1>1. /\ declared' = [o \in Owners |-> IF o \in D THEN [at |-> t, by |-> by] ELSE declared[o]]
      /\ mRefractoryPeriodEndsSec' =
           [o \in Owners |-> IF o \in D \cap WithRefractory THEN end ELSE mRefractoryPeriodEndsSec[o]]
  BY DEF Declare
<1>2. CeilSec(t) \in Nat /\ CeilSec(t) * TicksPerSec >= t BY Rounding
<1>3. end \in Nat /\ t + RefractorySecs * TicksPerSec <= end * TicksPerSec
  BY <1>2, RefractoryAssumption, TicksAssumption
<1>4. \A o \in D : mRefractoryPeriodEndsSec[o] * TicksPerSec <= t
  BY TicksAssumption DEF isInRefractoryPeriod, TypeOK
<1>5. \A o \in Owners : declared[o] \in [at : Nat \cup {-1}, by : {"alarm", "detect"}]
  BY DEF TypeOK
<1> HIDE DEF D, end
<1>6. ASSUME NEW o \in WithRefractory, o \in D
      PROVE  declared[o].at # -1 => t >= declared[o].at + RefractorySecs * TicksPerSec
  <2>1. /\ mRefractoryPeriodEndsSec[o] * TicksPerSec \in Nat
        /\ RefractorySecs * TicksPerSec \in Nat
    BY TicksAssumption, RefractoryAssumption DEF TypeOK
  <2> QED BY <1>4, <1>5, <1>6, <2>1, RefractoryAssumption DEF RefractoryCovers
<1>7. RefractoryCovers'
  BY <1>1, <1>3, RefractoryAssumption DEF RefractoryCovers
<1>8. D \subseteq S BY DEF D
<1>9. /\ mRefractoryPeriodEndsSec' \in [Owners -> Nat]
      /\ declared' \in [Owners -> [at : Nat \cup {-1}, by : {"alarm", "detect"}]]
  BY <1>1, <1>3, <1>5 DEF TypeOK
<1> QED BY <1>1, <1>6, <1>7, <1>8, <1>9

(* What NeverEarly and RefractoryRespected say of one step. *)
NotEarlyStep ==
    \A o \in Owners : Declares(o) /\ declared'[o].by = "alarm"
        => mAlarms[o] # 0 /\ declared'[o].at >= predicted[o]
RefractoryStep ==
    \A o \in WithRefractory : Declares(o) /\ declared[o].at # -1
        => declared'[o].at >= declared[o].at + RefractorySecs * TicksPerSec

Good == IInv' /\ NotEarlyStep /\ RefractoryStep

(* An alarm of the queue is the alarm its owner's tracker holds. *)
LEMMA QueuedIsHeld ==
    ASSUME IInv, NEW o \in Owners, TheAlarm(o) \in mon.mPq
    PROVE  mAlarms[o] # 0 /\ ~(pc = "add" /\ o \in targets)
<1>1. PICK p \in {q \in Owners : mAlarms[q] # 0 /\ ~(pc = "add" /\ q \in targets)} :
        TheAlarm(o) = TheAlarm(p)
  BY DEF IInv, QueueMatchesTrackers
<1>2. TheAlarm(o).owner = o /\ TheAlarm(p).owner = p BY DEF TheAlarm
<1> QED BY <1>1, <1>2

(* Steps that change neither a tracker nor the queue. *)
LEMMA QuietSteps ==
    ASSUME IInv, OnLogEvent \/ EventDone \/ Tick
                 \/ (\E S \in SUBSET Owners : S # {} /\ cancelAllAlarms(S))
                 \/ (\E up \in BOOLEAN : CompanionChanged(up))
    PROVE  Good
<1> USE DEF IInv
<1>1. CASE OnLogEvent
  <2>1. /\ mon' \in Monitor /\ mon'.mPq = mon.mPq
        /\ mon'.mRegisteredAlarmTimeSec = mon.mRegisteredAlarmTimeSec
        /\ \/ mon'.armed = mon.armed
           \/ mon'.armed = 0 /\ mon.armed # 0 /\ mon.armed * TicksPerSec <= now
    <3>1. mon \in Monitor /\ [mon EXCEPT !.armed = 0] \in Monitor BY DEF TypeOK, Monitor
    <3>2. CASE mon.armed # 0 /\ mon.armed * TicksPerSec <= now
      <4>1. mon' = [mon EXCEPT !.armed = 0] BY <1>1, <3>2 DEF OnLogEvent
      <4> QED BY <3>1, <3>2, <4>1 DEF Monitor
    <3>3. CASE ~(mon.armed # 0 /\ mon.armed * TicksPerSec <= now)
      <4>1. mon' = mon BY <1>1, <3>3 DEF OnLogEvent
      <4> QED BY <3>1, <4>1
    <3> QED BY <3>2, <3>3
  <2>2. MonitorOK(mon') BY <2>1 DEF MonitorOK, WithinMinUpdate
  <2>3. ArmedUntilRegistered' BY <1>1, <2>1 DEF OnLogEvent, ArmedUntilRegistered
  <2>4. QueueMatchesTrackers' BY <1>1, <2>1 DEF OnLogEvent, QueueMatchesTrackers, TheAlarm
  <2> QED BY <1>1, <2>1, <2>2, <2>3, <2>4
          DEF OnLogEvent, TypeOK, AddsOne, AlarmCovers, RefractoryCovers,
              Good, NotEarlyStep, RefractoryStep, Declares
<1>2. CASE EventDone
  BY <1>2 DEF EventDone, TypeOK, QueueMatchesTrackers, TheAlarm, ArmedUntilRegistered,
              AddsOne, AlarmCovers, RefractoryCovers, Good, NotEarlyStep, RefractoryStep, Declares
<1>3. CASE Tick
  <2>1. now' \in Nat /\ now' >= now BY <1>3 DEF Tick, TypeOK
  <2>2. ClockStep(mon, mon') BY <1>3 DEF Tick, ClockStep
  <2>3. ArmedUntilRegistered' BY <2>1, <2>2, ClockStepKeepsArmed DEF TypeOK
  <2> QED
    BY <1>3, <2>1, <2>3 DEF Tick, TypeOK, QueueMatchesTrackers, TheAlarm,
              AddsOne, AlarmCovers, RefractoryCovers, Good, NotEarlyStep, RefractoryStep, Declares
<1>4. CASE \E S \in SUBSET Owners : S # {} /\ cancelAllAlarms(S)
  <2>1. PICK S \in SUBSET Owners : cancelAllAlarms(S) BY <1>4
  <2> QED
    BY <2>1 DEF cancelAllAlarms, TypeOK, QueueMatchesTrackers, TheAlarm, ArmedUntilRegistered,
              AddsOne, AlarmCovers, RefractoryCovers, Good, NotEarlyStep, RefractoryStep, Declares
<1>5. CASE \E up \in BOOLEAN : CompanionChanged(up)
  <2>1. PICK up \in BOOLEAN : CompanionChanged(up) BY <1>5
  <2>2. MonitorOK(mon') /\ mon'.mPq = mon.mPq BY <2>1, CompanionOK DEF CompanionChanged
  <2>3. ClockStep(mon, mon') BY <2>1, CompanionClock DEF CompanionChanged
  <2>4. now' = now BY <2>1 DEF CompanionChanged
  <2>5. ArmedUntilRegistered' BY <2>3, <2>4, ClockStepKeepsArmed DEF TypeOK
  <2> QED
    BY <2>1, <2>2, <2>5 DEF CompanionChanged, TypeOK, MonitorOK, QueueMatchesTrackers, TheAlarm,
              AddsOne, AlarmCovers, RefractoryCovers, Good, NotEarlyStep, RefractoryStep, Declares
<1> QED BY <1>1, <1>2, <1>3, <1>4, <1>5

(* An owner's alarm goes from the queue and from its tracker together: the
   queue still matches. *)
LEMMA DropKeepsMatch ==
    ASSUME IInv, NEW S \in SUBSET Owners, pc # "add", pc' # "add",
           mon'.mPq = mon.mPq \ {TheAlarm(o) : o \in S},
           mAlarms' = [o \in Owners |-> IF o \in S THEN 0 ELSE mAlarms[o]]
    PROVE  QueueMatchesTrackers'
<1>1. mon.mPq = {TheAlarm(o) : o \in {p \in Owners : mAlarms[p] # 0}}
  BY DEF IInv, QueueMatchesTrackers
<1>2. mon'.mPq = {TheAlarm(o) : o \in {p \in Owners : mAlarms[p] # 0 /\ p \notin S}}
  BY <1>1 DEF TheAlarm
<1>3. mon'.mPq = {TheAlarm(o)' : o \in {p \in Owners : mAlarms'[p] # 0}}
  BY <1>2 DEF TheAlarm
<1> QED BY <1>3 DEF QueueMatchesTrackers

(* The alarms that are due are popped and their anomalies declared. *)
LEMMA FireStep == ASSUME IInv, informAnomalyAlarmFired PROVE Good
<1> DEFINE sec == now \div TicksPerSec
           fired == {o \in Owners : TheAlarm(o) \in Due(mon, sec)}
<1>1. /\ pc = "fire" /\ pc' = "event" /\ mon' = popSoonerThan(mon, sec)
      /\ Declare(fired, now, "alarm")
      /\ mAlarms' = [o \in Owners |-> IF o \in fired THEN 0 ELSE mAlarms[o]]
      /\ predicted' = predicted /\ targets' = targets /\ now' = now
  BY DEF informAnomalyAlarmFired
<1>2. now \in Nat /\ sec \in Nat BY Rounding DEF IInv, TypeOK
<1>3. MonitorOK(mon') /\ mon'.mPq = mon.mPq \ Due(mon, sec) /\ ClockStep(mon, mon')
  BY <1>1, <1>2, PopOK DEF IInv
<1>4. fired \in SUBSET Owners BY DEF fired
<1>5. \A o \in fired : /\ TheAlarm(o) \in mon.mPq /\ mAlarms[o] <= sec
  BY DEF Due, TheAlarm
<1>6. Due(mon, sec) = {TheAlarm(o) : o \in fired}
  BY DEF Due, IInv, QueueMatchesTrackers
<1>7. \A o \in fired : mAlarms[o] # 0 /\ predicted[o] <= now
  <2> SUFFICES ASSUME NEW o \in fired PROVE mAlarms[o] # 0 /\ predicted[o] <= now
    OBVIOUS
  <2>1. mAlarms[o] # 0 BY <1>5, QueuedIsHeld
  <2>2. /\ mAlarms[o] \in Nat /\ predicted[o] \in Nat
        /\ predicted[o] <= mAlarms[o] * TicksPerSec
    BY <2>1 DEF IInv, AlarmCovers, TypeOK
  <2>3. mAlarms[o] * TicksPerSec <= now BY <1>2, <1>5, <2>2, Rounding
  <2>4. mAlarms[o] * TicksPerSec \in Nat BY <2>2, TicksAssumption
  <2> QED BY <1>2, <2>1, <2>2, <2>3, <2>4
<1> HIDE DEF fired, sec
<1>8. QueueMatchesTrackers' BY <1>1, <1>3, <1>4, <1>6, DropKeepsMatch
<1>9. ArmedUntilRegistered' BY <1>1, <1>2, <1>3, ClockStepKeepsArmed DEF IInv, TypeOK
<1>10. /\ mRefractoryPeriodEndsSec' \in [Owners -> Nat]
       /\ declared' \in [Owners -> [at : Nat \cup {-1}, by : {"alarm", "detect"}]]
       /\ RefractoryCovers'
       /\ \A o \in Owners : declared'[o] # declared[o] =>
             /\ o \in fired /\ declared'[o].at = now
             /\ o \in WithRefractory /\ declared[o].at # -1 =>
                  now >= declared[o].at + RefractorySecs * TicksPerSec
  BY <1>1, <1>2, <1>4, DeclareOK DEF IInv
<1>11. NotEarlyStep /\ RefractoryStep
  BY <1>2, <1>7, <1>10, RefractoryAssumption DEF NotEarlyStep, RefractoryStep, Declares, IInv, TypeOK
<1>12. TypeOK' BY <1>1, <1>3, <1>10 DEF IInv, TypeOK, MonitorOK
<1>13. AddsOne' /\ AlarmCovers' BY <1>1 DEF IInv, AddsOne, AlarmCovers, TypeOK
<1> QED BY <1>3, <1>8, <1>9, <1>10, <1>11, <1>12, <1>13 DEF Good, IInv

(* startAlarm takes the alarm it replaces out of the queue. *)
LEMMA StartStep ==
    ASSUME IInv, NEW o \in Owners, NEW t \in Nat, t >= 1, startAlarm(o, t)
    PROVE  Good
<1>1. /\ pc = "event" /\ pc' = "add" /\ targets' = {o}
      /\ mon' = IF mAlarms[o] # 0 THEN remove(mon, TheAlarm(o)) ELSE mon
      /\ mAlarms' = [mAlarms EXCEPT ![o] = CeilSec(t)]
      /\ predicted' = [predicted EXCEPT ![o] = t]
      /\ UNCHANGED <<mRefractoryPeriodEndsSec, declared, now>>
  BY DEF startAlarm
<1>2. CeilSec(t) \in Nat /\ CeilSec(t) >= 1 /\ t <= CeilSec(t) * TicksPerSec
  BY Rounding, TicksAssumption
<1>3. mAlarms \in [Owners -> Nat] /\ predicted \in [Owners -> Nat] /\ TheAlarm(o) \in Alarm
  BY DEF IInv, TypeOK, TheAlarm, Alarm
<1>4. mon.mPq = {TheAlarm(p) : p \in {q \in Owners : mAlarms[q] # 0}}
  BY <1>1 DEF IInv, QueueMatchesTrackers
<1>5. MonitorOK(mon') /\ mon'.mPq = mon.mPq \ {TheAlarm(o)} /\ ClockStep(mon, mon')
  <2>1. CASE mAlarms[o] # 0
    BY <1>1, <1>3, <2>1, RemoveOK DEF IInv
  <2>2. CASE mAlarms[o] = 0
    <3>1. TheAlarm(o) \notin mon.mPq BY <2>2, QueuedIsHeld
    <3> QED BY <1>1, <2>2, <3>1 DEF IInv, ClockStep
  <2> QED BY <2>1, <2>2
<1>6. mon'.mPq = {TheAlarm(p) : p \in {q \in Owners : mAlarms[q] # 0 /\ q # o}}
  BY <1>4, <1>5 DEF TheAlarm
<1>7. mon'.mPq = {TheAlarm(p)' : p \in {q \in Owners : mAlarms'[q] # 0 /\ q # o}}
  BY <1>1, <1>3, <1>6 DEF TheAlarm
<1>8. QueueMatchesTrackers'
  BY <1>1, <1>7 DEF QueueMatchesTrackers
<1>9. ArmedUntilRegistered'
  BY <1>1, <1>5, ClockStepKeepsArmed DEF IInv, TypeOK
<1>10. AddsOne' BY <1>1, <1>2, <1>3 DEF AddsOne
<1>11. AlarmCovers' BY <1>1, <1>2, <1>3 DEF IInv, AlarmCovers
<1>12. TypeOK' BY <1>1, <1>2, <1>3, <1>5 DEF IInv, TypeOK, MonitorOK
<1> QED
  BY <1>1, <1>5, <1>8, <1>9, <1>10, <1>11, <1>12
     DEF Good, IInv, RefractoryCovers, NotEarlyStep, RefractoryStep, Declares

(* ... and puts the new one in. *)
LEMMA AddStep == ASSUME IInv, AddAlarm PROVE Good
<1>1. PICK o \in Owners : targets = {o} /\ mAlarms[o] >= 1
  BY DEF AddAlarm, IInv, AddsOne
<1>2. /\ pc = "add" /\ pc' = "event" /\ targets' = {} /\ mon' = add(mon, TheAlarm(o))
      /\ UNCHANGED <<mAlarms, predicted, mRefractoryPeriodEndsSec, declared, now>>
  BY <1>1 DEF AddAlarm
<1>3. mAlarms \in [Owners -> Nat] /\ TheAlarm(o) \in Alarm
      /\ TheAlarm(o).timestampSec >= 1
  BY <1>1 DEF IInv, TypeOK, TheAlarm, Alarm
<1>4. MonitorOK(mon') /\ mon'.mPq = mon.mPq \cup {TheAlarm(o)} /\ ClockStep(mon, mon')
  BY <1>2, <1>3, AddOK DEF IInv
<1>5. mon.mPq = {TheAlarm(p) : p \in {q \in Owners : mAlarms[q] # 0 /\ q # o}}
  BY <1>1, <1>2 DEF IInv, QueueMatchesTrackers
<1>6. mon'.mPq = {TheAlarm(p) : p \in {q \in Owners : mAlarms[q] # 0}}
  BY <1>1, <1>3, <1>4, <1>5
<1>7. QueueMatchesTrackers' BY <1>2, <1>6 DEF QueueMatchesTrackers, TheAlarm
<1>8. ArmedUntilRegistered' BY <1>2, <1>4, ClockStepKeepsArmed DEF IInv, TypeOK
<1>9. TypeOK' BY <1>2, <1>4 DEF IInv, TypeOK, MonitorOK
<1> QED
  BY <1>2, <1>4, <1>7, <1>8, <1>9
     DEF Good, IInv, AddsOne, AlarmCovers, RefractoryCovers, NotEarlyStep, RefractoryStep, Declares

(* The alarm of one owner goes: what stopAlarm and cancelAllAlarms share. *)
LEMMA DropOne ==
    ASSUME IInv, NEW o \in Owners, pc # "add", pc' # "add",
           pc' \in {"idle", "fire", "event", "add", "cancel"}, targets' \in SUBSET Owners,
           mon' = remove(mon, TheAlarm(o)), mAlarms' = [mAlarms EXCEPT ![o] = 0],
           predicted' = predicted, now' = now,
           mRefractoryPeriodEndsSec' \in [Owners -> Nat],
           declared' \in [Owners -> [at : Nat \cup {-1}, by : {"alarm", "detect"}]],
           RefractoryCovers'
    PROVE  IInv'
<1>1. mAlarms \in [Owners -> Nat] /\ TheAlarm(o) \in Alarm
  BY DEF IInv, TypeOK, TheAlarm, Alarm
<1>2. MonitorOK(mon') /\ mon'.mPq = mon.mPq \ {TheAlarm(o)} /\ ClockStep(mon, mon')
  BY <1>1, RemoveOK DEF IInv
<1>3. QueueMatchesTrackers'
  <2>1. {TheAlarm(p) : p \in {o}} = {TheAlarm(o)} OBVIOUS
  <2>2. mAlarms' = [p \in Owners |-> IF p \in {o} THEN 0 ELSE mAlarms[p]] BY <1>1
  <2> QED BY <1>2, <2>1, <2>2, DropKeepsMatch
<1>4. ArmedUntilRegistered' BY <1>2, ClockStepKeepsArmed DEF IInv, TypeOK
<1>5. TypeOK' BY <1>1, <1>2 DEF IInv, TypeOK, MonitorOK
<1>6. AddsOne' /\ AlarmCovers' BY <1>1 DEF IInv, AddsOne, AlarmCovers
<1> QED BY <1>2, <1>3, <1>4, <1>5, <1>6 DEF IInv

(* stopAlarm, which may declare an anomaly that was due. *)
LEMMA StopStep ==
    ASSUME IInv, NEW o \in Owners, NEW t \in Nat, stopAlarm(o, t) PROVE Good
<1>1. /\ pc = "event" /\ pc' = "event" /\ targets' = targets /\ mAlarms[o] # 0
      /\ mon' = remove(mon, TheAlarm(o)) /\ mAlarms' = [mAlarms EXCEPT ![o] = 0]
      /\ predicted' = predicted /\ now' = now
  BY DEF stopAlarm
<1>2. /\ mAlarms[o] \in Nat /\ predicted[o] \in Nat /\ TypeOK /\ RefractoryCovers
      /\ predicted[o] <= mAlarms[o] * TicksPerSec
      /\ targets \in SUBSET Owners
  BY <1>1 DEF IInv, TypeOK, AlarmCovers
<1>3. CASE t >= TicksPerSec * mAlarms[o]
  <2>1. Declare({o}, t, "alarm") BY <1>3 DEF stopAlarm
  <2>2. predicted[o] <= t BY <1>2, <1>3, TicksAssumption
  <2>3. /\ mRefractoryPeriodEndsSec' \in [Owners -> Nat]
        /\ declared' \in [Owners -> [at : Nat \cup {-1}, by : {"alarm", "detect"}]]
        /\ RefractoryCovers'
        /\ \A p \in Owners : declared'[p] # declared[p] =>
              /\ p \in {o} /\ declared'[p].at = t /\ declared'[p].by = "alarm"
              /\ p \in WithRefractory /\ declared[p].at # -1 =>
                   t >= declared[p].at + RefractorySecs * TicksPerSec
    BY <1>2, <2>1, {o} \in SUBSET Owners, DeclareOK, Zenon
  <2>4. IInv' BY <1>1, <1>2, <2>3, DropOne
  <2> QED BY <1>1, <2>2, <2>3, <2>4, RefractoryAssumption DEF Good, NotEarlyStep, RefractoryStep, Declares
<1>4. CASE ~(t >= TicksPerSec * mAlarms[o])
  <2>1. UNCHANGED <<mRefractoryPeriodEndsSec, declared>> BY <1>4 DEF stopAlarm
  <2>2. RefractoryCovers' BY <1>2, <2>1 DEF RefractoryCovers
  <2>3. IInv' BY <1>1, <1>2, <2>1, <2>2, DropOne DEF TypeOK
  <2> QED BY <2>1, <2>3 DEF Good, NotEarlyStep, RefractoryStep, Declares
<1> QED BY <1>3, <1>4

(* One alarm of a tracker that is destroyed, with its refractory entry. *)
LEMMA CancelStep ==
    ASSUME IInv, NEW o \in Owners, CancelOne(o) PROVE Good
<1>1. /\ pc = "cancel" /\ pc' \in {"idle", "cancel"} /\ targets' = targets \ {o}
      /\ mon' = remove(mon, TheAlarm(o)) /\ mAlarms' = [mAlarms EXCEPT ![o] = 0]
      /\ mRefractoryPeriodEndsSec' = [mRefractoryPeriodEndsSec EXCEPT ![o] = 0]
      /\ declared' = [declared EXCEPT ![o] = [at |-> -1, by |-> "alarm"]]
      /\ UNCHANGED <<predicted, now>>
  BY DEF CancelOne
<1>2. /\ targets' \in SUBSET Owners /\ mRefractoryPeriodEndsSec' \in [Owners -> Nat]
      /\ declared' \in [Owners -> [at : Nat \cup {-1}, by : {"alarm", "detect"}]]
      /\ declared'[o].at = -1
      /\ \A p \in Owners \ {o} :
            /\ declared'[p] = declared[p]
            /\ mRefractoryPeriodEndsSec'[p] = mRefractoryPeriodEndsSec[p]
  BY <1>1 DEF IInv, TypeOK
<1>3. RefractoryCovers' BY <1>2, RefractoryAssumption DEF IInv, RefractoryCovers
<1>4. IInv' BY <1>1, <1>2, <1>3, DropOne
<1> QED BY <1>2, <1>4, RefractoryAssumption DEF Good, NotEarlyStep, RefractoryStep, Declares

(* A threshold test that finds an anomaly. *)
LEMMA DetectStep ==
    ASSUME IInv, NEW o \in Owners, NEW t \in Nat, detectAndDeclareAnomaly(o, t) PROVE Good
<1>1. /\ Declare({o}, t, "detect")
      /\ UNCHANGED <<mon, mAlarms, predicted, pc, targets, now>>
  BY DEF detectAndDeclareAnomaly
<1>2. /\ mRefractoryPeriodEndsSec' \in [Owners -> Nat]
      /\ declared' \in [Owners -> [at : Nat \cup {-1}, by : {"alarm", "detect"}]]
      /\ RefractoryCovers'
      /\ \A p \in Owners : declared'[p] # declared[p] =>
            /\ p \in {o} /\ declared'[p].at = t /\ declared'[p].by = "detect"
            /\ p \in WithRefractory /\ declared[p].at # -1 =>
                 t >= declared[p].at + RefractorySecs * TicksPerSec
  <2>1. TypeOK /\ RefractoryCovers /\ {o} \in SUBSET Owners BY DEF IInv
  <2> QED BY <1>1, <2>1, DeclareOK, Zenon
<1>3. IInv'
  BY <1>1, <1>2 DEF IInv, TypeOK, QueueMatchesTrackers, TheAlarm, ArmedUntilRegistered,
                    AddsOne, AlarmCovers
<1> QED BY <1>2, <1>3, RefractoryAssumption DEF Good, NotEarlyStep, RefractoryStep, Declares

-----------------------------------------------------------------------------
(* The theorems.                                                           *)

(* Every step keeps the invariant and is neither early nor inside a refractory
   period. *)
LEMMA StepGood == ASSUME IInv, [Next]_vars PROVE Good
<1>1. CASE UNCHANGED vars
  BY <1>1 DEF vars, IInv, TypeOK, QueueMatchesTrackers, TheAlarm, ArmedUntilRegistered,
              AddsOne, AlarmCovers, RefractoryCovers, Good, NotEarlyStep, RefractoryStep, Declares
<1>2. CASE Next
  <2>1. now \in Nat BY DEF IInv, TypeOK
  <2>2. ASSUME NEW o \in Owners, NEW t \in 1..MaxNow, startAlarm(o, t) PROVE Good
    BY <2>2, StartStep, MaxNowAssumption
  <2>3. ASSUME NEW o \in Owners, NEW t \in 0..now, stopAlarm(o, t) PROVE Good
    BY <2>1, <2>3, StopStep
  <2>4. ASSUME NEW o \in Owners, NEW t \in 0..now, detectAndDeclareAnomaly(o, t) PROVE Good
    BY <2>1, <2>4, DetectStep
  <2> QED
    BY <1>2, <2>2, <2>3, <2>4, QuietSteps, FireStep, AddStep, CancelStep DEF Next
<1> QED BY <1>1, <1>2

(* Nothing is queued, held or declared at first. *)
LEMMA InitGood == ASSUME Init PROVE IInv
BY RefractoryAssumption
   DEF Init, NewMonitor, Monitor, Alarm, IInv, TypeOK, MonitorOK, WithinMinUpdate,
       QueueMatchesTrackers, TheAlarm, ArmedUntilRegistered, AddsOne, AlarmCovers,
       RefractoryCovers

(* In every behaviour, for any owners and any times: the registered time of the
   monitor is near the soonest alarm (AlarmMonitor.h), the queue holds exactly
   the alarms of the trackers, and the clock is set until its time has passed. *)
THEOREM AlarmsSafe ==
    Spec => [](TypeOK /\ MonitorSound)
<1>1. Init => IInv BY InitGood
<1>2. IInv /\ [Next]_vars => IInv' BY StepGood DEF Good
<1>3. IInv => TypeOK /\ MonitorSound
  BY DEF IInv, MonitorOK, MonitorSound, RegisteredNearSoonest
<1> QED BY <1>1, <1>2, <1>3, PTL DEF Spec

(* No alarm declares an anomaly before its predicted time. *)
THEOREM AlarmsNeverEarly == Spec => NeverEarly
<1>1. Init => IInv BY InitGood
<1>2. IInv /\ [Next]_vars => IInv' BY StepGood DEF Good
<1>3. IInv /\ [Next]_vars => NotEarlyStep BY StepGood DEF Good
<1>4. Spec => [][NotEarlyStep]_vars BY <1>1, <1>2, <1>3, PTL DEF Spec
<1> QED BY <1>4 DEF NeverEarly, NotEarlyStep

(* Two anomalies that one tracker declares for an owner whose alert has a
   refractory period are at least that period apart (declareAnomaly). *)
THEOREM AnomaliesApart == Spec => RefractoryRespected
<1>1. Init => IInv BY InitGood
<1>2. IInv /\ [Next]_vars => IInv' BY StepGood DEF Good
<1>3. IInv /\ [Next]_vars => RefractoryStep BY StepGood DEF Good
<1>4. Spec => [][RefractoryStep]_vars BY <1>1, <1>2, <1>3, PTL DEF Spec
<1> QED BY <1>4 DEF RefractoryRespected, RefractoryStep
=============================================================================
