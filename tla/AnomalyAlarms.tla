--------------------------- MODULE AnomalyAlarms ---------------------------
(***************************************************************************)
(* Alarms of duration anomalies: DurationAnomalyTracker, the anomaly       *)
(* AlarmMonitor, and the part of StatsLogProcessor::OnLogEvent that stands *)
(* in for an alarm clock.                                                  *)
(*                                                                         *)
(* An owner is an alert together with a dimension key.  While a duration   *)
(* runs, its tracker keeps an alarm at the time the threshold is predicted *)
(* to be passed.  There is no real clock behind it: every event that       *)
(* reaches OnLogEvent compares mNextAnomalyAlarmTime (mon.armed, in        *)
(* seconds) with the time and, when it has come, pops the due alarms and   *)
(* declares their anomalies.                                               *)
(*                                                                         *)
(* mMetricsMutex is held through a handler, so handlers do not interleave  *)
(* with each other, but StatsService::statsCompanionReady does not take    *)
(* it: setStatsCompanionService can run between any two calls a handler    *)
(* makes to the monitor.  Those calls are therefore steps of their own,    *)
(* and `pc' says where the handler that holds mMetricsMutex is.            *)
(***************************************************************************)
EXTENDS AlarmMonitor

CONSTANTS TicksPerSec,       \* clock ticks in a second (NS_PER_SEC)
          RefractorySecs,    \* Alert::refractory_period_secs
          WithRefractory,    \* the owners whose alert sets it (the field is optional)
          MaxNow             \* bound: the last tick

ASSUME TicksAssumption == TicksPerSec \in Nat \ {0}
ASSUME RefractoryAssumption == RefractorySecs \in Nat /\ WithRefractory \subseteq Owners
ASSUME MaxNowAssumption == MaxNow \in Nat
\* The anomaly monitor's callbacks do not look at the companion service.
ASSUME AnomalyClockAssumption == NeedsCompanion = FALSE

VARIABLES mon,         \* mAnomalyAlarmMonitor, with mNextAnomalyAlarmTime as .armed
          mAlarms,     \* DurationAnomalyTracker::mAlarms: seconds, 0 for no entry
          predicted,   \* the predicted time, in ticks, that alarm was made for
          mRefractoryPeriodEndsSec,   \* 0 for no entry
          declared,    \* last anomaly the owner's tracker declared: its timestamp,
                       \* -1 for none yet, and whether an alarm or a threshold
                       \* test found it
          pc,          \* "idle"; in OnLogEvent "fire" before the due alarms are
                       \* popped, "event" after, "add" in startAlarm; "cancel"
                       \* in cancelAllAlarms
          targets,     \* the owners the handler in progress has still to do
          now          \* elapsed realtime in ticks

vars == <<mon, mAlarms, predicted, mRefractoryPeriodEndsSec, declared, pc, targets, now>>

TheAlarm(o) == [owner |-> o, timestampSec |-> mAlarms[o]]

CeilSec(t) == (t + TicksPerSec - 1) \div TicksPerSec

Init ==
    /\ mon = NewMonitor
    /\ mAlarms = [o \in Owners |-> 0] /\ predicted = [o \in Owners |-> 0]
    /\ mRefractoryPeriodEndsSec = [o \in Owners |-> 0]
    /\ declared = [o \in Owners |-> [at |-> -1, by |-> "alarm"]]
    /\ pc = "idle" /\ targets = {} /\ now = 0

isInRefractoryPeriod(t, o) == t < mRefractoryPeriodEndsSec[o] * TicksPerSec

-----------------------------------------------------------------------------
(* Declaring anomalies.                                                    *)

\* Faulty: the end of the refractory period is rounded down.
Declare_RoundDown(S, t, by) ==
    LET D == {o \in S : ~isInRefractoryPeriod(t, o)} IN
    /\ declared' = [o \in Owners |-> IF o \in D THEN [at |-> t, by |-> by] ELSE declared[o]]
    /\ mRefractoryPeriodEndsSec' =
         [o \in Owners |-> IF o \in D \cap WithRefractory THEN (t \div TicksPerSec) + RefractorySecs
                           ELSE mRefractoryPeriodEndsSec[o]]

\* declareAnomaly at time t for each owner in S.  An alert without a
\* refractory period gets no entry.
Declare(S, t, by) ==
    LET D == {o \in S : ~isInRefractoryPeriod(t, o)} IN
    /\ declared' = [o \in Owners |-> IF o \in D THEN [at |-> t, by |-> by] ELSE declared[o]]
    /\ mRefractoryPeriodEndsSec' =
         [o \in Owners |-> IF o \in D \cap WithRefractory THEN CeilSec(t) + RefractorySecs
                           ELSE mRefractoryPeriodEndsSec[o]]

-----------------------------------------------------------------------------
(* OnLogEvent and the alarms.                                              *)

\* OnLogEvent begins: the test of mNextAnomalyAlarmTime, under
\* mAnomalyAlarmMutex.
OnLogEvent ==
    LET due == mon.armed # 0 /\ mon.armed * TicksPerSec <= now IN
    /\ pc = "idle"
    /\ mon' = IF due THEN [mon EXCEPT !.armed = 0] ELSE mon
    /\ pc' = IF due THEN "fire" ELSE "event"
    /\ UNCHANGED <<mAlarms, predicted, mRefractoryPeriodEndsSec, declared, targets, now>>

\* informAnomalyAlarmFiredLocked, with informAlarmsFired of every tracker.
informAnomalyAlarmFired ==
    LET sec == now \div TicksPerSec
        fired == {o \in Owners : TheAlarm(o) \in Due(mon, sec)} IN
    /\ pc = "fire" /\ pc' = "event"
    /\ mon' = popSoonerThan(mon, sec)
    /\ Declare(fired, now, "alarm")
    /\ mAlarms' = [o \in Owners |-> IF o \in fired THEN 0 ELSE mAlarms[o]]
    /\ UNCHANGED <<predicted, targets, now>>

\* Faulty: the predicted time is rounded down to seconds.
startAlarm_RoundDown(o, t) ==
    /\ pc = "event" /\ ~isInRefractoryPeriod(t, o)
    /\ mon' = IF mAlarms[o] # 0 THEN remove(mon, TheAlarm(o)) ELSE mon
    /\ mAlarms' = [mAlarms EXCEPT ![o] = t \div TicksPerSec]
    /\ predicted' = [predicted EXCEPT ![o] = t]
    /\ pc' = "add" /\ targets' = {o}
    /\ UNCHANGED <<mRefractoryPeriodEndsSec, declared, now>>

\* DurationAnomalyTracker::startAlarm for a duration predicted to pass its
\* threshold at t, up to the removal of the alarm it replaces.  Seconds are
\* rounded up.  Nothing happens when t falls into the refractory period.
startAlarm(o, t) ==
    /\ pc = "event" /\ ~isInRefractoryPeriod(t, o)
    /\ mon' = IF mAlarms[o] # 0 THEN remove(mon, TheAlarm(o)) ELSE mon
    /\ mAlarms' = [mAlarms EXCEPT ![o] = CeilSec(t)]
    /\ predicted' = [predicted EXCEPT ![o] = t]
    /\ pc' = "add" /\ targets' = {o}
    /\ UNCHANGED <<mRefractoryPeriodEndsSec, declared, now>>

\* The second call startAlarm makes to the monitor.
AddAlarm ==
    /\ pc = "add" /\ pc' = "event" /\ targets' = {}
    /\ \E o \in targets : mon' = add(mon, TheAlarm(o))
    /\ UNCHANGED <<mAlarms, predicted, mRefractoryPeriodEndsSec, declared, now>>

\* DurationAnomalyTracker::stopAlarm at the event time t: an alarm that is due
\* but was not noticed yet is caught now.
stopAlarm(o, t) ==
    /\ pc = "event" /\ mAlarms[o] # 0
    /\ IF t >= TicksPerSec * mAlarms[o]
       THEN Declare({o}, t, "alarm")
       ELSE UNCHANGED <<mRefractoryPeriodEndsSec, declared>>
    /\ mon' = remove(mon, TheAlarm(o))
    /\ mAlarms' = [mAlarms EXCEPT ![o] = 0]
    /\ UNCHANGED <<predicted, pc, targets, now>>

\* detectAndDeclareAnomaly, called with the event time t when a duration stops
\* or pauses and the sum over the buckets is found above the threshold.
detectAndDeclareAnomaly(o, t) ==
    /\ pc = "event"
    /\ Declare({o}, t, "detect")
    /\ UNCHANGED <<mon, mAlarms, predicted, pc, targets, now>>

\* The handler is done with the event and releases mMetricsMutex.
EventDone ==
    /\ pc = "event" /\ pc' = "idle"
    /\ UNCHANGED <<mon, mAlarms, predicted, mRefractoryPeriodEndsSec, declared, targets, now>>

\* A tracker that owns the alarms of S is destroyed: with a config that is
\* removed, replaced whole, or reset when its TTL is over.  cancelAllAlarms
\* makes one call to the monitor for each alarm.  mRefractoryPeriodEndsSec is a
\* member of the tracker: the tracker that may follow has no entry in it and
\* has declared nothing yet.
cancelAllAlarms(S) ==
    /\ pc = "idle" /\ pc' = "cancel" /\ targets' = S
    /\ UNCHANGED <<mon, mAlarms, predicted, mRefractoryPeriodEndsSec, declared, now>>

CancelOne(o) ==
    /\ pc = "cancel" /\ o \in targets
    /\ mon' = remove(mon, TheAlarm(o))
    /\ mAlarms' = [mAlarms EXCEPT ![o] = 0]
    /\ mRefractoryPeriodEndsSec' = [mRefractoryPeriodEndsSec EXCEPT ![o] = 0]
    /\ declared' = [declared EXCEPT ![o] = [at |-> -1, by |-> "alarm"]]
    /\ targets' = targets \ {o}
    /\ pc' = IF targets = {o} THEN "idle" ELSE "cancel"
    /\ UNCHANGED <<predicted, now>>

\* statsCompanionReady, or the companion's death recipient, on a binder thread.
CompanionChanged(up) ==
    /\ mon' = setStatsCompanionService(mon, up)
    /\ UNCHANGED <<mAlarms, predicted, mRefractoryPeriodEndsSec, declared, pc, targets, now>>

\* Time passes between handlers; one that takes long sees an older time, which
\* the event times in 0..now cover.
Tick ==
    /\ pc = "idle" /\ now < MaxNow /\ now' = now + 1
    /\ UNCHANGED <<mon, mAlarms, predicted, mRefractoryPeriodEndsSec, declared, pc, targets>>

Next ==
    \/ OnLogEvent \/ informAnomalyAlarmFired \/ AddAlarm \/ EventDone \/ Tick
    \/ \E o \in Owners :
         \/ \E t \in 1..MaxNow : startAlarm(o, t)
         \/ \E t \in 0..now : stopAlarm(o, t)
         \/ \E t \in 0..now : detectAndDeclareAnomaly(o, t)
         \/ CancelOne(o)
    \/ \E S \in SUBSET Owners : S # {} /\ cancelAllAlarms(S)
    \/ \E up \in BOOLEAN : CompanionChanged(up)

Spec == Init /\ [][Next]_vars

-----------------------------------------------------------------------------
(* Properties                                                              *)

TypeOK ==
    /\ mon \in Monitor
    /\ mAlarms \in [Owners -> Nat] /\ predicted \in [Owners -> Nat]
    /\ mRefractoryPeriodEndsSec \in [Owners -> Nat]
    /\ declared \in [Owners -> [at : Nat \cup {-1}, by : {"alarm", "detect"}]]
    /\ pc \in {"idle", "fire", "event", "add", "cancel"} /\ targets \in SUBSET Owners
    /\ now \in Nat

\* What AlarmMonitor.h promises of the registered time survives every sequence
\* of calls by the trackers and by the binder thread that brings a companion.
RegisteredNearSoonest == WithinMinUpdate(mon)

\* The alarms in the monitor are exactly those the trackers hold, apart from
\* the one startAlarm is about to add: no alarm is orphaned in the queue when
\* its duration stops or its config goes, and none is forgotten by it.
QueueMatchesTrackers ==
    mon.mPq = {TheAlarm(o) : o \in {p \in Owners :
                 mAlarms[p] # 0 /\ ~(pc = "add" /\ p \in targets)}}

\* An anomaly is declared for the owner in this step.
Declares(o) == declared'[o] # declared[o] /\ declared'[o].at # -1

\* An alarm never makes an anomaly known before the time the duration was
\* predicted to pass its threshold, in spite of the rounding to seconds and of
\* events that carry older timestamps.
NeverEarly ==
    [][\A o \in Owners : Declares(o) /\ declared'[o].by = "alarm"
           => mAlarms[o] # 0 /\ declared'[o].at >= predicted[o]]_vars

\* Two anomalies that one tracker declares for an owner are at least the
\* refractory period apart, when the alert has one, whichever path declares
\* them and whatever order their timestamps come in.  The claim ends with the
\* tracker: its entries die with it (AnomalyTracker::mRefractoryPeriodEndsSec),
\* so a config that is reset or replaced whole begins anew.
RefractoryRespected ==
    [][\A o \in WithRefractory : Declares(o) /\ declared[o].at # -1
           => declared'[o].at >= declared[o].at + RefractorySecs * TicksPerSec]_vars

\* While an alarm is queued the clock is set to the registered time, except
\* after that time has passed.
ArmedUntilRegistered ==
    mon.mPq # {} => \/ mon.armed = mon.mRegisteredAlarmTimeSec
                    \/ mon.armed = 0 /\ mon.mRegisteredAlarmTimeSec * TicksPerSec <= now

\* The monitor and the trackers agree through every sequence of starts, stops,
\* firings and companion services: the registered time is near the soonest
\* alarm, the queue holds the trackers' alarms and no other, and the clock is
\* set until the registered time has passed.
MonitorSound == RegisteredNearSoonest /\ QueueMatchesTrackers /\ ArmedUntilRegistered
=============================================================================
