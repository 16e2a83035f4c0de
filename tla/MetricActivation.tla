-------------------------- MODULE MetricActivation --------------------------
(***************************************************************************)
(* Activation of metrics: MetricProducer's activations, the active state   *)
(* MetricsManager derives from them, and how both survive a restart of     *)
(* statsd (SaveActiveConfigsToDisk, LoadActiveConfigsFromDisk) and a death *)
(* of the system server (StatsService::statsCompanionServiceDiedImpl).     *)
(*                                                                         *)
(* One config.  An activation belongs to a metric, lasts Ttl ticks from    *)
(* the event that starts it, and either starts at once or, for those in    *)
(* OnBoot, when statsd next starts.  The system-server death handler takes *)
(* mMetricsMutex three times, to read the activations, to reset the        *)
(* configs and to restore the activations: events, shutdowns and crashes   *)
(* may come between those steps.                                           *)
(***************************************************************************)
EXTENDS Integers, FiniteSets

CONSTANTS Metrics,        \* the metrics of the config that have activations
          Activations, MetricOf, Ttl,   \* Activation::ttl_ns
          OnBoot,         \* those with activationType ACTIVATE_ON_BOOT
          Matches,        \* what an event can do: the activations whose deactivation
                          \* matcher it matches, and those it activates
          mIsAlwaysActive,   \* the config also has metrics without activations
          CoolDown,       \* WRITE_DATA_COOL_DOWN_SEC
          Late,           \* bound: how old an event is at most when it is handled
          MaxTime         \* bound: the last tick

ASSUME ActivationAssumption ==
    /\ OnBoot \subseteq Activations
    /\ MetricOf \in [Activations -> Metrics] /\ Ttl \in [Activations -> Nat]
    /\ Matches \subseteq (SUBSET Activations) \X (SUBSET Activations)
    /\ mIsAlwaysActive \in BOOLEAN
    /\ CoolDown \in Nat /\ Late \in Nat /\ MaxTime \in Nat

VARIABLES activation,   \* mEventActivationMap: state and start_ns
          mIsActive,    \* MetricProducer::mIsActive
          configActive, \* MetricsManager::mIsActive
          file,         \* the active_metrics file, or NoFile
          mLastActiveMetricsWriteNs,
          up,           \* statsd runs
          death,        \* where the system-server death handler is, its time
                        \* systemServerRestartNs and its activeConfigsProto
          now,          \* elapsed realtime
          deadline,     \* history: when the activation should end, or None
          owed,         \* history: what was left of it when file was written,
                        \* None, or Unknown if it was in raced or just reset
          raced,        \* history: activations that met the death handler half way
          covered       \* history: each metric the last event was handed to had an
                        \* activation that covers the time of the event

daemon == <<activation, mIsActive, configActive>>
history == <<deadline, owed, raced, covered>>
vars == <<daemon, file, mLastActiveMetricsWriteNs, up, death, now, history>>

None == -100000
Unknown == -200000
States == {"kNotActive", "kActive", "kActiveOnBoot"}
Of(m) == {a \in Activations : MetricOf[a] = m}

\* What is written for an activation: nothing, or a state and a remaining_ttl_nanos.
Absent == [state |-> "absent", remaining |-> 0]
NoProto == [a \in Activations |-> Absent]
NoFile == [there |-> FALSE, proto |-> NoProto]
Idle == [step |-> "idle", time |-> 0, proto |-> NoProto]

-----------------------------------------------------------------------------
(* MetricProducer and MetricsManager, as functions of the activations.     *)

NewActivations == [a \in Activations |-> [state |-> "kNotActive", start |-> 0]]
NewActive == [m \in Metrics |-> FALSE]

SomeActive(act, m) == \E a \in Of(m) : act[a].state = "kActive"

\* evaluateActiveStateLocked: the activations of metric m that are past their time end.
expire(act, m, t) ==
    [a \in Activations |->
       IF MetricOf[a] = m /\ act[a].state = "kActive" /\ t > act[a].start + Ttl[a]
       THEN [act[a] EXCEPT !.state = "kNotActive"] ELSE act[a]]

\* flushIfExpire at time t for the metrics in S.
flushIfExpire(act, active, S, t) ==
    LET due == {m \in S : active[m]}
        new == [a \in Activations |-> IF MetricOf[a] \in due THEN expire(act, MetricOf[a], t)[a]
                                      ELSE act[a]]
    IN [act |-> new,
        active |-> [m \in Metrics |-> IF m \in due THEN SomeActive(new, m) ELSE active[m]]]

cancelEventActivation(act, D) ==
    [a \in Activations |-> IF a \in D THEN [act[a] EXCEPT !.state = "kNotActive"] ELSE act[a]]

\* Faulty: an activation on boot starts at once.
activate_AtOnce(act, active, S, t) ==
    [act |-> [a \in Activations |-> IF a \in S THEN [state |-> "kActive", start |-> t] ELSE act[a]],
     active |-> [m \in Metrics |-> active[m] \/ S \cap Of(m) # {}]]

\* activateLocked for the activations in S.
activate(act, active, S, t) ==
    [act |-> [a \in Activations |->
        CASE a \in S \ OnBoot -> [state |-> "kActive", start |-> t]
          [] a \in S \cap OnBoot /\ act[a].state = "kNotActive" ->
               [act[a] EXCEPT !.state = "kActiveOnBoot"]
          [] OTHER -> act[a]],
     active |-> [m \in Metrics |-> active[m] \/ (S \ OnBoot) \cap Of(m) # {}]]

\* Faulty: whether the config is active is decided before metrics are activated.
onLogEvent_DecideEarly(act, active, t, D, S) ==
    LET f == flushIfExpire(act, active, Metrics, t)
        c == cancelEventActivation(f.act, D)
        g == flushIfExpire(c, f.active, {MetricOf[a] : a \in D}, t)
        r == activate(g.act, g.active, S, t)
    IN [act |-> r.act, active |-> r.active,
        config |-> mIsAlwaysActive \/ \E m \in Metrics : g.active[m]]

\* The activation part of MetricsManager::onLogEvent: the event at time t matches
\* the deactivation of the activations in D and the activation of those in S.
onLogEvent(act, active, t, D, S) ==
    LET f == flushIfExpire(act, active, Metrics, t)
        c == cancelEventActivation(f.act, D)
        g == flushIfExpire(c, f.active, {MetricOf[a] : a \in D}, t)
        r == activate(g.act, g.active, S, t)
    IN [act |-> r.act, active |-> r.active,
        config |-> \/ mIsAlwaysActive
                   \/ \E m \in Metrics : g.active[m]
                   \/ \E a \in S : r.active[MetricOf[a]]]

\* Faulty: activations on boot are written as active whatever the reason.
writeActiveMetric_NoReason(act, t, shutdown) ==
    [a \in Activations |->
       CASE act[a].state = "kActive" /\ t <= act[a].start + Ttl[a] ->
              [state |-> "ACTIVE", remaining |-> act[a].start + Ttl[a] - t]
         [] act[a].state = "kActiveOnBoot" -> [state |-> "ACTIVE", remaining |-> Ttl[a]]
         [] OTHER -> Absent]

\* writeActiveMetricToProtoOutputStream at time t; shutdown distinguishes the
\* reasons DEVICE_SHUTDOWN and TERMINATION_SIGNAL_RECEIVED from STATSCOMPANION_DIED.
writeActiveMetric(act, t, shutdown) ==
    [a \in Activations |->
       CASE act[a].state = "kActive" /\ t <= act[a].start + Ttl[a] ->
              [state |-> "ACTIVE", remaining |-> act[a].start + Ttl[a] - t]
         [] act[a].state = "kActiveOnBoot" /\ shutdown ->
              [state |-> "ACTIVE", remaining |-> Ttl[a]]
         [] act[a].state = "kActiveOnBoot" /\ ~shutdown ->
              [state |-> "ACTIVATE_ON_BOOT", remaining |-> 0]
         [] OTHER -> Absent]

\* loadActiveMetricLocked: the activations written in proto, as of time t.
loadActiveMetric(act, active, proto, t) ==
    [act |-> [a \in Activations |->
        CASE proto[a].state = "ACTIVE" ->
               [state |-> "kActive", start |-> t + proto[a].remaining - Ttl[a]]
          [] proto[a].state = "ACTIVATE_ON_BOOT" -> [act[a] EXCEPT !.state = "kActiveOnBoot"]
          [] OTHER -> act[a]],
     active |-> [m \in Metrics |-> active[m] \/ \E a \in Of(m) : proto[a].state = "ACTIVE"]]

\* MetricsManager::loadActiveConfig.
loadActiveConfig(act, active, config, proto, t) ==
    LET r == loadActiveMetric(act, active, proto, t) IN
    [act |-> r.act, active |-> r.active, config |-> config \/ \E m \in Metrics : r.active[m]]

\* A config as it is just after it was read from disk.
NewConfig == [act |-> NewActivations, active |-> NewActive, config |-> mIsAlwaysActive]

Become(r) ==
    activation' = r.act /\ mIsActive' = r.active /\ configActive' = r.config

-----------------------------------------------------------------------------
(* StatsLogProcessor and StatsService.                                     *)

Init ==
    /\ activation = NewActivations /\ mIsActive = NewActive /\ configActive = mIsAlwaysActive
    /\ file = NoFile /\ mLastActiveMetricsWriteNs = 0
    /\ up = TRUE /\ death = Idle /\ now = 0
    /\ deadline = [a \in Activations |-> None] /\ owed = [a \in Activations |-> None]
    /\ raced = {} /\ covered = TRUE

\* OnLogEvent.  When the TTL of the config is over the config is reset first.
OnLogEvent(t, D, S, ttlOver) ==
    /\ up
    /\ Become(IF ttlOver THEN onLogEvent(NewActivations, NewActive, t, D, S)
              ELSE onLogEvent(activation, mIsActive, t, D, S))
    /\ deadline' = [a \in Activations |->
         CASE a \in S \ OnBoot -> t + Ttl[a]
           [] a \notin S \ OnBoot /\ (ttlOver \/ a \in D) -> None
           [] OTHER -> deadline[a]]
    /\ raced' = CASE death.step # "idle" -> IF ttlOver THEN Activations ELSE raced \cup D \cup S
                  [] death.step = "idle" -> IF ttlOver THEN {} ELSE raced \ (D \cup (S \ OnBoot))
    /\ covered' = \A m \in Metrics : mIsActive'[m] =>
                     \E a \in Of(m) : activation'[a].state = "kActive"
                                        /\ t <= activation'[a].start + Ttl[a]
    /\ UNCHANGED <<file, mLastActiveMetricsWriteNs, up, death, now, owed>>

\* SaveActiveConfigsToDisk at time t.  ok is FALSE when the file cannot be opened
\* or a crash cuts the write short: the old one is deleted by then.
SaveActiveConfigsToDisk(ok) ==
    IF now < mLastActiveMetricsWriteNs + CoolDown
    THEN UNCHANGED <<file, mLastActiveMetricsWriteNs, owed>>
    ELSE /\ mLastActiveMetricsWriteNs' = now
         /\ file' = IF ok THEN [there |-> TRUE, proto |-> writeActiveMetric(activation, now, TRUE)]
                    ELSE NoFile
         /\ owed' = [a \in Activations |->
              IF a \in raced \/ death.step = "reset" THEN Unknown
              ELSE IF activation[a].state = "kActiveOnBoot" THEN Ttl[a]
              ELSE IF deadline[a] >= now THEN deadline[a] - now ELSE None]

informDeviceShutdown(ok) ==
    /\ up
    /\ SaveActiveConfigsToDisk(ok)
    /\ UNCHANGED <<daemon, up, death, now, deadline, raced, covered>>

\* The end of the process: what it had in memory is gone.
Exit ==
    /\ up /\ up' = FALSE
    /\ death' = Idle
    /\ Become(NewConfig)
    /\ deadline' = [a \in Activations |-> None] /\ raced' = {}
    /\ UNCHANGED <<now, covered>>

Terminate(ok) == SaveActiveConfigsToDisk(ok) /\ Exit

\* statsd is killed, or the power fails.
Crash == Exit /\ UNCHANGED <<file, mLastActiveMetricsWriteNs, owed>>

\* A new statsd, after a reboot or not: the constructor and Startup, which reads the
\* configs and then LoadActiveConfigsFromDisk.
Startup(reboot, ok) ==
    /\ ~up /\ up' = TRUE
    /\ now' = IF reboot THEN 0 ELSE now
    /\ mLastActiveMetricsWriteNs' = 0
    /\ LET n == NewConfig IN
       IF file.there /\ ok
       THEN /\ Become(loadActiveConfig(n.act, n.active, n.config, file.proto, now'))
            /\ deadline' = [a \in Activations |-> IF owed[a] >= 0 THEN now' + owed[a] ELSE None]
            /\ raced' = {a \in Activations : owed[a] = Unknown}
       ELSE /\ Become(n)
            /\ deadline' = [a \in Activations |-> None]
            /\ raced' = {}
    /\ file' = NoFile
    /\ owed' = [a \in Activations |-> None]
    /\ UNCHANGED <<death, covered>>

\* statsCompanionServiceDiedImpl: WriteActiveConfigsToProtoOutputStream ...
DeathRead ==
    /\ up /\ death.step = "idle"
    /\ death' = [step |-> "read", time |-> now, proto |-> writeActiveMetric(activation, now, FALSE)]
    /\ UNCHANGED <<daemon, file, mLastActiveMetricsWriteNs, up, now, history>>

\* ... resetConfigs ...
DeathReset ==
    /\ up /\ death.step = "read"
    /\ death' = [death EXCEPT !.step = "reset"]
    /\ Become(NewConfig)
    /\ UNCHANGED <<file, mLastActiveMetricsWriteNs, up, now, history>>

\* ... and SetConfigsActiveState.
DeathRestore ==
    /\ up /\ death.step = "reset"
    /\ death' = Idle
    /\ Become(loadActiveConfig(activation, mIsActive, configActive, death.proto, death.time))
    /\ UNCHANGED <<file, mLastActiveMetricsWriteNs, up, now, history>>

Tick ==
    /\ now < MaxTime /\ now' = now + 1
    /\ UNCHANGED <<daemon, file, mLastActiveMetricsWriteNs, up, death, history>>

EventTimes == {t \in 0..MaxTime : t <= now /\ now <= t + Late}

Next ==
    \/ \E t \in EventTimes, e \in Matches, ttlOver \in BOOLEAN : OnLogEvent(t, e[1], e[2], ttlOver)
    \/ \E ok \in BOOLEAN : informDeviceShutdown(ok) \/ Terminate(ok)
    \/ Crash
    \/ \E reboot, ok \in BOOLEAN : Startup(reboot, ok)
    \/ DeathRead \/ DeathReset \/ DeathRestore
    \/ Tick

Spec == Init /\ [][Next]_vars

-----------------------------------------------------------------------------
(* Properties.                                                             *)

Proto == [state : {"absent", "ACTIVE", "ACTIVATE_ON_BOOT"}, remaining : Int]

\* The types of the variables.  Only activations with an activation event can be
\* started at once, and only those of type ACTIVATE_ON_BOOT wait for a boot.
TypeOK ==
    /\ activation \in [Activations -> [state : States, start : Int]]
    /\ \A a \in Activations \ OnBoot : activation[a].state # "kActiveOnBoot"
    /\ mIsActive \in [Metrics -> BOOLEAN] /\ configActive \in BOOLEAN
    /\ file \in [there : BOOLEAN, proto : [Activations -> Proto]]
    /\ mLastActiveMetricsWriteNs \in Nat
    /\ up \in BOOLEAN
    /\ death \in [step : {"idle", "read", "reset"}, time : Nat, proto : [Activations -> Proto]]
    /\ now \in Nat
    /\ deadline \in [Activations -> Int] /\ owed \in [Activations -> Int]
    /\ raced \subseteq Activations /\ covered \in BOOLEAN

\* The three places that say what is active agree between handlers: a metric is
\* active when one of its activations is, and the config when one of its metrics is
\* (or one needs no activation), through expiry, cancellation, resets and restores.
ActiveAgrees ==
    /\ \A m \in Metrics : mIsActive[m] <=> SomeActive(activation, m)
    /\ configActive <=> (mIsAlwaysActive \/ \E m \in Metrics : mIsActive[m])

\* An activation lasts exactly its TTL from its last activation event, or from
\* the boot it waited for, unless it is cancelled: neither expiry, nor the death of
\* the system server, nor a restart of statsd lengthens or shortens it (a restart
\* stops its clock).  Activations that an event, a reset of the config or a save
\* touches half way through the death handler, or after the save, are left out.
DeadlineKept ==
    up /\ death.step = "idle" =>
      \A a \in Activations \ raced :
        /\ activation[a].state = "kActive" => activation[a].start + Ttl[a] = deadline[a]
        /\ deadline[a] >= now => activation[a].state = "kActive"

\* A metric that counts an event has an activation that covers the time of the
\* event: what expired is taken out before the event is handed to the metrics.
CountsOnlyWhileActive == covered

\* Metrics count only while an activation lasts, and an activation of type
\* ACTIVATE_ON_BOOT starts when statsd starts, and is otherwise only found active
\* again by the end of the death handler that found it active.
ActiveInTime ==
    [][/\ CountsOnlyWhileActive'
       /\ \A a \in OnBoot :
            activation[a].state # "kActive" /\ activation'[a].state = "kActive" =>
              ~up \/ (death.step = "reset" /\ death.proto[a].state = "ACTIVE")]_vars
=============================================================================
