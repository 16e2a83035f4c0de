------------------------------ MODULE Pullers ------------------------------
(***************************************************************************)
(* How statsd asks other processes for data: StatsPullerManager with the   *)
(* pullers it knows (StatsPuller, StatsCallbackPuller), the receivers it   *)
(* pulls for when the pulling alarm fires, and the one alarm that          *)
(* StatsCompanionService keeps for all of them.                            *)
(*                                                                         *)
(* One atom is modelled: pullers and receivers of different atoms share    *)
(* only mLock and the alarm, and two configs that read two different uids  *)
(* already do.  Three threads pull: the alarm's binder thread, a thread    *)
(* that handles a log event (a metric pulls when its condition changes)    *)
(* and a shell thread that prints an atom.  They meet at three locks,      *)
(* StatsLogProcessor::mMetricsMutex, StatsPullerManager::mLock and the     *)
(* metric's own mMutex.  A pull waits for another process with its locks   *)
(* held; everything else under mLock is one step.                          *)
(***************************************************************************)
EXTENDS Integers, FiniteSets, FiniteSetsExt, Sequences

CONSTANTS Uids,       \* processes that register a callback for the atom
          Configs,    \* config keys
          Receivers,  \* metrics pulled by the alarm (PullDataReceiver)
          ConfigOf,   \* the config of each receiver
          PullUids,   \* the uids each config pulls from, best first
          Minute,     \* alarms are whole minutes apart
          Ms,         \* clock units in a millisecond, the alarm's unit
          kMinCoolDownNs, kMaxTimeoutNs,  \* StatsPullerManager's limits
          CoolDown, Timeout,              \* what a callback asks for
          None,       \* nobody, nothing
          Start,      \* the time at which statsd starts
          MaxRegistrations, MaxConfigs,  \* bounds
          Instances   \* what varies: the features, the receivers, the uids
                      \* registered at first, and bounds: `pulls', and `last' on the
                      \* time at which something begins

VARIABLES now,        \* getElapsedRealtimeNs()
          m,          \* StatsPullerManager
          owner,      \* who holds each lock
          alarm,      \* the pulling alarm in AlarmManager, in ms, or None
          fired,      \* the alarm fired and informPollAlarmFired is to come
          onAlarm,    \* the alarm's thread
          puller,     \* the other pulling thread
          pull,       \* the pull that waits for a callback, or None
          asked,      \* requests no callback has answered yet
          result,     \* outcome of the last pull, for the properties
          dead,       \* registrations whose process has died
          cookies,    \* death notices still to be delivered
          current,    \* the registration each uid should have, 0 if none
          config,     \* the thread that replaces or removes a config
          manager,    \* the MetricsManager each config has now, 0 if none
          systemUp,   \* the system server runs
          counts,     \* bounds: registrations and event pulls so far
          instance    \* the one of Instances explored

vars == <<now, m, owner, alarm, fired, onAlarm, puller, pull, asked, result, dead,
          cookies, current, config, manager, systemUp, counts, instance>>

\* A request to a callback, which stands for the data it is answered with too.
Requests == [id : Nat, start : Nat, event : Nat]

\* A pull that waits for the answer to its request.
Pulls == [by : {"alarm", "event"}, uid : Uids, start : Nat, event : Nat, finish : BOOLEAN,
          success : BOOLEAN, data : SUBSET Requests]

\* A puller, see NewPuller.
PullerStates == [id : Nat, coolDown : {Max({CoolDown, kMinCoolDownNs})},
                 timeout : {Min({Timeout, kMaxTimeoutNs})}, lastPull : Nat, lastEvent : Nat,
                 good : BOOLEAN, cached : SUBSET Requests]

\* When a receiver is next pulled for, and how often.
Schedules == [next : Nat, interval : Nat \ {0}]

ASSUME PullersAssumption ==
    /\ Start \in Nat \ {0, 1} /\ {CoolDown, kMinCoolDownNs, Timeout, kMaxTimeoutNs} \subseteq Nat
    /\ Minute \in Nat \ {0} /\ Ms \in Nat \ {0}
    /\ ConfigOf \in [Receivers -> Configs] /\ PullUids \in [Configs -> Seq(Uids)]
    /\ None \notin Configs \cup Pulls \cup PullerStates \cup Schedules \cup Nat
    /\ None \notin {"alarm", "event", "config"}
    /\ {"mMetricsMutex", "mLock"} \cap Receivers = {} /\ \A i \in Instances : i.receivers \subseteq Receivers

\* Nothing is due: INT64_MAX in the code.
NO_ALARM_UPDATE == 1000

\* A puller as its constructor leaves it.
NewPuller(id) == [id |-> id, coolDown |-> Max({CoolDown, kMinCoolDownNs}),
                  timeout |-> Min({Timeout, kMaxTimeoutNs}),
                  lastPull |-> 0, lastEvent |-> 0, good |-> FALSE, cached |-> {}]

Locks == {"mMetricsMutex", "mLock"} \cup Receivers
Idle == [at |-> "idle"]
NoResult == [ok |-> FALSE, data |-> {}]

Init ==
    /\ instance \in Instances
    /\ now = Start
    /\ m = [pullers |-> [u \in Uids |-> IF u \in instance.callbacks THEN NewPuller(1) ELSE None],
            receivers |-> [r \in Receivers |-> None],
            providers |-> [c \in Configs |-> 1], mNextPullTimeNs |-> NO_ALARM_UPDATE,
            companion |-> TRUE]
    /\ owner = [l \in Locks |-> None]
    /\ alarm = None /\ fired = FALSE
    /\ onAlarm = Idle /\ puller = Idle /\ pull = None /\ asked = {}
    /\ result = NoResult
    /\ dead = {} /\ cookies = {[uid |-> u, id |-> 1] : u \in instance.callbacks} /\ current = [u \in Uids |-> IF u \in instance.callbacks THEN 1 ELSE 0]
    /\ config = Idle /\ manager = [c \in Configs |-> 1]
    /\ systemUp = TRUE
    /\ counts = [registrations |-> 1, pulls |-> 0, configs |-> 1]

Free(l) == owner[l] = None
Registered(r) == m.receivers[r] # None

-----------------------------------------------------------------------------
(* The alarm.                                                              *)

\* StatsPullerManager::updateAlarmLocked: the alarm after it.  setExact
\* replaces the alarm set before; milliseconds are rounded down.
updateAlarmLocked(mm) ==
    IF mm.mNextPullTimeNs = NO_ALARM_UPDATE \/ ~mm.companion \/ ~systemUp THEN alarm
    ELSE mm.mNextPullTimeNs \div Ms

\* AlarmManager runs PullingAlarmListener.onAlarm once the time has come.
AlarmFires ==
    /\ systemUp /\ alarm # None /\ alarm * Ms <= now
    /\ now <= instance.last \/ \E r \in Receivers : Registered(r) /\ m.receivers[r].next <= instance.last
    /\ alarm' = None /\ fired' = TRUE
    /\ UNCHANGED <<now, m, owner, onAlarm, puller, pull, asked, result, dead, cookies, current,
                   config, manager, systemUp, counts, instance>>

\* StatsService::informPollAlarmFired reads the clock before any lock.
informPollAlarmFired ==
    /\ fired /\ onAlarm = Idle
    /\ fired' = FALSE
    /\ onAlarm' = [at |-> "called", elapsed |-> now]
    /\ UNCHANGED <<now, m, owner, alarm, puller, pull, asked, result, dead, cookies, current, config, manager,
                   systemUp, counts, instance>>

\* Faulty: the processor's lock is not taken around OnAlarmFired.
informPullAlarmFired_Unlocked ==
    /\ onAlarm.at = "called"
    /\ onAlarm' = [onAlarm EXCEPT !.at = "locking"]
    /\ UNCHANGED <<now, m, owner, alarm, fired, puller, pull, asked, result, dead, cookies, current,
                   config, manager, systemUp, counts, instance>>

\* StatsLogProcessor::informPullAlarmFired takes the processor's lock.
informPullAlarmFired ==
    /\ onAlarm.at = "called" /\ Free("mMetricsMutex")
    /\ owner' = [owner EXCEPT !["mMetricsMutex"] = "alarm"]
    /\ onAlarm' = [onAlarm EXCEPT !.at = "locking"]
    /\ UNCHANGED <<now, m, alarm, fired, puller, pull, asked, result, dead, cookies, current, config, manager,
                   systemUp, counts, instance>>

\* First half of OnAlarmFired: which receivers are due, and when the others
\* are.  A receiver that is being destroyed is still in the list.
OnAlarmFired ==
    /\ onAlarm.at = "locking" /\ Free("mLock")
    /\ LET due == {r \in Receivers : Registered(r) /\ m.receivers[r].next <= onAlarm.elapsed}
           rest == {r \in Receivers : Registered(r)} \ due
       IN onAlarm' = [at |-> "pulling", elapsed |-> onAlarm.elapsed, due |-> due,
                      todo |-> {ConfigOf[r] : r \in due}, config |-> None,
                      min |-> Min({NO_ALARM_UPDATE} \cup {m.receivers[r].next : r \in rest})]
    /\ owner' = [owner EXCEPT !["mLock"] = "alarm"]
    /\ UNCHANGED <<now, m, alarm, fired, puller, pull, asked, result, dead, cookies, current, config, manager,
                   systemUp, counts, instance>>

-----------------------------------------------------------------------------
(* One pull.  StartPull and FinishPull are the two halves of               *)
(* StatsPuller::Pull around the wait in StatsCallbackPuller::PullInternal. *)

shouldUseCache(p, event) == p.lastEvent = event \/ now - p.lastPull < p.coolDown

Outcome(ok, data, event, time, p) ==
    [ok |-> ok, data |-> data, event |-> event, time |-> time, cool |-> p.coolDown, id |-> p.id]

\* StatsPullerManager::PullLocked(tag, uids) picks the puller of the first
\* uid that has one; StatsPuller::Pull then uses its cache or asks the
\* callback.  `after' is what the thread does with the outcome.
StartPull(by, uids, event) ==
    LET known == {i \in DOMAIN uids : m.pullers[uids[i]] # None}
        u == uids[Min(known)]
        p == m.pullers[u]
        fresh == [p EXCEPT !.cached = {}, !.lastPull = now, !.lastEvent = event]
    IN IF known = {}
       THEN /\ result' = NoResult
            /\ UNCHANGED <<m, pull, asked>>
       ELSE IF shouldUseCache(p, event)
       THEN /\ result' = Outcome(p.good, IF p.good THEN p.cached ELSE {}, event, now, p)
            /\ UNCHANGED <<m, pull, asked>>
       ELSE IF p.id \in dead   \* onPullAtom fails at once
       THEN /\ m' = [m EXCEPT !.pullers[u] = [fresh EXCEPT !.good = FALSE]]
            /\ result' = Outcome(FALSE, {}, event, now, p)
            /\ UNCHANGED <<pull, asked>>
       ELSE /\ m' = [m EXCEPT !.pullers[u] = fresh]
            /\ pull' = [by |-> by, uid |-> u, start |-> now, event |-> event, finish |-> FALSE,
                        success |-> FALSE, data |-> {}]
            /\ asked' = asked \cup {[id |-> p.id, start |-> now, event |-> event]}
            /\ UNCHANGED result

\* The receiver of an answer writes to variables of the pull that made it,
\* which nobody reads once that pull has timed out.
Answers(q) == pull # None /\ q.start = pull.start /\ q.id = m.pullers[pull.uid].id

\* The callback answers, with data or with a failure, in a binder thread.
\* A process that has died answers no more.
Answer ==
    \E q \in asked, success \in BOOLEAN :
    /\ q.id \notin dead
    /\ asked' = asked \ {q}
    /\ pull' = IF Answers(q)
               THEN [pull EXCEPT !.finish = TRUE, !.success = success,
                                 !.data = IF success THEN {q} ELSE {}]
               ELSE pull
    /\ UNCHANGED <<now, m, owner, alarm, fired, onAlarm, puller, result, dead, cookies, current,
                   config, manager, systemUp, counts, instance>>

TimedOut(p) == now - pull.start > p.timeout

\* Faulty: the pull that timed out is taken for a successful empty one.
Good_Always(p) == pull.success \/ ~pull.finish

\* What mHasGoodData becomes.  When the wait ends without an answer
\* PullInternal reports success, and it is the time taken, which includes
\* the call that starts the pull, that shows the timeout.
Good(p) == (pull.success \/ ~pull.finish) /\ ~TimedOut(p)

\* The wait is over: with an answer, or after the timeout.
FinishPull(by) ==
    /\ pull # None /\ pull.by = by
    /\ LET p == m.pullers[pull.uid]
           data == IF Good(p) THEN pull.data ELSE {}
       IN /\ pull.finish \/ TimedOut(p)
          /\ m' = [m EXCEPT !.pullers[pull.uid].good = Good(p), !.pullers[pull.uid].cached = data]
          /\ result' = Outcome(Good(p), data, pull.event, pull.start, p)
    /\ pull' = None
    /\ UNCHANGED <<now, alarm, fired, asked, dead, cookies, current, config, manager, systemUp, counts,
                   instance>>

-----------------------------------------------------------------------------
(* Second half of OnAlarmFired.                                            *)

\* The uids a config pulls from: none without a live PullUidProvider.
UidsOf(c) == IF m.providers[c] # 0 /\ m.providers[c] = manager[c] THEN PullUids[c] ELSE <<>>

\* The next config with receivers that are due is pulled for, at the time
\* the alarm was reported.
PullForAlarm ==
    /\ onAlarm.at = "pulling" /\ onAlarm.config = None
    /\ \E c \in onAlarm.todo :
          /\ StartPull("alarm", UidsOf(c), onAlarm.elapsed)
          /\ onAlarm' = [onAlarm EXCEPT !.config = c]
    /\ UNCHANGED <<now, owner, alarm, fired, puller, dead, cookies, current, config, manager,
                   systemUp, counts, instance>>

FinishForAlarm == FinishPull("alarm") /\ UNCHANGED <<owner, onAlarm, puller>>

\* "We may have just come out of a coma, compute next pull time."
NextPull(info) ==
    info.next + ((onAlarm.elapsed - info.next) \div info.interval + 1) * info.interval

Gone(r) == config.at = "destroying" /\ r \in config.receivers

\* onDataPulled of one receiver, which takes the metric's lock.  One whose
\* object is gone gets nothing, is not moved and sets no alarm.
DeliverToReceiver ==
    /\ onAlarm.at = "pulling" /\ onAlarm.config # None /\ pull = None
    /\ \E r \in onAlarm.due :
       LET next == NextPull(m.receivers[r])
       IN /\ ConfigOf[r] = onAlarm.config
          /\ Gone(r) \/ Free(r)
          /\ IF Gone(r)
             THEN m' = m /\ onAlarm' = [onAlarm EXCEPT !.due = @ \ {r}]
             ELSE /\ m' = [m EXCEPT !.receivers[r].next = next]
                  /\ onAlarm' = [onAlarm EXCEPT !.due = @ \ {r}, !.min = Min({@, next})]
    /\ UNCHANGED <<now, owner, alarm, fired, puller, pull, asked, result, dead, cookies, current,
                   config, manager, systemUp, counts, instance>>

\* Every receiver of the config has been served.
NextConfig ==
    /\ onAlarm.at = "pulling" /\ onAlarm.config # None /\ pull = None
    /\ \A r \in onAlarm.due : ConfigOf[r] # onAlarm.config
    /\ onAlarm' = [onAlarm EXCEPT !.config = None, !.todo = @ \ {onAlarm.config}]
    /\ result' = NoResult
    /\ UNCHANGED <<now, m, owner, alarm, fired, puller, pull, asked, dead, cookies, current,
                   config, manager, systemUp, counts, instance>>

\* The end of OnAlarmFired: the alarm is set again and the locks released.
AlarmDone ==
    /\ onAlarm.at = "pulling" /\ onAlarm.config = None /\ onAlarm.todo = {}
    /\ m' = [m EXCEPT !.mNextPullTimeNs = onAlarm.min]
    /\ alarm' = updateAlarmLocked(m')
    /\ owner' = [l \in Locks |-> IF owner[l] = "alarm" THEN None ELSE owner[l]]
    /\ onAlarm' = Idle
    /\ UNCHANGED <<now, fired, puller, pull, asked, result, dead, cookies, current, config, manager,
                   systemUp, counts, instance>>

-----------------------------------------------------------------------------
(* The other pulling threads.                                              *)

\* A log event changes the condition of metric r, under the processor's
\* lock and the metric's.  The event may have been logged a moment ago.
ConditionChanges ==
    /\ "events" \in instance.features
    /\ puller = Idle /\ counts.pulls < instance.pulls /\ now <= instance.last
    /\ Free("mMetricsMutex")
    /\ \E r \in Receivers, late \in {0, 1} :
          /\ Registered(r) /\ Free(r)
          /\ puller' = [at |-> "locking", from |-> ConfigOf[r], event |-> now - late]
          /\ owner' = [owner EXCEPT !["mMetricsMutex"] = "event", ![r] = "event"]
    /\ counts' = [counts EXCEPT !.pulls = @ + 1]
    /\ UNCHANGED <<now, m, alarm, fired, onAlarm, pull, asked, result, dead, cookies, current,
                   config, manager, systemUp, instance>>

\* cmd_print_pulled_metrics, and ShellSubscriber's puller thread.
ShellPulls ==
    /\ "shell" \in instance.features
    /\ puller = Idle /\ counts.pulls < instance.pulls /\ now <= instance.last
    /\ \E u \in Uids : puller' = [at |-> "locking", from |-> u, event |-> now]
    /\ counts' = [counts EXCEPT !.pulls = @ + 1]
    /\ UNCHANGED <<now, m, owner, alarm, fired, onAlarm, pull, asked, result, dead, cookies,
                   current, config, manager, systemUp, instance>>

\* StatsPullerManager::Pull takes mLock.
Pull ==
    /\ puller.at = "locking" /\ Free("mLock")
    /\ StartPull("event", IF puller.from \in Configs THEN UidsOf(puller.from) ELSE <<puller.from>>,
                 puller.event)
    /\ puller' = [at |-> "pulling"]
    /\ owner' = [owner EXCEPT !["mLock"] = "event"]
    /\ UNCHANGED <<now, alarm, fired, onAlarm, dead, cookies, current, config, manager, systemUp,
                   counts, instance>>

FinishForEvent == FinishPull("event") /\ UNCHANGED <<owner, onAlarm, puller>>

PullReturns ==
    /\ puller.at = "pulling" /\ pull = None
    /\ puller' = Idle
    /\ owner' = [l \in Locks |-> IF owner[l] = "event" THEN None ELSE owner[l]]
    /\ result' = NoResult
    /\ UNCHANGED <<now, m, alarm, fired, onAlarm, pull, asked, dead, cookies, current,
                   config, manager, systemUp, counts, instance>>

-----------------------------------------------------------------------------
(* Callbacks come and go.                                                  *)

\* RegisterPullAtomCallback: a new puller replaces the one of the same uid
\* and watches for the death of its process.
RegisterPullAtomCallback ==
    /\ "callbacks" \in instance.features
    /\ Free("mLock") /\ counts.registrations < MaxRegistrations /\ now <= instance.last
    /\ \E u \in Uids :
       LET id == counts.registrations + 1
       IN /\ m' = [m EXCEPT !.pullers[u] = NewPuller(id)]
          /\ cookies' = cookies \cup {[uid |-> u, id |-> id]}
          /\ current' = [current EXCEPT ![u] = id]
          /\ counts' = [counts EXCEPT !.registrations = id]
    /\ UNCHANGED <<now, owner, alarm, fired, onAlarm, puller, pull, asked, result, dead, config,
                   manager, systemUp, instance>>

UnregisterPullAtomCallback ==
    /\ "callbacks" \in instance.features /\ Free("mLock")
    /\ \E u \in Uids :
          /\ m.pullers[u] # None
          /\ m' = [m EXCEPT !.pullers[u] = None]
          /\ current' = [current EXCEPT ![u] = 0]
    /\ UNCHANGED <<now, owner, alarm, fired, onAlarm, puller, pull, asked, result, dead, cookies,
                   config, manager, systemUp, counts, instance>>

\* The process of a uid dies, and may start again and register anew before
\* statsd hears of it.
ProcessDies ==
    /\ "callbacks" \in instance.features
    /\ \E u \in Uids :
       LET ids == {k.id : k \in {x \in cookies : x.uid = u}} \ dead
       IN ids # {} /\ dead' = dead \cup ids
    /\ UNCHANGED <<now, m, owner, alarm, fired, onAlarm, puller, pull, asked, result, cookies,
                   current, config, manager, systemUp, counts, instance>>

\* Faulty: whatever puller the uid has now is removed.
SamePuller_Any(k) == TRUE

\* The cookie names the puller that the dead process registered.
SamePuller(k) == m.pullers[k.uid].id = k.id

pullAtomCallbackDied ==
    /\ Free("mLock")
    /\ \E k \in cookies :
          /\ k.id \in dead
          /\ cookies' = cookies \ {k}
          /\ m' = IF m.pullers[k.uid] # None /\ SamePuller(k)
                  THEN [m EXCEPT !.pullers[k.uid] = None] ELSE m
    /\ UNCHANGED <<now, owner, alarm, fired, onAlarm, puller, pull, asked, result, dead, current,
                   config, manager, systemUp, counts, instance>>

\* StatsPuller::clearCacheLocked.
Cleared(p) == [p EXCEPT !.cached = {}, !.lastPull = 0, !.lastEvent = 0]

\* ForceClearPullerCache: every puller (a config arrives, or a shell asks).
ForceClearPullerCache ==
    /\ "clear" \in instance.features /\ Free("mLock")
    /\ m' = [m EXCEPT !.pullers = [u \in Uids |-> IF @[u] = None THEN None ELSE Cleared(@[u])]]
    /\ UNCHANGED <<now, owner, alarm, fired, onAlarm, puller, pull, asked, result, dead, cookies,
                   current, config, manager, systemUp, counts, instance>>

\* ClearPullerCacheIfNecessary, which OnLogEvent calls every so often.
ClearPullerCacheIfNecessary ==
    /\ "clear" \in instance.features /\ Free("mLock") /\ Free("mMetricsMutex")
    /\ m' = [m EXCEPT !.pullers = [u \in Uids |->
                IF @[u] # None /\ now - @[u].lastPull > @[u].coolDown THEN Cleared(@[u]) ELSE @[u]]]
    /\ UNCHANGED <<now, owner, alarm, fired, onAlarm, puller, pull, asked, result, dead, cookies,
                   current, config, manager, systemUp, counts, instance>>

-----------------------------------------------------------------------------
(* Receivers and configs.                                                  *)

Rounded(interval) == Max({Minute, (interval \div Minute) * Minute})

\* RegisterReceiver, from the constructor of a metric of a config that is
\* being installed: first pull at the end of the current bucket.
RegisterReceiver ==
    /\ Free("mMetricsMutex") /\ Free("mLock") /\ now <= instance.last
    /\ \E r \in instance.receivers, next \in now + 1 .. now + 2, interval \in {1, Minute + 1} :
          /\ manager[ConfigOf[r]] # 0 /\ ~Registered(r)
          /\ m' = [m EXCEPT !.receivers[r] = [next |-> next, interval |-> Rounded(interval)],
                            !.mNextPullTimeNs = Min({@, next})]
          /\ alarm' = IF next < m.mNextPullTimeNs THEN updateAlarmLocked(m') ELSE alarm
    /\ UNCHANGED <<now, owner, fired, onAlarm, puller, pull, asked, result, dead, cookies, current,
                   config, manager, systemUp, counts, instance>>

\* A config is replaced or removed: the new MetricsManager registers itself
\* as PullUidProvider, and after that the old one is destroyed.
OnConfigUpdated ==
    /\ "configs" \in instance.features /\ counts.configs < MaxConfigs
    /\ Free("mMetricsMutex") /\ Free("mLock")
    /\ \E c \in Configs, new \in {0, counts.configs + 1} :
          /\ manager[c] # 0
          /\ owner' = [owner EXCEPT !["mMetricsMutex"] = "config"]
          /\ config' = [at |-> "destroying", config |-> c, old |-> manager[c],
                        receivers |-> {r \in Receivers : Registered(r) /\ ConfigOf[r] = c}]
          /\ manager' = [manager EXCEPT ![c] = new]
          /\ m' = IF new = 0 THEN m ELSE [m EXCEPT !.providers[c] = new]
    /\ counts' = [counts EXCEPT !.configs = @ + 1]
    /\ UNCHANGED <<now, alarm, fired, onAlarm, puller, pull, asked, result, dead, cookies, current,
                   systemUp, instance>>

SameProvider(c, old) == m.providers[c] = old

\* The old metrics unregister as receivers, the old manager as provider.
DestroyOld ==
    /\ config.at = "destroying" /\ Free("mLock")
    /\ m' = [m EXCEPT
               !.receivers = [r \in Receivers |-> IF r \in config.receivers THEN None ELSE @[r]],
               !.providers[config.config] = IF SameProvider(config.config, config.old) THEN 0 ELSE @]
    /\ owner' = [owner EXCEPT !["mMetricsMutex"] = None]
    /\ config' = Idle
    /\ UNCHANGED <<now, alarm, fired, onAlarm, puller, pull, asked, result, dead, cookies, current,
                   manager, systemUp, counts, instance>>

-----------------------------------------------------------------------------
(* The system server, which holds the alarm.                               *)

ReadyAlarm(mm) == updateAlarmLocked(mm)

\* statsCompanionReady.  The death of an earlier companion has been handled
\* by then: a system server takes much longer to start.
statsCompanionReady ==
    /\ systemUp /\ ~m.companion /\ Free("mLock")
    /\ m' = [m EXCEPT !.companion = TRUE]
    /\ alarm' = ReadyAlarm(m')
    /\ UNCHANGED <<now, owner, fired, onAlarm, puller, pull, asked, result, dead, cookies, current,
                   config, manager, systemUp, counts, instance>>

\* The system server dies, and its alarms with it.
SystemServerDies ==
    /\ "companion" \in instance.features /\ systemUp /\ now <= instance.last
    /\ systemUp' = FALSE /\ alarm' = None
    /\ fired' \in {FALSE, fired}
    /\ UNCHANGED <<now, m, owner, onAlarm, puller, pull, asked, result, dead, cookies,
                   current, config, manager, counts, instance>>

\* statsCompanionServiceDied; a new system server starts afterwards.
statsCompanionServiceDied ==
    /\ ~systemUp /\ m.companion /\ Free("mLock")
    /\ m' = [m EXCEPT !.companion = FALSE]
    /\ systemUp' = TRUE
    /\ UNCHANGED <<now, owner, alarm, fired, onAlarm, puller, pull, asked, result, dead, cookies,
                   current, config, manager, counts, instance>>

\* Time passes, beyond the last time only for a pull that waits for its timeout.
Tick ==
    /\ now < instance.last \/ (pull # None /\ ~TimedOut(m.pullers[pull.uid]))
    /\ now' = now + 1
    /\ UNCHANGED <<m, owner, alarm, fired, onAlarm, puller, pull, asked, result, dead, cookies,
                   current, config, manager, systemUp, counts, instance>>

AlarmThread == informPollAlarmFired \/ informPullAlarmFired \/ OnAlarmFired \/ PullForAlarm
               \/ FinishForAlarm \/ DeliverToReceiver \/ NextConfig \/ AlarmDone
PullerThread == Pull \/ FinishForEvent \/ PullReturns

Next ==
    \/ AlarmFires \/ AlarmThread \/ PullerThread \/ DestroyOld \/ Tick
    \/ ConditionChanges \/ ShellPulls \/ Answer
    \/ RegisterPullAtomCallback \/ UnregisterPullAtomCallback \/ ProcessDies \/ pullAtomCallbackDied
    \/ ForceClearPullerCache \/ ClearPullerCacheIfNecessary \/ RegisterReceiver \/ OnConfigUpdated
    \/ statsCompanionReady \/ SystemServerDies \/ statsCompanionServiceDied

\* Threads that can run do run, the clock advances and AlarmManager fires an
\* alarm whose time has come.  No callback has to answer.
Fairness == /\ WF_vars(AlarmFires) /\ WF_vars(AlarmThread) /\ WF_vars(PullerThread)
            /\ WF_vars(DestroyOld) /\ WF_vars(Tick)

Spec == Init /\ [][Next]_vars /\ Fairness

-----------------------------------------------------------------------------
(* Properties.                                                             *)

\* While the companion is there, an alarm is armed no later than the next
\* pull of every receiver: through registrations of earlier and later
\* receivers, late alarms, receivers that leave, milliseconds that are
\* rounded, and a companion that dies and comes back.
AlarmArmed ==
    m.companion /\ systemUp /\ ~fired /\ onAlarm = Idle =>
        \A r \in Receivers : Registered(r) /\ ~Gone(r) =>
            alarm # None /\ alarm * Ms <= m.receivers[r].next

\* Data that a pull returns as good was asked for within the cool down, or
\* for the same event, from the puller registered now; the answer of a pull
\* that timed out, an answer to an earlier request and a cleared cache are
\* never returned.
PulledDataRight ==
    result.ok => /\ result.data # {}
                 /\ \A d \in result.data :
                      /\ d.id = result.id
                      /\ result.time - d.start < result.cool \/ d.event = result.event

\* The death of a process never takes away the puller that it registered
\* after a restart, and the end of a config's old MetricsManager never takes
\* away the new one as pull uid provider.
RegistrationsKept ==
    /\ \A u \in Uids : current[u] # 0 /\ current[u] \notin dead =>
           m.pullers[u] # None /\ m.pullers[u].id = current[u]
    /\ config = Idle => m.providers = manager

Due(r) == Registered(r) /\ m.receivers[r].next <= Min({now, instance.last}) /\ m.companion /\ systemUp

\* A receiver whose time has come is pulled for, or leaves: whatever the
\* callbacks answer, and although the alarm's thread holds mLock when it
\* wants a metric's mMutex while a metric that pulls holds its mMutex when
\* it wants mLock.
PullsHappen == \A r \in Receivers : Due(r) ~> ~Due(r)

\* What is registered stays in force: the alarm is set for the next pull of every
\* receiver, and pullers and pull uid providers outlive the ends of their predecessors.
RegistrationsInForce == AlarmArmed /\ RegistrationsKept
=============================================================================
