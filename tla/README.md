# statsd in TLA+

A TLA+ model of statsd, the Android metrics daemon (`src/bin`), of the client
library that answers its pulls (`src/lib/libstatspull`) and of the parts of the system
server it talks to, as far as they can be model checked or proved.

## 1. The system: an inventory

statsd is one process. Clients write *atoms* (events) to a datagram socket. A
socket thread reads them into a bounded buffer; a reader thread hands each one
to `StatsLogProcessor`, which hands it to the `MetricsManager` of every
installed config; each manager runs matchers, conditions, states and metric
producers over it. Binder threads (a pool of 9) deliver everything else:
configs, report requests, alarms, puller callbacks, package changes, shell
subscriptions.

| part | state | operations | concurrency, persistence, limits |
|---|---|---|---|
| client writer (`libstatssocket`) | socket, `dropped`, last error and tag | open, close, write, note drop | any client thread; statsd may be down; drops are counted and reported in a later datagram |
| event buffer (`LogEventQueue`) | `mQueue`, condition variable | `push`, `waitPop` | two threads; limit 4000; refused when full |
| `StatsLogProcessor` | managers per config, last-flush, last-broadcast, last-activation times | `OnLogEvent`, `onDumpReport`, config updated/removed, alarms, write/load data, activations, metadata | one mutex for all handlers; data, activations and metadata are written to disk at shutdown, at system-server death and before a config changes |
| `MetricsManager` | log sources, trackers, producers, TTL | `onLogEvent`, `onDumpReport`, `updateConfig`, activations | under the processor's mutex |
| metric activation (`MetricProducer`) | state, start, ttl per activation | activate, cancel, expire, save, load | "activate on boot", TTL across restarts |
| count, duration, value, gauge, event producers | current bucket, past buckets, base values | event, condition, state, pull, flush, dump, drop | bucket boundaries, guardrails, late events, pull failures |
| anomaly detection (`AnomalyTracker`) | ring of past buckets and its sum, refractory period | add bucket, detect, declare, save, load | alarm callbacks race events |
| alarms (`AlarmMonitor`, `DurationAnomalyTracker`, `AlarmTracker`) | priority queue, registered alarm time | add, remove, pop, companion service restart | own mutex; alarm callback on a binder thread |
| pullers (`StatsPullerManager`, `StatsPuller`, `StatsCallbackPuller`) | receivers and next pull time, cache, callbacks | register, unregister, alarm fired, pull, callback died | own mutex; timeout with late answers; cool-down |
| conditions (`SimpleConditionTracker`, `CombinationConditionTracker`, `ConditionTimer`) | sliced counts, initial value, timer | evaluate, is-met | nested counting, stop-all |
| states (`StateTracker`, `StateManager`) | value per primary key, listeners | event, reset, register | notification of listeners |
| configs (`ConfigManager`) | configs, receivers, files | startup, update, remove, receivers, death | own mutex; listeners are called after it is released |
| storage (`StorageManager`) | files | write, read, trim, append reports | file count, size and age limits; crash between steps |
| package map (`UidMap`) | uid to app, change log, isolated uids | update, remove, snapshot, append | own mutex; limit on change bytes |
| shell subscriber (`ShellSubscriber`) | token, subscription, client | start, wait, event, heartbeat | two locks and a condition variable |
| train info (`onBinaryPushStateChanged`) | file | update on event | |
| service boot (`StatsService`, `MultiConditionTrigger`) | companion service, boot flags | boot, death of companion, terminate | binder threads, death recipients |
| guardrail statistics (`StatsdStats`) | counters | note, dump, reset | own mutex |
| parsing and encoding (`LogEvent`, `FieldValue`, `HashableDimensionKey`, `stats_log_util`, `stats_event`) | none | pure conversions | |
| Java service and framework | registration maps, alarms | binder calls | |

Two things shape the concurrency of the whole daemon and of the models. First,
`StatsLogProcessor::mMetricsMutex` is held through each of its handlers, so
handlers do not interleave with one another; what does interleave is everything
that does not take it (the companion service coming and going, `ConfigManager`'s
own lock, the event buffer, shell subscriptions, the processes statsd pulls
from) and every operation that takes it several times. Secondly, the binder service is registered (`main.cpp:85`)
before startup has run (`main.cpp:95`), so calls arrive in a half-started daemon.

## 2. The modules

A definition keeps the name of the function it models where it can. A definition
whose name ends in `_Something`, with a comment that begins "Faulty", "A
plausible slip" or the like, is not part of the model: it is a wrong version of
the definition after it, kept to confirm that a property notices the difference.
Variables under a comment "history" are not part of the program; they remember
what a property speaks of.

| module | models | built on | proofs |
|---|---|---|---|
| `LogEventQueue`, refining `LossyFifo` | event buffer with its two threads | | `LogEventQueueProofs` |
| `AnomalyAlarms` | alarms of duration anomalies | `AlarmMonitor` | `AnomalyAlarmsProofs` |
| `CountMetric` | count metric with an alert | `AnomalyTracker` | |
| `DurationMetric` | duration metrics of all kinds with an alert | `DurationTrackers`, `AnomalyTracker` | |
| `PulledMetric` | value and gauge metrics, pushed and pulled | `ValueProducer`, `GaugeProducer`, `ConditionTimer`, `AnomalyTracker` | |
| `Pullers` | pullers, receivers, the pulling alarm, three locks | beside `PullMerge` | `PullersProofs` |
| `StatsdClients` | statsd's deaths as its clients see them | `StatsdProcess`, `StatsCompanion` (Java), `PullAtomClient` (native) | `StatsdClientsProofs`, `StatsCompanionProofs` |
| `MetricActivation` | activations over restarts and system-server deaths | | `MetricActivationProofs` |
| `ConfigManager` | config registry, files, processor | | `ConfigManagerProofs` |
| `ConfigUpdate` | a `MetricsManager`: construction, modular update, dispatch | `ConfigGraph`, `Conditions` | |
| `Reports` | recorded data on its way to its owner | `ReportFiles`, `UidMap` | |
| `ShellSubscriber` | shell subscriptions | | `ShellSubscriberProofs` |

**`LogEventQueue`.** `push` and `waitPop` are one step per critical section;
`notify_one` is a step of its own because `push` calls it after unlocking, and
waking up is another. Events are numbered by arrival. The listener also receives
notes of events lost in the client, which are only counted. `LossyFifo` is the
abstract channel: it delivers in order and may refuse only what it counts.

**`AlarmMonitor`, `AnomalyAlarms`.** `AlarmMonitor` has each operation as an
operator from the monitor before to the monitor after, with the priority queue as
a set and the companion's alarm clock as a field `armed`. `AnomalyAlarms` adds
the trackers that own alarms (`DurationAnomalyTracker`), refractory periods, which
a tracker that is destroyed with its config takes along, and
the part of `OnLogEvent` that serves as the clock of anomaly alarms. Handlers
hold `mMetricsMutex`, but `statsCompanionReady` does not, so every call to the
monitor is a step and the companion may change between any two. Time is in ticks
with `TicksPerSec` to a second, so that rounding up and down is real.

**`AnomalyTracker`.** The circular array of past buckets, its cached sum and the
threshold test, as operators that all metrics with an alert share.

**`CountMetric`.** The producer's handlers, each one action because it holds
`mMutex`; the record `M` is passed through `flushIfNeededLocked` and
`flushCurrentBucketLocked` as the code passes its fields. Handlers are given
times in any order, because binder threads read the time before they wait for
`mMetricsMutex`. The condition of an event is an input. State slicing only
changes which key an event has and is not modelled.

**`DurationTrackers`, `DurationMetric`.** `OringDurationTracker` and
`MaxDurationTracker` as operators on a record that holds the whole metric;
`DurationMetric` drives them with starts, stops, three kinds of condition (one for
all, one per key, only the keys the last evaluation changed), activation, states,
flushes, reports and alarms. The history is a set of ticks during which each key
really ran, from which the properties compute what every bucket should hold.

**`ValueProducer`, `GaugeProducer`, `PulledMetric`.** The two producers as
operators on a record, each taking the answer of the pull it makes; `PulledMetric`
is their environment: counters that grow, appear, vanish and restart, pushed
atoms, pulls that fail or are late, a bucket-end alarm that is late, condition and
activation events handled late. The history keeps how much each counter grew and
what was reported of it.

**`Pullers`, `PullMerge`.** One atom, any number of callbacks and receivers. The
alarm's binder thread, a thread that handles an event and a shell thread pull;
they meet at `mMetricsMutex`, `StatsPullerManager::mLock` and the metric's
`mMutex`, which are variables with an owner. A pull waits for another process with
its locks held: asking, the answer, the timeout and the return are steps. The
alarm is kept by the system server, which may die and come back. `PullMerge` is
`mapAndMergeIsolatedUidsToHostUid` as an algorithm over sequences of atoms, early
returns included. Where the attribution chain is, is taken from the first atom, as
the code does: the part of a longer chain in another atom stays unmapped, and
`MergeRight` claims that no isolated uid is left only where no chain is longer than
the first. That totals per host are kept it claims for every input.

**`StatsdProcess`, `StatsCompanion`, `PullAtomClient`, `StatsdClients`.**
`StatsdProcess` is statsd as others see it: it starts, is found by name, handles
one-way calls in order, dies. `StatsCompanion` has the two threads that may run
`sayHiToStatsd`, the clients' registrations in `StatsManagerService`, the package
broadcasts, the boot and the death recipient; everything outside `sStatsdLock` and
`mLock` is a step of its own, and statsd may die between any two.
`binderDied` keeps the times of deaths, removes old ones from the list it iterates
over, which throws an exception unless the element was the last, and deletes a
config file after `DEATH_THRESHOLD` deaths within a day; days pass when nothing is
under way. Java clients call one at a time.
`PullAtomClient` is `libstatspull` with its detached threads and its death
recipient. An instance of `StatsdClients` explores one of the two sides.

**`MetricActivation`.** Activations (`mEventActivationMap`), the active flags
derived from them, `active_metrics` on disk, and the three critical sections of
`statsCompanionServiceDiedImpl` as three steps. Saves and the death handler take
their time at the step itself: the cool-down of a save does so in the code too
(`StatsLogProcessor.cpp:847`), while the TTL that remains is counted from a time the
caller read before it waited for the lock (`StatsService.cpp:1019`), so a wait makes
a saved TTL longer by its length. `Matches` lists which activations an event ends and
starts; the theorems hold for any such list.

**`ConfigManager`.** The registry, the files and the processor's managers. A call
is its critical section (two steps when a file is rewritten: deleted, then
written; a crash or a reader may come in between), followed by one step per key
it reports to the processor. `StartupUpdate` is the startup loop, one config per
step, in any order. `trimToFit` is a step of the environment, because which files
are too old or too large depends on what else is on disk. `Startup` reads the files in
one step while no binder thread calls, although the service is registered before;
what such a call changes between the reading of two files is left out, what it
changes afterwards is not. What a config says is
abstracted to its content; an empty file is a config that is not valid.

**`ConfigGraph`, `Conditions`, `ConfigUpdate`.** Matchers and predicates as
trackers that refer to each other by index, created depth first; the update status
that a modular update computes for each of them, and the new indices of those it
keeps; their evaluation for an event, in which an index that was never set or is
out of date may be that of any matcher; and the `MetricsManager` that owns them,
with activations, states, alerts and the checks that refuse a config. A check of the
fields of one definition alone is the flag `ok` of that definition. The second
half of `Conditions` says what a condition is without trackers, from the config
and the events alone; the properties compare the two.

**`ReportFiles`, `UidMap`, `Reports`.** `StorageManager`'s report files with their
limits, `UidMap` with its changes and limits, and the handlers of
`StatsLogProcessor` and `StatsService` that record, write, fetch, announce, reset
and drop, one action each under `mMetricsMutex`. Fetches, package changes, writes of
all configs, stops and the system-server death handler read the clock
before they wait for the lock, and use that time. File operations may fail: files
cannot be opened for writing, written, read, removed or renamed (`disk`), and
the code goes on as if they had not failed. `ConfigManager`'s races are in `ConfigManager`;
here a config update is one step. What is recorded is a number per event, and
`hist` remembers for each where it must be.

**`ShellSubscriber`.** A call of `startNewSubscription` goes through claiming a
token, notifying (without the lock), reading its config for as long as the client
takes, subscribing, and sleeping on a condition variable with spurious wake-ups
and timeouts. Its helper thread is a second process. A pull or heartbeat may be
due whenever the helper looks.

## 3. The runs

| run | states | checks | bounds, and what they let happen |
|---|---|---|---|
| `event_queue` | 1,180 | `QueueSound` `EventuallyHandled` `ImplementsFifo` | a buffer of 2 and 6 events: it fills, overflows, drains and fills again; it implements `LossyFifo` |
| `anomaly_alarms` | 905,636 | `MonitorSound` `NeverEarly` `RefractoryRespected` | two owners, one without a refractory period, over three seconds of two ticks, trackers that are destroyed and made again: alarms in the same second, within and beyond `mMinUpdateTimeSec` |
| `count_metric` | 123,901 | `BucketsRight` `AlertRight` | buckets of two ticks up to the first tick of a fourth, made in the middle of one; two keys with room for one; two events at any times; an alert over three buckets |
| `duration_metric` | 159,648 | `SumExact` `MaxExact` `PredictionRight` | seven metrics, one for each thing that can be set and one for the longest of nested durations with a condition, over two or three buckets |
| `pulled_metric` | 87,486 | `ValuesExact` `DiffConserved` `BucketsRight` `GaugeEarliest` | eleven value and gauge metrics over two or three buckets |
| `pullers` | 126,546 | `RegistrationsInForce` `PulledDataRight` `MergeRight` `PullsHappen` | six instances of up to two uids, configs and metrics, each with other kinds of steps; all sequences of one and of three atoms to merge |
| `statsd_clients` | 2,097,086 | `Reconnected` `EntriesKnown` `UidMapFresh` `NativeKept` | statsd starts twice, so that the death of the first is noticed at any point of the greeting of the second, or four times over two days, so that its deaths are pruned and counted; one client call, or two package changes, or the boot and an alarm, or three native threads on two atoms |
| `metric_activation` | 205,291 | `ActiveAgrees` `DeadlineKept` `ActiveInTime` | an immediate activation and one on boot of one metric; four kinds of events: nothing, one start, an end with the start of the other, both ended and started; events up to a tick late, saves that fail, restarts with and without a reboot |
| `config_manager` | 1,074,067 | `ProcessorAgrees` `ConfigsKept` `WithinLimit` | two binder threads and the startup loop on two keys of a uid with room for one, two valid contents and one invalid |
| `config_update` | 104,143 | `UpdatedAsNew` `KeptIffUnchanged` `DataRight` | eight worlds of small configs that replace each other, with up to five events; in one a predicate names matchers that come and go; one holds 29 configs with one thing wrong in each |
| `reports` | 1,463,772 | `Accounted` `LossBounded` `Announced` `ChangesReported` `SourcesRight` | eight scenarios with different kinds of steps, four or five steps deep; waits for the lock longer than the cool-down; limits of two or three files and changes, so that all of them are reached |
| `shell_subscriber` | 75,824 | `WritesOnlyDuringCall` `NoLostWakeup` `CallsEnd` | three overlapping calls, one with a timeout |

Bounds follow one rule: two of everything that can be confused with another
(keys, owners, threads, incarnations), one more than a limit, and enough time for
the cases on both sides of each comparison. Where one metric or scenario with
everything switched on would have too many states, the run has a set of instances
(`Defs`, `Instances`, `Worlds`), each with a few things switched on; the initial
state chooses one.

Each property of each run has a wrong version of the code (see section 2) under
which TLC finds it violated, so none holds by the shape of the model alone.

Deadlock is checked where the system never comes to rest. It is not in
`duration_metric`, `pulled_metric`, `pullers`, `statsd_clients`, `config_update`
and `reports`, which end when their time, steps or calls are used up. `SYMMETRY`
is used in `config_manager` over the two binder threads and in `count_metric` over
the keys; neither run has a temporal property.

### Fairness

Three modules have liveness properties.

- `LogEventQueue`: weak fairness of the reader's steps and of `notify_one`: both
  threads do nothing else and are never cancelled. Arrival of events is not fair.
- `Pullers`: weak fairness of the threads that can run, of the clock and of
  `AlarmManager` for an alarm whose time has come. No callback has to answer: the
  time limit of a pull is the clock's.
- `ShellSubscriber`: weak fairness of the steps of calls and helper threads that
  hold or wait for `mMutex` only briefly. There is none for reading a config, for
  clients, events, timeouts or spurious wake-ups. That a helper goes on writing
  is what the heartbeat, at least one per second, provides.

### Bounds on what would grow without end

`MaxEvents`, `MaxLossNotes`, `MaxTime`, `MaxNow`, `Late`,
`MaxThreads`, `MaxRegistrations`, `MaxConfigs`, `MaxCalls`, and the fields `last`,
`starts`, `calm`, `days`, `buckets`, `grow`, `atoms`, `pulls`, `calls`, `packages`, `maxUpdates`,
`maxEvents`, `maxSteps` and `maxNow` of instances. They appear in guards, or as the
ranges of inputs. The theorems do not depend on their values.

### Where comments and code disagree

The properties above leave out the following cases, each met while modelling, in
which a comment of the repository says more than the code keeps.

- `AlarmMonitor.h:113`: the registered time is that of the soonest alarm up to
  `mMinUpdateTimeSec`. The event that finds the registered time passed clears the
  clock (`StatsLogProcessor.cpp:437`), pops nothing because the soonest alarm is
  up to `mMinUpdateTimeSec` later, and nothing sets the clock again.
  `MonitorSound` claims the clock only until the registered time has passed.
- `CountMetricProducer.cpp:396`: an event at exactly the end of a bucket meets `<`
  in one place (363) and `>` in another (397), and the alert counts that bucket
  twice. `AlertRight` claims that no anomaly is missed, and exactness only where
  no bucket was flushed at its end.
- `MetricProducer.h:55`: an activation event renews the TTL. One between two
  critical sections of the system-server death handler is undone
  (`StatsService.cpp:1318`). `DeadlineKept` leaves out activations that were
  overtaken so.
- `IStatsd.aidl:150`: a removed config is gone. The report of a removal can
  overtake that of the addition before it (`ConfigManager.cpp:223`, 238); the
  config runs on, unknown and not removable. `ProcessorAgrees` leaves out keys
  whose reports raced. Likewise the startup loop installs configs from a snapshot
  of the files, so one that is removed meanwhile comes back
  (`ConfigManager.cpp:126`).
- `MaxDurationTracker.cpp:194`: the maximum is of durations that ended. `noteStop`
  (107-137) publishes what a nested duration had run up to its last pause after every
  stop, the last or not. `MaxExact` counts these times in.
- `StatsLogProcessor.cpp:1045`: the cool-down keeps writes of all configs from
  overwriting a file of the same second. It compares times that callers read before
  they waited for the lock (`StatsService.cpp:750`, 1019, 1071, 1304). After a wait as
  long as the cool-down two writes may share a second, and a stop that waited skips
  its write because of one that came meanwhile, and loses what was recorded since.
  `LossBounded` leaves out the first, and measures the age of what a stop loses from
  the time the stop read.
- `SimpleConditionTracker.cpp:87-127`: a predicate that names a matcher that is not in
  the config logs a warning and is accepted. Its indices are then uninitialised, or
  those of the config before an update. `UpdatedAsNew` leaves out these indices,
  `KeptIffUnchanged` and `DataRight` leave out managers that had such a predicate.
- `stats_pull_atom_callback.cpp:243`: a callback registered while statsd is down will
  be added. The lookup gives up after some seconds (195), and the callback is then not
  added before statsd dies once more. `NativeKept` leaves out these.
- `ShellSubscriber.h:39`: a subscription lasts until its shell exits or a newer
  one replaces it. A call overtaken while it reads its config displaces the newer
  one and leaves nothing in its place (`ShellSubscriber.cpp:44`); the newer call
  never returns. `CallsEnd` leaves out a call so displaced.
- `StorageManager.cpp:626`: at most one file matches a config's suffix. The suffix
  is not delimited, so the key `1000_7` also matches the file of `11000_7`; the
  run and the theorems assume names of which none ends like another
  (`DistinctNames`).
- `StatsManagerService.java:659`: a copy of the subscribers is iterated. The code
  iterates the map itself; a change at that moment ends the greeting with an
  exception. `Reconnected`, `EntriesKnown` and `UidMapFresh` are claimed for
  behaviours without it, and without two greetings at the same time (`mishaps`).
  `binderDied` removes from the list it iterates over (`StatsCompanionService.java:756`);
  when that throws, the receivers of that statsd are not unregistered. `Reconnected`
  says that nothing else comes of it.

## 4. The proofs

Proved with TLAPS for every value of the constants that meets the modules'
assumptions (`ASSUME`): typing facts, limits that are not zero, marks that differ
from the values they stand beside. None bounds a number of threads, keys, calls,
starts or ticks. TLC evaluates the same assumptions in the runs.

| module | theorems | inductive invariant and why it is needed |
|---|---|---|
| `LogEventQueueProofs` | `QueueSafe`, `RefusesOnlyWhenFull`, `ImplementsFifoSafety` | the five invariants together, and `item <= arrived`: order needs that what the reader took is older than all that is queued; the overflow count needs conservation, to know that a refused event is new |
| `AnomalyAlarmsProofs` | `AlarmsSafe`, `AlarmsNeverEarly`, `AnomaliesApart` | `MonitorOK` (the registered time is within `mMinUpdateTimeSec` of the soonest alarm and 0 exactly when none is queued, and no alarm is at time 0), `AddsOne` (what `startAlarm` is in the middle of), `AlarmCovers` (an alarm is not before its predicted time, rounding included), `RefractoryCovers` (the recorded end of the period is not before the last anomaly plus the period; it is about the tracker there is, since a new one has no record) |
| `MetricActivationProofs` | `ActiveStateAgrees`, `DeadlinesKept`, `ActiveOnlyInTime` | `DeathOK`, `FileOK` (what the death handler's copy and the file say of each activation, in terms of its deadline) and `ActivationsOK`; a deadline must be followed through memory, copy and file. `ActiveOnlyInTime` is an action property: `onLogEvent` first expires the metrics that are marked active, and because marks and activations agree, nothing that is past its time is left (`InTime`) |
| `ConfigManagerProofs` | `ProcessorInSync`, `ConfigsDurable`, `LimitHolds` | per key: `FileOK` (file against what was installed), `KnownOK` (registry against what was installed and what startup still has to install), `ToldOK` (a key not `raced` has at most one report outstanding, and it says what was installed); `DownOK` for a daemon that is down. Steps leave keys they do not touch alone by one frame lemma. All three assume `DistinctNames` |
| `ShellSubscriberProofs` | `WakeupsReachTheirCall`, `PipesAreOpen` | `TokensOK` (tokens differ, the last one has an owner), `NotifiedOK` (a call that has notified finds no older call asleep, and none falls asleep later), `AliveOK`. `NotifiedOK` gives that at most one call sleeps, so `notify_one` cannot wake the wrong one |
| `PullersProofs` | `PullsReturnWhatWasAsked`, `RegistrationsAreKept`, `RegistrationsStayInForce` | three layers. `IInv`: `DataOK` (what cache and answer of each puller are an answer to), `LockOK` (whoever is inside a pull owns `mLock`), `ThreadsOK` (where each thread is against what it holds). `KeptInv` adds `CallbacksOK` and `ProvidersOK` (which deaths and destructions are still to come, and that none of them is that of what is registered now). `ArmedInv` adds `SchedulesOK`, `NextPullOK` (`mNextPullTimeNs` against the receivers, also in the middle of `OnAlarmFired`) and `AlarmOK` (the companion's alarm against `mNextPullTimeNs`, with the milliseconds rounded) |
| `StatsdClientsProofs` | `NativeRegistrationsKept` | `NativeKept` speaks of the moment at which nothing is under way; the invariant says where the registration of an atom is before that: in a thread that has yet to look statsd up, in a `binderDied` that has yet to, on its way to the running statsd, or there |
| `StatsdClientsProofs` with `StatsCompanionProofs` | `AlwaysReconnected`, `AllEntriesKnown`, `UidMapAlwaysFresh` | `CompanionInv`, of two parts. What is there: `KnownOK`, `OneGreeting` (at most one greeting, of the statsd that the companion knows), `AlarmKept`, `ReceiversOK`, `Noticed` (a statsd that has announced itself is known, or a thread or a call is about to notice it), `TriggerOK`, `ClientOK`. What a running statsd that is known has been told at each stage of its greeting, or who will still tell it: `ManagerConnected`, `CompanionTold`, `ReceiversTold`, `PullersTold`, `BootTold`, `UidsTold`, `UidMapTold` (the last call that changes the uid map brings the packages of now) and `EntriesTold` (the greeting, a client or a call under way brings each entry, and no unregistration comes after it). `StatsCompanionProofs` has the invariant and the steps of `sayHiToStatsd`; `StatsdClientsProofs` has the steps of statsd, clients, broadcasts and the death recipient, and the theorems |

The theorems state the same definitions the runs check; the runs confirm on small
instances that they are not vacuous, and that a wrong version of the code breaks
them. Some are not unconditional:

- those of `ConfigManagerProofs` assume `DistinctNames`, as the run does: no key is
  a suffix of another one's file name.
- `PullsReturnWhatWasAsked` assumes `cool <= Start`: the clock is past the cool-down
  when statsd starts. `StatsPuller::clearCacheLocked` sets the time of the last pull
  to 0 and leaves `mHasGoodData` set, so in the first cool-down after the boot a
  cleared cache would be taken for good data. The default cool-down is a second.
- `RegistrationsStayInForce` is claimed while `now + Minute + 1 < NO_ALARM_UPDATE`:
  `INT64_MAX` stands for "no alarm", and a clock within a minute of it could not be
  told from it.
- `AlwaysReconnected`, `AllEntriesKnown` and `UidMapAlwaysFresh` are about
  behaviours without the two mishaps of section 3, which are part of `Quiet`.

Most leaves name the prover (`Zenon`): they need no arithmetic, and the search for
an SMT encoding of a large context takes longer than the proof.

Only model-checked, and why:

- liveness: `EventuallyHandled`, the liveness part of `ImplementsFifo`, `CallsEnd`
  and `PullsHappen`. The prover handles neither fairness nor `ENABLED`;
- `BucketsRight`, `AlertRight`, `SumExact`, `MaxExact`, `PredictionRight`,
  `ValuesExact`, `DiffConserved` and `GaugeEarliest`. They compare sums over keys,
  buckets and ticks with what the producers computed by folding, or speak of what a
  fold over the keys of a pull leaves behind; a proof needs induction over these
  folds, which the installed provers cannot do;
- `MergeRight` (`PullMerge`), for the same reason: the merge is a fold over a
  sequence of atoms;
- `UpdatedAsNew`, `KeptIffUnchanged` and `DataRight` (`ConfigUpdate`): matchers and
  predicates refer to each other, and what is computed of them is recursive over
  their graph. The prover does not take recursive operators;
- `Accounted`, `LossBounded`, `Announced`, `ChangesReported` and `SourcesRight`
  (`Reports`): a handler goes through the managers or files one after the other, and
  what one leaves is what the next one finds. That such a fold keeps an invariant is
  again an induction.

## 5. What is not modelled

Parts of the system without a module are listed in `PROJECT.json` with the reason:
the client writer, encodings and conversions, periodic alarms, subscribers, train
info, guardrail statistics. Within the modelled parts:

- saving and loading of alert metadata (`AnomalyTracker.cpp:272-322`): a refractory
  period ends with its tracker, also where the code would restore it after a restart;
  and what subscribers are told of an anomaly;
- failed operations on the files of configs when they are saved or deleted, and on
  those of activations and metadata. In `ConfigManager` a file may be empty or trimmed
  and statsd may die between deleting and writing, but an open or write does not fail
  (`StorageManager.cpp:127-139`); in `Reports` configs change and statsd starts only
  while file operations work. Failures on report files are modelled;
- the stop signal handled by the thread that holds `mMetricsMutex` (`main.cpp:42`),
  which then waits for itself until it is killed;
- the config file that the system server deletes after many deaths is not taken from
  `ConfigManager`, which is another module;
- state slicing of the count metric;
- broadcasts of changed activations to uids. Their loop returns at the first uid
  that is rate limited (`StatsLogProcessor.cpp:490`);
- the receivers of `ConfigManager` and their death recipients
  (`ConfigManager.cpp:201`);
- file descriptors. `readConfigFromDisk` returns without closing its file
  (`StorageManager.cpp:633`);
- blocking of a shell client's pipe (`ShellSubscriber.cpp:224`), and the unlocked
  reads of `mShellSubscriber` in `StatsService` (181, 1081);
- 64-bit overflow: `getCurrentBucketEndTimeNs` of a metric without buckets
  (`CountMetricProducer.cpp:86`), and the 32 bits that a previous version is kept
  in (`UidMap.cpp:168`);
- the bytes of events, reports, configs and log messages.

Known limits of the code that the models have and no property forbids, because
nothing in the repository says otherwise: the dimension guardrail of
`OringDurationTracker` (43), and its prediction, which takes buckets into account that
have left the window of an idle key (361); a
removed state does not count as replaced (`config_update_utils.cpp:399`); the first
install of an app is not announced to metrics (`UidMap.cpp:187`), an app that is
installed again stays on the list of deleted ones and may be erased with the oldest
of them (240), and a full update marks an app that was deleted before as deleted
although it is installed now (141); a refused config leaves its entry in
`mLastUpdatePerConfigKey` (`StatsLogProcessor.cpp:560`).
