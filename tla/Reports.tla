------------------------------ MODULE Reports ------------------------------
(***************************************************************************)
(* The way of recorded data to its owner (StatsLogProcessor.cpp,           *)
(* StorageManager.cpp, UidMap.cpp, StatsService.cpp, MetricsManager.cpp):  *)
(* events are recorded by the manager of every config, reports are written *)
(* to files, announced by broadcasts, fetched by the owner or dumped from  *)
(* a shell, and tell the changes of the apps on the device.  statsd and    *)
(* the system server may die at any time, the wall clock may be set, file  *)
(* operations may fail, and threads read the clock before they wait for a  *)
(* lock.                                                                   *)
(*                                                                         *)
(* "now" is the elapsed time, in seconds.  Every action is one handler     *)
(* under mMetricsMutex; the record s that the operators pass on is what    *)
(* that lock protects and the files.  What is recorded is a number per     *)
(* event.                                                                  *)
(***************************************************************************)
EXTENDS ReportFiles, UidMap, Functions, TLC

CONSTANTS
    Cooldown,         \* WRITE_DATA_COOL_DOWN_SEC
    CheckPeriod,      \* kMinByteSizeCheckPeriodNs
    BroadcastPeriod,  \* kMinBroadcastPeriodNs
    TriggerBytes,     \* kBytesPerConfigTriggerGetData, in events
    DropBytes,        \* kMaxMetricsBytesPerConfig, in events
    MaxCalls,         \* bound: calls that wait for a lock at a time
    Worlds            \* the scenarios

(***************************************************************************)
(* A scenario is [configs, apps, kinds, maxSteps, maxNow]: the configs     *)
(* that may be installed for each key, the apps, the kinds of steps that   *)
(* happen, and how many.  A config is [valid, metrics, report, persist,    *)
(* ttl, allow, pull]: "metrics" is false when it has none, "report" when   *)
(* all it has are in no_report_metric, "ttl" is 0 when it has none, and    *)
(* "allow" and "pull" are the packages it takes pushed and pulled data of. *)
(***************************************************************************)
VARIABLES
    world,     \* the scenario
    now,       \* elapsed seconds
    skew,      \* the wall clock is now + skew
    disk,      \* whether file operations work, see ReportFiles
    files,     \* the report files
    configs,   \* the config files: key -> [sec, config]
    managers,  \* mMetricsManagers: key -> [config, cur, past, ttlEnd, allowed, pulled]
    uidMap,    \* see UidMap
    proc,      \* the rest of statsd's memory
    calls,     \* calls that have read the clock, or the files, and wait for a lock
    notes,     \* changes of apps the listener is still to be told of
    hist,      \* history, for the properties
    steps      \* steps taken, against the bound of the scenario

vars == <<world, now, skew, disk, files, configs, managers, uidMap, proc, calls, notes, hist, steps>>

Keys == DOMAIN world.configs

Wall == now + skew

\* statsd has just started.  wroteAt is history: when lastWrite was set.
FreshProcess ==
    [up |-> TRUE, onDisk |-> {}, lastBroadcast |-> <<>>, lastByteSize |-> <<>>,
     lastWrite |-> 0, wroteAt |-> 0, receivers |-> {}, restarting |-> FALSE]

(***************************************************************************)
(* recorded: key -> event -> time; uploaded and dumped: what the owner and *)
(* an erasing shell dump were given; lost: what no one will get, and why;  *)
(* kept: what they were given of files that could not be removed; waited:  *)
(* how long the stop under way had waited for the lock; lateWrite: a write *)
(* of all configs waited for the cool-down or longer;                      *)
(* owed: key -> numbers of app changes its next report has to tell;        *)
(* unannounced: key -> <<list, package>> whose apps changed in the map     *)
(* without word to the listener since the list was made.                   *)
(***************************************************************************)
NoHistory(keys) ==
    [recorded |-> [k \in keys |-> <<>>], uploaded |-> [k \in keys |-> {}],
     dumped |-> [k \in keys |-> {}], lost |-> {}, owed |-> [k \in keys |-> {}],
     kept |-> [k \in keys |-> {}], waited |-> 0, lateWrite |-> FALSE,
     unannounced |-> [k \in keys |-> {}], clockSet |-> FALSE, events |-> 0, changes |-> 0,
     runs |-> 0]

Sys == [files |-> files, configs |-> configs, managers |-> managers, uidMap |-> uidMap,
        proc |-> proc, hist |-> hist]

Becomes(s) ==
    /\ files' = s.files
    /\ configs' = s.configs
    /\ managers' = s.managers
    /\ uidMap' = s.uidMap
    /\ proc' = s.proc
    /\ hist' = s.hist

-----------------------------------------------------------------------------
(* What is lost. *)

\* Its age is that at which the handler read the clock.
Lose(s, key, events, why) ==
    [s EXCEPT !.hist.lost = @ \union
        {[key |-> key, event |-> e, why |-> why,
          age |-> now - s.hist.waited - s.hist.recorded[key][e],
          unwritten |-> s.hist.recorded[key][e] >= s.proc.wroteAt] : e \in events}]

LoseFile(s, f, why) == Lose(s, f.key, f.data, why)

LoseFiles(s, fs, why) == FoldSet(LAMBDA f, t : LoseFile(t, f, why), s, fs)

InMemory(m) == m.cur \union m.past

\* A manager goes with what it holds.
Discard(s, key, why) ==
    IF key \notin DOMAIN s.managers THEN s
    ELSE LET m == s.managers[key]
         IN  Lose([s EXCEPT !.managers = Without(@, key)], key, InMemory(m),
                  IF m.config.report THEN why ELSE "not reported")

-----------------------------------------------------------------------------
(* Files. *)

\* The config files are trimmed too, whenever any file is written.
TrimConfigs(cs) == [k \in {j \in DOMAIN cs : Wall - cs[j].sec <= MaxAge} |-> cs[k]]

\* What is lost of the files when only those of "after" are left.
Trimmed(s, after) ==
    LET gone == {f \in s.files : Name(f) \notin {Name(g) : g \in after} /\ ~f.hist}
        outOfTurn == {f \in gone : ~TooOld(f, Wall) /\ \E g \in after : g.hist}
    IN  LoseFiles(LoseFiles(s, gone \ outOfTurn, "trimmed"), outOfTurn, "trimmed before history")

\* What a write costs that leaves these files: those it trimmed, the one it replaced,
\* and what it could not keep of the data.
NoteWrite(s, key, isHistory, full, data, after) ==
    LET name == <<Wall, key, isHistory>>
        written == {f \in after : Name(f) = name}
        replaced == {f \in s.files : Name(f) = name /\ written # {} /\ ~f.hist /\ disk # "readOnly"}
        why == IF full # 0 /\ \A f \in replaced : f.full = full THEN "rewritten" ELSE "overwritten"
        unsaved == IF isHistory THEN {} ELSE data \ UNION {f.data : f \in written}
    IN  Lose([LoseFiles(Trimmed(s, after), replaced, why) EXCEPT
                  !.files = after, !.configs = IF disk = "readOnly" THEN @ ELSE TrimConfigs(@)],
             key, unsaved,
             IF disk \in {"full", "readOnly"} THEN "not written"
             ELSE IF written = {} THEN "trimmed" ELSE why)

\* A report is written to a file.
Store(s, key, isHistory, full, data) ==
    NoteWrite(s, key, isHistory, full, data,
              writeFile(s.files, Wall, key, isHistory, full, data, Wall, disk))

-----------------------------------------------------------------------------
(* Managers. *)

initAllowedLogSources(m, map) ==
    [m EXCEPT !.allowed = UNION {getAppUid(map, p) : p \in m.config.allow}]

initPullAtomSources(m, map) ==
    [m EXCEPT !.pulled = UNION {getAppUid(map, p) : p \in m.config.pull}]

refreshTtl(m) == IF m.config.ttl > 0 THEN [m EXCEPT !.ttlEnd = now + m.config.ttl] ELSE m

isInTtl(m) == m.config.ttl = 0 \/ now < m.ttlEnd

\* A config takes effect, in a new manager or in the one there is.
WithConfig(m, config, map) ==
    initPullAtomSources(
        initAllowedLogSources(refreshTtl([m EXCEPT !.config = config]), map), map)

NewManager(config, map) ==
    WithConfig([config |-> config, cur |-> {}, past |-> {}, ttlEnd |-> 0,
                allowed |-> {}, pulled |-> {}], config, map)

\* The lists of a config are made anew, from the map as it is.
Listed(s, key, lists) ==
    [s EXCEPT !.hist.unannounced[key] = {u \in @ : u[1] \notin lists}]

\* The current bucket ends.
CloseBucket(m) == [m EXCEPT !.past = @ \union m.cur, !.cur = {}]

\* Metrics that are not to be reported are cleared instead of dumped.
ManagerDump(m, partial, erase) ==
    LET closed == IF partial /\ m.config.report THEN CloseBucket(m) ELSE m
    IN  IF erase \/ ~m.config.report THEN [closed EXCEPT !.past = {}] ELSE closed

Dumped(m, partial) ==
    IF ~m.config.report THEN {} ELSE m.past \union (IF partial THEN m.cur ELSE {})

\* The uid map of a report, and the changes it is the first to tell the owner.  A config without
\* metrics is not given it.
TellChanges(s, key, ts) ==
    IF ~s.managers[key].config.metrics THEN s
    ELSE [s EXCEPT !.uidMap = appendUidMap(@, ts, key),
                   !.hist.owed[key] = @ \ {c.n : c \in Range(ChangesFor(s.uidMap, key))}]

\* The report of what is in memory; a config that persists keeps a copy.
onConfigMetricsReportLocked(s, key, ts, partial, erase, saved) ==
    LET m == s.managers[key]
        cleared == IF m.config.report THEN {} ELSE m.past
        dumped == [s EXCEPT !.managers[key] = ManagerDump(m, partial, erase)]
        told == Lose(TellChanges(dumped, key, ts), key, cleared, "not reported")
    IN  IF erase /\ ~saved /\ m.config.persist
        THEN Store(told, key, TRUE, 0, Dumped(m, partial))
        ELSE told

-----------------------------------------------------------------------------
(* Writing to disk. *)

shouldWriteToDisk(s, key) == key \in DOMAIN s.managers /\ s.managers[key].config.report

WriteConfigDataToDisk(s, key, ts, full) ==
    IF ~shouldWriteToDisk(s, key) THEN s
    ELSE LET data == Dumped(s.managers[key], TRUE)
             dumped == onConfigMetricsReportLocked(s, key, ts, TRUE, TRUE, TRUE)
         IN  [Store(dumped, key, FALSE, full, data) EXCEPT !.proc.onDisk = @ \union {key}]

\* Faulty: the time of the last write is not kept.
WriteDataToDiskLocked_NoCooldown(s, ts) ==
    FoldSet(LAMBDA k, t : WriteConfigDataToDisk(t, k, ts, s.hist.runs), s, DOMAIN s.managers)

\* All configs, unless all were written just before the time ts, which the caller read.
WriteDataToDiskLocked(s, ts) ==
    IF ts < s.proc.lastWrite + Cooldown THEN s
    ELSE FoldSet(LAMBDA k, t : WriteConfigDataToDisk(t, k, ts, s.hist.runs),
                 [s EXCEPT !.proc.lastWrite = ts, !.proc.wroteAt = now,
                           !.hist.lateWrite = @ \/ now - ts >= Cooldown], DOMAIN s.managers)

-----------------------------------------------------------------------------
(* Configs. *)

OnConfigUpdatedLocked(s, key, config, modular, why) ==
    LET there == key \in DOMAIN s.managers
        kept == IF modular /\ there
                THEN [s EXCEPT !.managers[key] = WithConfig(@, config, s.uidMap)]
                ELSE LET emptied == Discard(s, key, why)
                     IN  [emptied EXCEPT !.managers =
                             With(@, key, NewManager(config, s.uidMap))]
    IN  IF ~config.valid THEN Discard(s, key, why)
        ELSE Listed([kept EXCEPT !.uidMap = OnConfigUpdated(@, key),
                                 !.hist.owed[key] = IF there THEN @ ELSE {}],
                    key, {"allowed", "pulled"})

\* A config that is not on disk any more, or cannot be read, only gets another period.
ResetConfig(s, key, why) ==
    IF key \in DOMAIN s.configs /\ disk # "unreadable"
    THEN OnConfigUpdatedLocked(s, key, s.configs[key].config, FALSE, why)
    ELSE [s EXCEPT !.managers[key] = refreshTtl(@)]

resetConfigsLocked(s, keys, why) == FoldSet(LAMBDA k, t : ResetConfig(t, k, why), s, keys)

resetIfConfigTtlExpiredLocked(s) ==
    LET expired == {k \in DOMAIN s.managers : ~isInTtl(s.managers[k])}
    IN  IF expired = {} THEN s
        ELSE resetConfigsLocked(WriteDataToDiskLocked(s, now), expired, "reset")

-----------------------------------------------------------------------------
(* Events and broadcasts. *)

Since(f, key, period) == key \notin DOMAIN f \/ now - f[key] >= period

\* Faulty: the mark goes although the broadcast failed.
Broadcast_Forget(s, key, sent) ==
    IF ~Since(s.proc.lastBroadcast, key, BroadcastPeriod) THEN s
    ELSE IF key \in sent /\ key \in s.proc.receivers
    THEN [s EXCEPT !.proc.onDisk = @ \ {key},
                   !.proc.lastBroadcast = With(@, key, now),
                   !.files = {IF f.key = key THEN [f EXCEPT !.told = TRUE] ELSE f : f \in @}]
    ELSE [s EXCEPT !.proc.onDisk = @ \ {key}]

\* "sent": the configs whose owners can be reached.
Broadcast(s, key, sent) ==
    IF Since(s.proc.lastBroadcast, key, BroadcastPeriod)
       /\ key \in sent \intersect s.proc.receivers
    THEN [s EXCEPT !.proc.onDisk = @ \ {key},
                   !.proc.lastBroadcast = With(@, key, now),
                   !.files = {IF f.key = key THEN [f EXCEPT !.told = TRUE] ELSE f : f \in @}]
    ELSE s

flushIfNecessaryLocked(s, key, sent) ==
    LET size == Cardinality(s.managers[key].past)
        checked == [s EXCEPT !.proc.lastByteSize = With(@, key, now)]
    IN  IF ~Since(s.proc.lastByteSize, key, CheckPeriod) THEN s
        ELSE IF size > DropBytes
        THEN Lose([checked EXCEPT !.managers[key].past = {}],
                  key, s.managers[key].past, "dropped")
        ELSE IF size > TriggerBytes \/ key \in s.proc.onDisk
        THEN Broadcast(checked, key, sent)
        ELSE checked

\* The event is recorded; it may be the first of a new bucket.
Record(s, key, event, closes) ==
    IF ~s.managers[key].config.metrics THEN s ELSE
    LET m == IF closes THEN CloseBucket(s.managers[key]) ELSE s.managers[key]
    IN  [s EXCEPT !.managers[key] = [m EXCEPT !.cur = @ \union {event}],
                  !.hist.recorded[key] = With(@, event, now)]

OnLogEvent(s, closes, sent) ==
    LET event == s.hist.events + 1
        reset == [resetIfConfigTtlExpiredLocked(s) EXCEPT !.hist.events = event]
    IN  FoldSet(LAMBDA k, t : flushIfNecessaryLocked(Record(t, k, event, closes), k, sent),
                reset, DOMAIN reset.managers)

-----------------------------------------------------------------------------
(* Reports. *)

\* Faulty: the report keeps its name for the local history.
AfterReading_NoRename(s, key, erase, isAdb) ==
    LET keepFile == key \in DOMAIN s.managers /\ s.managers[key].config.persist
    IN  appendConfigMetricsReport(s.files, key, erase /\ ~keepFile, isAdb \/ keepFile, disk)

\* The files of the config, once read.
AfterReading(s, key, erase, isAdb) ==
    LET keepFile == key \in DOMAIN s.managers /\ s.managers[key].config.persist
    IN  appendConfigMetricsReport(s.files, key, erase /\ ~keepFile, isAdb, disk)

onDumpReport(s, key, ts, partial, erase, isAdb) ==
    LET there == key \in DOMAIN s.managers
        read == Read(s.files, key, isAdb)
        left == AfterReading(s, key, erase, isAdb)
        reports == {f \in read : ~f.hist}
        fromFiles == IF disk = "unreadable" THEN {} ELSE UNION {f.data : f \in reports}
        taken == {f \in reports : Name(f) \notin {Name(g) : g \in left}}
        stuck == IF disk = "readOnly" /\ (erase \/ ~isAdb) THEN fromFiles ELSE {}
        fromMemory == IF there /\ erase THEN Dumped(s.managers[key], partial) ELSE {}
        gone == IF disk = "unreadable" THEN LoseFiles(s, taken, "unreadable") ELSE s
        given == [gone EXCEPT
            !.files = left,
            !.hist.kept[key] = @ \union stuck,
            !.hist.uploaded[key] = IF isAdb THEN @ ELSE @ \union fromFiles \union fromMemory,
            !.hist.dumped[key] = IF ~isAdb THEN @
                                 ELSE @ \union fromMemory \union
                                      (fromFiles \intersect UNION {f.data : f \in taken})]
    IN  IF ~there THEN given
        ELSE onConfigMetricsReportLocked(
                [given EXCEPT !.proc.lastBroadcast = Without(@, key)],
                key, ts, partial, erase, FALSE)

-----------------------------------------------------------------------------
(* Apps. *)

\* Numbers of the changes that are gone to make room.
Crowded(before, after) == {c.n : c \in Range(before.changes)} \ {c.n : c \in Range(after.changes)}

\* A change is owed to every config whose last report was before it.
NoteChange(s, ts, after) ==
    LET n == s.hist.changes + 1
        gone == Crowded(s.uidMap, after)
        late(k) == ts <= s.uidMap.last[k]
    IN  [s EXCEPT !.uidMap = after, !.hist.changes = n,
                  !.hist.owed = [k \in DOMAIN @ |->
                      (@[k] \union IF k \in DOMAIN s.managers /\ ~late(k) THEN {n} ELSE {})
                          \ gone]]

\* The map changed for these packages and the listener is not told.
NotAnnounced(s, pkgs) ==
    [s EXCEPT !.hist.unannounced =
        [k \in DOMAIN @ |-> @[k] \union ({"allowed", "pulled"} \X pkgs)]]

InformOnePackage(s, ts, app) ==
    LET known == Announces(s.uidMap, app)
        after == updateApp(s.uidMap, ts, s.hist.changes + 1, app)
    IN  NotAnnounced(NoteChange(s, ts, after), IF known THEN {} ELSE {app.pkg})

InformOnePackageRemoved(s, ts, app) ==
    LET after == removeApp(s.uidMap, ts, s.hist.changes + 1, app)
        evicted == {a.pkg : a \in DOMAIN s.uidMap.apps \ DOMAIN after.apps}
    IN  NotAnnounced(NoteChange(s, ts, after), evicted)

\* Faulty: only the uid that was named leaves or joins the list.
AppChanged_InPlace(m, note, map) ==
    LET c == CloseBucket(m)
    IN  IF note.pkg \in m.config.allow
        THEN [c EXCEPT !.allowed = IF note.removed THEN @ \ {note.uid} ELSE @ \union {note.uid}]
        ELSE c

\* Every producer splits its bucket; the lists that name the package are made anew.
AppChanged(m, note, map) ==
    LET split == CloseBucket(m)
        allowed == IF note.pkg \in m.config.allow THEN initAllowedLogSources(split, map) ELSE split
    IN  IF note.pkg \in m.config.pull THEN initPullAtomSources(allowed, map) ELSE allowed

AppLists(m, note) ==
    (IF note.pkg \in m.config.allow THEN {"allowed"} ELSE {})
        \union (IF note.pkg \in m.config.pull THEN {"pulled"} ELSE {})

notifyApp(s, note) ==
    FoldSet(LAMBDA k, t : Listed([t EXCEPT !.managers[k] = AppChanged(@, note, s.uidMap)],
                                 k, AppLists(s.managers[k], note)),
            s, DOMAIN s.managers)

\* No bucket is split; a config that names no package keeps its list.
MapReceived(m, map) ==
    LET pulled == initPullAtomSources(m, map)
    IN  IF m.config.allow = {} THEN pulled ELSE initAllowedLogSources(pulled, map)

onUidMapReceived(s) ==
    FoldSet(LAMBDA k, t : Listed([t EXCEPT !.managers[k] = MapReceived(@, s.uidMap)],
                                 k, {"allowed", "pulled"}),
            s, DOMAIN s.managers)

-----------------------------------------------------------------------------
(* Configs come and go. *)

\* The file of the config is replaced; both directories are trimmed.
SaveConfig(s, key, config) ==
    LET after == trimToFit(s.files, Wall)
    IN  [Trimmed(s, after) EXCEPT !.files = after,
             !.configs = With(TrimConfigs(Without(@, key)), key, [sec |-> Wall, config |-> config])]

ConfigUpdated(s, key, config) ==
    OnConfigUpdatedLocked(WriteConfigDataToDisk(s, key, now, 0), key, config, TRUE, "updated")

\* A config that is already there only has its file renewed.
ConfigSent(s, key, config) ==
    LET same == key \in DOMAIN s.configs /\ s.configs[key].config = config
        saved == SaveConfig(s, key, config)
    IN  IF same THEN saved ELSE ConfigUpdated(saved, key, config)

OnConfigGone(s, key) ==
    LET written == WriteConfigDataToDisk(s, key, now, 0)
        removed == [Discard(written, key, "removed") EXCEPT
                        !.uidMap = IF key \in DOMAIN s.managers THEN OnConfigRemoved(@, key) ELSE @]
    IN  [removed EXCEPT !.configs = Without(@, key), !.proc.lastBroadcast = Without(@, key)]

-----------------------------------------------------------------------------
(* The end and the start of statsd. *)

\* statsd's memory is gone.
Dies(s, why) ==
    [FoldSet(LAMBDA k, t : Discard(t, k, why), s, DOMAIN s.managers) EXCEPT
        !.uidMap = EmptyUidMap,
        !.proc = [FreshProcess EXCEPT !.up = FALSE],
        !.hist.owed = [k \in DOMAIN @ |-> {}],
        !.hist.unannounced = [k \in DOMAIN @ |-> {}]]

\* The configs that are still on disk are installed; each gets a new file.
Starts(s) ==
    LET found == TrimConfigs(s.configs)
        started == [s EXCEPT !.proc = FreshProcess, !.configs = found, !.hist.runs = @ + 1]
        install(k, t) == ConfigUpdated(SaveConfig(t, k, found[k].config), k, found[k].config)
    IN  FoldSet(install, started, DOMAIN found)

-----------------------------------------------------------------------------
(* The steps. *)

Step(kind) ==
    /\ kind \in world.kinds
    /\ steps < world.maxSteps
    /\ steps' = steps + 1
    /\ UNCHANGED <<world, now, skew, disk>>

\* A step of statsd under the lock.
Locked(kind) == Step(kind) /\ proc.up /\ UNCHANGED <<calls, notes>>

Tick ==
    /\ now < world.maxNow
    /\ now' = now + 1
    /\ UNCHANGED <<world, skew, disk, files, configs, managers, uidMap, proc, calls, notes, hist, steps>>

SetClock ==
    /\ "clock" \in world.kinds /\ steps < world.maxSteps
    /\ steps' = steps + 1
    /\ skew' \in {-1, 0, 1} \ {skew}
    /\ hist' = [hist EXCEPT !.clockSet = TRUE]
    /\ UNCHANGED <<world, now, disk, files, configs, managers, uidMap, proc, calls, notes>>

\* File operations begin to fail, or work again.
DiskChanges ==
    /\ "disk" \in world.kinds /\ steps < world.maxSteps
    /\ steps' = steps + 1
    /\ disk' \in IF disk = "ok" THEN {"full", "readOnly", "unreadable"} ELSE {"ok"}
    /\ UNCHANGED <<world, now, skew, files, configs, managers, uidMap, proc, calls, notes, hist>>

\* Bound: the files of configs are written and deleted while file operations work.
ConfigFilesWork == disk = "ok"

LogEvent ==
    /\ Locked("event")
    /\ \E closes \in BOOLEAN, sent \in SUBSET Keys : Becomes(OnLogEvent(Sys, closes, sent))

\* adb shell cmd stats dump-report, and the dump of an incident report.
DumpReport ==
    /\ Locked("adb")
    /\ \E key \in Keys, partial, erase \in BOOLEAN :
           Becomes(onDumpReport(Sys, key, now, partial, erase, TRUE))

UpdateConfig ==
    /\ Locked("update") /\ ConfigFilesWork
    /\ \E key \in Keys : \E config \in world.configs[key] : Becomes(ConfigSent(Sys, key, config))

RemoveConfig ==
    /\ Locked("remove") /\ ConfigFilesWork
    /\ \E key \in Keys : Becomes(OnConfigGone(Sys, key))

RemoveDataFetchOperation ==
    /\ Locked("receiver")
    /\ \E key \in proc.receivers : Becomes([Sys EXCEPT !.proc.receivers = @ \ {key}])

\* A thread has read the clock and will wait for a lock.
Called(op, arg) ==
    /\ Step(op)
    /\ proc.up /\ Cardinality(calls) < MaxCalls
    /\ calls' = calls \union {[op |-> op, arg |-> arg, ts |-> now]}
    /\ UNCHANGED <<files, configs, managers, uidMap, proc, notes, hist>>

Call ==
    \/ \E key \in Keys : Called("getData", key)
    \/ \E app \in world.apps, op \in {"install", "uninstall"} : Called(op, app)
    \/ Called("write", 0)
    \/ Called("stop", 0)
    \/ /\ ~proc.restarting /\ \A call \in calls : call.op # "restart"
       /\ Called("restart", 0)

Run(call) ==
    /\ call \in calls
    /\ calls' = calls \ {call}
    /\ UNCHANGED <<world, now, skew, disk, steps>>

GetData ==
    \E call \in calls :
        /\ call.op = "getData"
        /\ Run(call)
        /\ Becomes(onDumpReport(Sys, call.arg, call.ts, FALSE, TRUE, FALSE))
        /\ UNCHANGED notes

\* adb shell cmd stats write-to-disk, and the shutdown of the device.
WriteDataToDisk ==
    \E call \in calls :
        /\ call.op = "write"
        /\ Run(call)
        /\ Becomes(WriteDataToDiskLocked(Sys, call.ts))
        /\ UNCHANGED notes

\* The system server died: its two steps under the lock.
StatsCompanionDied ==
    \E call \in calls :
        /\ call.op = "restart"
        /\ Run(call)
        /\ Becomes([WriteDataToDiskLocked(Sys, call.ts) EXCEPT !.proc.restarting = TRUE])
        /\ UNCHANGED notes

ResetConfigs ==
    /\ proc.restarting
    /\ Becomes([resetConfigsLocked(Sys, DOMAIN managers, "restarted")
                    EXCEPT !.proc.restarting = FALSE])
    /\ UNCHANGED <<world, now, skew, disk, calls, notes, steps>>

\* The receiver is set under the lock of ConfigManager, the files are looked at under none, and
\* the config is marked under mMetricsMutex.
SetDataFetchOperation ==
    /\ Step("receiver")
    /\ proc.up /\ Cardinality(calls) < MaxCalls
    /\ \E key \in Keys : /\ proc' = [proc EXCEPT !.receivers = @ \union {key}]
                         /\ calls' = calls \union {[op |-> "look", arg |-> key, ts |-> 0]}
    /\ UNCHANGED <<files, configs, managers, uidMap, notes, hist>>

LookForReports ==
    \E call \in calls :
        /\ call.op = "look"
        /\ calls' = (calls \ {call}) \union IF hasConfigMetricsReport(files, call.arg)
                                           THEN {[call EXCEPT !.op = "note"]} ELSE {}
        /\ UNCHANGED <<world, now, skew, disk, steps, files, configs, managers, uidMap, proc, notes, hist>>

noteOnDiskData ==
    \E call \in calls :
        /\ call.op = "note"
        /\ Run(call)
        /\ proc' = [proc EXCEPT !.onDisk = @ \union {call.arg}]
        /\ UNCHANGED <<files, configs, managers, uidMap, notes, hist>>

NoteOf(app, removed) == [pkg |-> app.pkg, uid |-> app.uid, removed |-> removed]

PackageInstalled ==
    \E call \in calls :
        /\ call.op = "install"
        /\ Run(call)
        /\ Becomes(InformOnePackage(Sys, call.ts, call.arg))
        /\ notes' = notes \union IF Announces(uidMap, call.arg) THEN {NoteOf(call.arg, FALSE)} ELSE {}

\* The configs of the uid are removed too: no key of the scenario belongs to an app.
PackageRemoved ==
    \E call \in calls :
        /\ call.op = "uninstall"
        /\ Run(call)
        /\ Becomes(InformOnePackageRemoved(Sys, call.ts, call.arg))
        /\ notes' = notes \union {NoteOf(call.arg, TRUE)}

\* The word of a new map, as against that of one package.
NewMap == [pkg |-> "", uid |-> 0, removed |-> FALSE]

InformAllUidData ==
    /\ Step("snapshot")
    /\ proc.up
    /\ \E listed \in SUBSET world.apps : Becomes([Sys EXCEPT !.uidMap = updateMap(@, listed)])
    /\ notes' = notes \union {NewMap}
    /\ UNCHANGED calls

\* The listener is told, outside the lock of the map.
Notify ==
    \E note \in notes :
        /\ notes' = notes \ {note}
        /\ Becomes(IF note = NewMap THEN onUidMapReceived(Sys) ELSE notifyApp(Sys, note))
        /\ UNCHANGED <<world, now, skew, disk, calls, steps>>

\* statsd dies, by a signal it handles or without warning.
Terminate ==
    \E call \in calls :
        /\ call.op = "stop"
        /\ LET s == [Sys EXCEPT !.hist.waited = now - call.ts]
           IN  Becomes([Dies(WriteDataToDiskLocked(s, call.ts), "stopped") EXCEPT !.hist.waited = 0])
        /\ calls' = {} /\ notes' = {}
        /\ UNCHANGED <<world, now, skew, disk, steps>>

Crash ==
    /\ Step("crash")
    /\ proc.up
    /\ Becomes(Dies(Sys, "crashed"))
    /\ calls' = {} /\ notes' = {}

Start ==
    /\ ~proc.up /\ ConfigFilesWork
    /\ Becomes(Starts(Sys))
    /\ UNCHANGED <<world, now, skew, disk, calls, notes, steps>>

\* statsd is about to start, with a config of each key on disk.
Init ==
    /\ world \in Worlds
    /\ now = Cooldown
    /\ skew = 0
    /\ disk = "ok"
    /\ files = {}
    /\ configs \in {cs \in [Keys -> [sec : {now}, config : UNION {world.configs[k] : k \in Keys}]] :
                        \A k \in Keys : cs[k].config \in world.configs[k]}
    /\ managers = <<>>
    /\ uidMap = EmptyUidMap
    /\ proc = [FreshProcess EXCEPT !.up = FALSE]
    /\ calls = {}
    /\ notes = {}
    /\ hist = NoHistory(Keys)
    /\ steps = 0

Next ==
    \/ Tick
    \/ SetClock
    \/ DiskChanges
    \/ LogEvent
    \/ DumpReport
    \/ WriteDataToDisk
    \/ StatsCompanionDied
    \/ ResetConfigs
    \/ UpdateConfig
    \/ RemoveConfig
    \/ SetDataFetchOperation
    \/ LookForReports
    \/ noteOnDiskData
    \/ RemoveDataFetchOperation
    \/ Call
    \/ GetData
    \/ PackageInstalled
    \/ PackageRemoved
    \/ InformAllUidData
    \/ Notify
    \/ Terminate
    \/ Crash
    \/ Start

Spec == Init /\ [][Next]_vars

-----------------------------------------------------------------------------
(* Properties. *)

\* Where an event that a config recorded is: in memory, in a report file, with
\* the owner, with the shell that dumped and erased it, or lost.
Places(key, e) ==
    {<<"memory">> : m \in {j \in DOMAIN managers : j = key /\ e \in InMemory(managers[j])}}
    \union {<<"file", Name(f)>> : f \in {g \in files : g.key = key /\ ~g.hist /\ e \in g.data}}
    \union {<<"owner">> : x \in {e} \intersect hist.uploaded[key]}
    \union {<<"shell">> : x \in {e} \intersect hist.dumped[key]}
    \union {<<"lost", l>> : l \in {x \in hist.lost : x.key = key /\ x.event = e}}

(***************************************************************************)
(* Every event a config recorded is in exactly one place: no update,       *)
(* removal, reset, dump, rename or restart loses it without a reason       *)
(* counted as such, and none leaves it where it would be uploaded twice,   *)
(* except where its file could not be removed or renamed after it was      *)
(* read.  A local history file only holds what was handed out or could not *)
(* be read.                                                                *)
(***************************************************************************)
Accounted ==
    \A key \in Keys :
        /\ \A e \in DOMAIN hist.recorded[key] \ hist.kept[key] : Cardinality(Places(key, e)) = 1
        /\ \A f \in files : f.key = key /\ f.hist =>
               f.data \subseteq hist.uploaded[key] \union hist.dumped[key] \union
                                {l.event : l \in {x \in hist.lost : x.key = key /\ x.why = "unreadable"}}

(***************************************************************************)
(* What is lost is bounded as the code means it to be, apart from files    *)
(* that cannot be written or read.  A clean stop loses only what is newer  *)
(* than the cool-down before the stop read the clock, however long it then *)
(* waited for the lock, a TTL reset only what is newer than the cool-down, *)
(* and a restart of the system server only what came after the last write  *)
(* of all configs; a config update or removal loses nothing; two writes of *)
(* all configs by one process do not overwrite each other unless the clock *)
(* was set or one waited for the lock as long as the cool-down; and a      *)
(* report makes room only when no local history is left to do so.          *)
(***************************************************************************)
LossBounded ==
    \A l \in hist.lost :
        /\ l.why \in {"stopped", "reset"} => l.age < Cooldown
        /\ l.why = "restarted" => l.unwritten
        /\ l.why = "rewritten" => hist.clockSet \/ hist.lateWrite
        /\ l.why \notin {"updated", "removed", "trimmed before history"}

(***************************************************************************)
(* A report file that no broadcast was sent for since it was written is    *)
(* remembered in mOnDiskDataConfigs while its owner can be told: across    *)
(* failed and rate-limited broadcasts, changes of the receiver, removals   *)
(* and new installations of the config, and restarts of statsd.  A call    *)
(* that sets the receiver may still be about to note it.                   *)
(***************************************************************************)
Announced ==
    \A f \in files :
        ~f.hist /\ ~f.told /\ f.key \in proc.receivers =>
            \/ f.key \in proc.onDisk
            \/ \E call \in calls : call.op \in {"look", "note"} /\ call.arg = f.key

(***************************************************************************)
(* A change of an app is told in a report of every config that was         *)
(* installed when it was made: until then it stays in mChanges, newer than *)
(* the config's last report, whatever other configs report and remove.     *)
(* Excepted are changes dropped for lack of room, and those whose time was *)
(* read before and recorded after a report.                                *)
(***************************************************************************)
ChangesReported ==
    \A key \in DOMAIN managers :
        hist.owed[key] \subseteq {c.n : c \in Range(ChangesFor(uidMap, key))}

\* No word of a change is on its way that would renew this list for the package.
Settled(key, list, pkgs) ==
    /\ notes \intersect {NewMap} = {}
    /\ \A pkg \in pkgs :
           /\ <<list, pkg>> \notin hist.unannounced[key]
           /\ \A note \in notes : note.pkg # pkg

(***************************************************************************)
(* The uids a config takes data from are those its packages have in the    *)
(* map, once the listener was told of all changes, in whatever order.      *)
(* Excepted is an app that is installed for the first time, which the      *)
(* listener is not told of, and one that left the map for lack of room.    *)
(***************************************************************************)
SourcesRight ==
    \A key \in DOMAIN managers :
        LET m == managers[key]
        IN  /\ Settled(key, "allowed", m.config.allow) =>
                   m.allowed = initAllowedLogSources(m, uidMap).allowed
            /\ Settled(key, "pulled", m.config.pull) =>
                   m.pulled = initPullAtomSources(m, uidMap).pulled
=============================================================================
