---------------------------- MODULE ConfigManager ----------------------------
(***************************************************************************)
(* The configs statsd has been given (config/ConfigManager.cpp), the files *)
(* they are saved in (storage/StorageManager.cpp) and the managers         *)
(* StatsLogProcessor runs for them.                                        *)
(*                                                                         *)
(* A call from a binder thread changes mConfigs and the files under        *)
(* ConfigManager::mMutex and tells the processor afterwards, when it has   *)
(* released it; the processor takes its own mMetricsMutex.  So there are   *)
(* up to three steps: the critical section is two (the old file is deleted *)
(* before the new one is written, and the processor reads files without    *)
(* mMutex), and every report to the processor is one.                      *)
(*                                                                         *)
(* What a config says is abstracted to the content of its file.            *)
(***************************************************************************)
EXTENDS Naturals, FiniteSets

CONSTANTS Callers,    \* binder threads
          Main,       \* the main thread, which runs ConfigManager::Startup
          Keys,       \* ConfigKeys
          UidOf,      \* [Keys -> uids]: ConfigKey::GetUid
          Good,       \* contents that are valid configs
          Bad,        \* contents that parse, but are no valid configs
          Empty,      \* the content of a file that is created and not yet
                      \* written; it parses as a config without log sources
          EndsWith,   \* pairs <<k, l>>: the name of l's file ends with the
                      \* "uid_id" of k
          NoConfig,
          kMaxConfigCountPerUid   \* StatsdStats (20)

Contents == Good \cup Bad
Threads == Callers \cup {Main}

ASSUME ConfigAssumption ==
    /\ Main \notin Callers
    /\ Good \cap Bad = {} /\ Empty \in Bad /\ NoConfig \notin Contents
    /\ NoConfig \notin Keys /\ NoConfig \notin Threads
    /\ EndsWith \in SUBSET (Keys \X Keys) /\ \A k \in Keys : <<k, k>> \in EndsWith
    /\ IsFiniteSet(Keys) /\ kMaxConfigCountPerUid \in Nat \ {0}

VARIABLES mConfigs,          \* ConfigManager::mConfigs
          files,             \* stats-service directory: content per key
          mMetricsManagers,  \* StatsLogProcessor: content each manager runs
          mMutex,            \* the thread between deleting and writing a
                             \* file, which holds ConfigManager::mMutex
          call,              \* what is left of the call of each thread
          configsFromDisk,   \* Startup's local: read and not yet installed
          up,                \* statsd is running
          (* history, for the properties only *)
          installed,  \* what the last call in the order of mMutex asked for
          lost,       \* keys whose file need not be what was installed
          raced       \* keys whose reports may have overtaken each other

disk == <<files, lost>>
vars == <<mConfigs, files, mMetricsManagers, mMutex, call, configsFromDisk, up,
          installed, lost, raced>>

\* `save': the key whose file is being rewritten; `content': what to report,
\* NoConfig for a removal; `tell': keys to report; `wipe': delete all files
\* at the end.
Idle == [save |-> NoConfig, content |-> NoConfig, tell |-> {}, wipe |-> FALSE]

Nothing == [k \in Keys |-> NoConfig]

Init ==
    /\ mConfigs = {} /\ files = Nothing /\ mMetricsManagers = Nothing
    /\ mMutex = NoConfig /\ call = [t \in Threads |-> Idle]
    /\ configsFromDisk = Nothing /\ up = FALSE
    /\ installed = Nothing /\ lost = {} /\ raced = {}

-----------------------------------------------------------------------------
(* The files.                                                              *)

\* The files whose names end like those of k.
Matching(k) == {l \in Keys : <<k, l>> \in EndsWith /\ files[l] # NoConfig}

\* The files that are left when those of the keys K are removed.
remove_saved_configs(K) ==
    [l \in Keys |-> IF \E k \in K : l \in Matching(k) THEN NoConfig ELSE files[l]]

\* What readConfigFromDisk(key) may return: the directory is read in no
\* particular order.  A file that is being written may be missing or empty.
readConfigFromDisk(k) ==
    (IF Matching(k) = {} THEN {NoConfig} ELSE {files[l] : l \in Matching(k)})
        \cup IF \E l \in Keys : <<k, l>> \in EndsWith /\ \E t \in Threads : call[t].save = l
             THEN {Empty} ELSE {}

-----------------------------------------------------------------------------
(* Calls of ConfigManager.                                                 *)

SameUid(k) == {l \in mConfigs : UidOf[l] = UidOf[k]}

\* The keys some thread other than t has still to report.
Unreported(t) == UNION {call[u].tell : u \in Threads \ {t}}

\* Bookkeeping for a call of t that will report the keys K.
Note(t, K) == raced' = (raced \ K) \cup (K \cap Unreported(t))

\* A thread at the start of a call, with mMutex free.
CanLock(t) == up /\ call[t] = Idle /\ mMutex = NoConfig

\* A plausible slip: the limit of the uid is not tested.
UpdateConfig_NoLimit(t, k, c) ==
    /\ CanLock(t)
    /\ \E duplicate \in IF k \in mConfigs THEN {f = c : f \in readConfigFromDisk(k)}
                                          ELSE {FALSE} :
          /\ call' = [call EXCEPT ![t] = [save |-> k, content |-> c, wipe |-> FALSE,
                                          tell |-> IF duplicate THEN {} ELSE {k}]]
          /\ Note(t, IF duplicate THEN {} ELSE {k})
    /\ mMutex' = t
    /\ files' = remove_saved_configs({k})
    /\ UNCHANGED <<mConfigs, mMetricsManagers, up, installed, lost>>

\* A plausible slip: a known key is taken for a duplicate whatever its content.
UpdateConfig_SkipIfKnown(t, k, c) ==
    /\ CanLock(t)
    /\ k \in mConfigs \/ Cardinality(SameUid(k)) < kMaxConfigCountPerUid
    /\ call' = [call EXCEPT ![t] = [save |-> k, content |-> c, wipe |-> FALSE,
                                    tell |-> IF k \in mConfigs THEN {} ELSE {k}]]
    /\ Note(t, IF k \in mConfigs THEN {} ELSE {k})
    /\ mMutex' = t
    /\ files' = remove_saved_configs({k})
    /\ UNCHANGED <<mConfigs, mMetricsManagers, up, installed, lost>>

\* UpdateConfig up to the moment the old file is gone.  A new key beyond the
\* limit of its uid is refused.  A config that is known and identical to its
\* file is saved again, for the time in the file's name, and not reported.
UpdateConfig(t, k, c) ==
    /\ CanLock(t)
    /\ k \in mConfigs \/ Cardinality(SameUid(k)) < kMaxConfigCountPerUid
    /\ \E duplicate \in IF k \in mConfigs THEN {f = c : f \in readConfigFromDisk(k)}
                                          ELSE {FALSE} :
          /\ call' = [call EXCEPT ![t] = [save |-> k, content |-> c, wipe |-> FALSE,
                                          tell |-> IF duplicate THEN {} ELSE {k}]]
          /\ Note(t, IF duplicate THEN {} ELSE {k})
    /\ mMutex' = t
    /\ files' = remove_saved_configs({k})
    /\ UNCHANGED <<mConfigs, mMetricsManagers, up, installed, lost>>

\* The rest of the critical section: the new file, and the key is known.
Save(t) ==
    LET k == call[t].save
        c == call[t].content
    IN  /\ mMutex = t
        /\ files' = [files EXCEPT ![k] = c]
        /\ mConfigs' = mConfigs \cup {k}
        /\ mMutex' = NoConfig
        /\ call' = [call EXCEPT ![t] = IF call[t].tell = {} THEN Idle
                                       ELSE [@ EXCEPT !.save = NoConfig]]
        /\ installed' = [installed EXCEPT ![k] = c]
        /\ lost' = lost \ {k}
        /\ UNCHANGED <<mMetricsManagers, configsFromDisk, up, raced>>

\* addConfiguration, from a binder thread.
addConfiguration(t, k, c) ==
    /\ UpdateConfig(t, k, c)
    /\ UNCHANGED configsFromDisk

\* A call that removes the known keys K, whose files may go as well.
Remove(t, K, filesLeft, wipe) ==
    /\ CanLock(t)
    /\ mConfigs' = mConfigs \ K
    /\ files' = filesLeft
    /\ call' = [call EXCEPT ![t] = [Idle EXCEPT !.tell = K, !.wipe = wipe]]
    /\ Note(t, K)
    /\ UNCHANGED <<mMetricsManagers, mMutex, configsFromDisk, up>>

\* A plausible slip: the file of a key that is not known stays.
RemoveConfig_KeepFile(t, k) ==
    /\ Remove(t, {k} \cap mConfigs,
              IF k \in mConfigs THEN remove_saved_configs({k}) ELSE files, FALSE)
    /\ installed' = [installed EXCEPT ![k] = NoConfig]
    /\ lost' = lost \ {k}

\* RemoveConfig: a file is removed even when the key is not known.
RemoveConfig(t, k) ==
    /\ Remove(t, {k} \cap mConfigs, remove_saved_configs({k}), FALSE)
    /\ installed' = [installed EXCEPT ![k] = NoConfig]
    /\ lost' = lost \ {k}

\* RemoveConfigs(uid): only the files of known keys are removed.
RemoveConfigs(t, uid) ==
    LET K == {k \in mConfigs : UidOf[k] = uid}
    IN  /\ K # {}
        /\ Remove(t, K, remove_saved_configs(K), FALSE)
        /\ installed' = [k \in Keys |-> IF k \in K THEN NoConfig ELSE installed[k]]
        /\ lost' = lost \ K

\* cmd_remove_all_configs: RemoveAllConfigs forgets the keys, reports them,
\* and the files are deleted when that is done.
RemoveAllConfigs(t) ==
    /\ Remove(t, mConfigs, files, TRUE)
    /\ installed' = [k \in Keys |-> IF k \in mConfigs THEN NoConfig ELSE installed[k]]
    /\ lost' = lost \cup mConfigs

\* StorageManager::deleteAllFiles, outside mMutex.
deleteAllFiles(t) ==
    /\ call[t].wipe /\ call[t].tell = {}
    /\ files' = Nothing
    /\ lost' = {k \in Keys : installed[k] # NoConfig}
    /\ call' = [call EXCEPT ![t] = Idle]
    /\ UNCHANGED <<mConfigs, mMetricsManagers, mMutex, configsFromDisk, up, installed,
                   raced>>

-----------------------------------------------------------------------------
(* StatsLogProcessor, under mMetricsMutex.                                 *)

\* The manager for a content: OnConfigUpdatedLocked erases the manager of a
\* config that is not valid.
Manager(c) == IF c \in Good THEN c ELSE NoConfig

\* OnConfigUpdated or OnConfigRemoved, called by t without mMutex.
Tell(t, k) ==
    /\ mMutex # t /\ k \in call[t].tell
    /\ mMetricsManagers' = [mMetricsManagers EXCEPT ![k] = Manager(call[t].content)]
    /\ call' = [call EXCEPT ![t] =
                   IF call[t].tell = {k} /\ ~call[t].wipe THEN Idle
                   ELSE [call[t] EXCEPT !.tell = call[t].tell \ {k}]]
    /\ UNCHANGED <<mConfigs, files, mMutex, configsFromDisk, up, installed, lost,
                   raced>>

\* resetConfigsLocked for one key, when its TTL is over or the system server
\* has died: the config is read again from its file, without mMutex.
resetConfigs(k) ==
    /\ mMetricsManagers[k] # NoConfig
    /\ \E c \in readConfigFromDisk(k) \ {NoConfig} :
          /\ mMetricsManagers' = [mMetricsManagers EXCEPT ![k] = Manager(c)]
          /\ raced' = IF c # files[k] /\ \A t \in Threads : k \notin call[t].tell
                      THEN raced \cup {k} ELSE raced
    /\ UNCHANGED <<mConfigs, files, mMutex, call, configsFromDisk, up, installed, lost>>

-----------------------------------------------------------------------------
(* Startup and the end of the process.                                     *)

\* Startup reads every file, without mMutex, and installs what it read.
Startup ==
    /\ ~up /\ up' = TRUE
    /\ configsFromDisk' = files
    /\ installed' = files /\ lost' = {}
    /\ UNCHANGED <<mConfigs, files, mMetricsManagers, mMutex, call, raced>>

\* One round of the loop in Startup.  Binder threads may already be calling.
StartupUpdate(k) ==
    /\ configsFromDisk[k] # NoConfig
    /\ \/ UpdateConfig(Main, k, configsFromDisk[k])
       \/ /\ CanLock(Main)   \* refused: the limit of the uid
          /\ k \notin mConfigs /\ Cardinality(SameUid(k)) >= kMaxConfigCountPerUid
          /\ installed' = [installed EXCEPT ![k] = NoConfig]
          /\ lost' = lost \cup {k}
          /\ UNCHANGED <<mConfigs, files, mMetricsManagers, mMutex, call, up, raced>>
    /\ configsFromDisk' = [configsFromDisk EXCEPT ![k] = NoConfig]

\* statsd ends.  A file that was being written is missing or empty.
Crash ==
    /\ up /\ up' = FALSE
    /\ IF mMutex = NoConfig THEN UNCHANGED disk
       ELSE LET k == call[mMutex].save
            IN  /\ \E c \in {NoConfig, Empty} : files' = [files EXCEPT ![k] = c]
                /\ lost' = lost \cup {k}
    /\ mConfigs' = {} /\ mMetricsManagers' = Nothing /\ mMutex' = NoConfig
    /\ call' = [t \in Threads |-> Idle] /\ configsFromDisk' = Nothing
    /\ raced' = {}
    /\ UNCHANGED installed

\* trimToFit deletes a file that is too old, or the oldest beyond the limits.
trimToFit(k) ==
    /\ files[k] # NoConfig
    /\ files' = [files EXCEPT ![k] = NoConfig]
    /\ lost' = lost \cup {k}
    /\ UNCHANGED <<mConfigs, mMetricsManagers, mMutex, call, configsFromDisk, up, installed,
                   raced>>

Next ==
    \/ \E t \in Callers :
          \/ \E k \in Keys : \/ \E c \in Contents : addConfiguration(t, k, c)
                             \/ RemoveConfig(t, k)
          \/ \E u \in {UidOf[k] : k \in Keys} : RemoveConfigs(t, u)
          \/ RemoveAllConfigs(t)
          \/ deleteAllFiles(t)
    \/ \E t \in Threads : Save(t) \/ \E k \in Keys : Tell(t, k)
    \/ \E k \in Keys : resetConfigs(k) \/ StartupUpdate(k) \/ trimToFit(k)
    \/ Startup
    \/ Crash

Spec == Init /\ [][Next]_vars
-----------------------------------------------------------------------------
(* Properties.                                                             *)

Calls == [save : Keys \cup {NoConfig}, content : Contents \cup {NoConfig},
          tell : SUBSET Keys, wipe : BOOLEAN]

\* Types.  A thread holds mMutex between two steps exactly while it rewrites
\* a file, and then it has a content to write; nothing runs while statsd is
\* down.
TypeOK ==
    /\ mConfigs \in SUBSET Keys
    /\ files \in [Keys -> Contents \cup {NoConfig}]
    /\ mMetricsManagers \in [Keys -> Good \cup {NoConfig}]
    /\ mMutex \in Threads \cup {NoConfig}
    /\ call \in [Threads -> Calls]
    /\ configsFromDisk \in [Keys -> Contents \cup {NoConfig}]
    /\ up \in BOOLEAN
    /\ installed \in [Keys -> Contents \cup {NoConfig}]
    /\ lost \in SUBSET Keys /\ raced \in SUBSET Keys
    /\ \A t \in Threads :
          /\ (mMutex = t) <=> (call[t].save # NoConfig)
          /\ call[t].save # NoConfig =>
                /\ call[t].content \in Contents /\ ~call[t].wipe
                /\ call[t].tell \in SUBSET {call[t].save}

\* No call on k is under way.
Quiet(k) == \A t \in Threads : call[t].save # k /\ k \notin call[t].tell

\* A key StatsLogProcessor has been told everything about runs exactly what
\* ConfigManager was last asked for: no manager for a key that is not known
\* or whose config is not valid, and otherwise a manager for that very
\* content.  The exceptions, in `raced', are keys whose reports two threads
\* had to make at the same time, and keys that were reset while their
\* unchanged file was rewritten.
ProcessorAgrees ==
    \A k \in Keys \ raced : up /\ Quiet(k) =>
        mMetricsManagers[k] = Manager(IF k \in mConfigs THEN installed[k] ELSE NoConfig)

\* Whenever statsd dies, the file of a key holds what ConfigManager was last
\* asked for, and there is none when the config was removed: a restart brings
\* back every config and no other.  The exceptions, in `lost', are files
\* that trimToFit or "remove all" deleted or that were being written.
FilesCurrent ==
    \A k \in Keys \ lost : (\A t \in Threads : call[t].save # k) => files[k] = installed[k]

\* ConfigManager knows a key exactly when the last call on it installed it,
\* once Startup has come to it.
KnowsInstalled ==
    \A k \in Keys : up /\ Quiet(k) /\ configsFromDisk[k] = NoConfig =>
        (k \in mConfigs <=> installed[k] # NoConfig)

\* No uid ever has more configs than its limit, also after a restart with
\* more files than that.
WithinLimit ==
    \A k \in Keys : Cardinality(SameUid(k)) <= kMaxConfigCountPerUid

\* What is installed is kept: the files hold it at every step at which statsd may
\* die, and ConfigManager knows it, through calls, Startup, crashes and "remove all".
ConfigsKept == FilesCurrent /\ KnowsInstalled
=============================================================================
