------------------------- MODULE ConfigManagerProofs -------------------------
(***************************************************************************)
(* Proofs about ConfigManager for any threads, keys, contents and limit,   *)
(* when no file is taken for that of another key.                          *)
(***************************************************************************)
EXTENDS ConfigManager, FiniteSetTheorems, TLAPS

\* No file name ends like the key of another.
DistinctNames == \A p \in EndsWith : p[1] = p[2]

\* Nothing runs, and nothing is remembered, while statsd is down; a thread
\* rewrites a file exactly while it holds mMutex.
DownOK ==
    ~up => /\ mConfigs = {} /\ mMetricsManagers = Nothing /\ mMutex = NoConfig
           /\ call = [t \in Threads |-> Idle] /\ configsFromDisk = Nothing /\ raced = {}

Saving(k) == \E t \in Threads : call[t].save = k

\* What the processor should run for k.
Expected(k) == Manager(IF k \in mConfigs THEN installed[k] ELSE NoConfig)

\* The file of k: what was installed, unless it is lost or being rewritten.
FileOK(k) ==
    /\ k \notin lost /\ ~Saving(k) => files[k] = installed[k]
    /\ Saving(k) => files[k] = NoConfig
    /\ k \in lost /\ k \in mConfigs => files[k] = NoConfig

\* k is known when it is installed; a duplicate is what is installed.
KnownOK(k) ==
    /\ k \in mConfigs => installed[k] # NoConfig
    /\ up /\ ~Saving(k) /\ k \notin mConfigs /\ configsFromDisk[k] = NoConfig =>
          installed[k] = NoConfig
    /\ \A t \in Threads : call[t].save = k /\ call[t].tell = {} =>
          k \in mConfigs /\ call[t].content = installed[k]

\* The processor runs what it should, or one thread is about to tell it.
ToldOK(k) ==
    k \notin raced =>
        /\ \A t, u \in Threads : k \in call[t].tell /\ k \in call[u].tell => t = u
        /\ \A t \in Threads : k \in call[t].tell /\ call[t].save # k =>
              Manager(call[t].content) = Expected(k)
        /\ (\A t \in Threads : k \notin call[t].tell) => mMetricsManagers[k] = Expected(k)

IInv == /\ TypeOK /\ DownOK
        /\ \A k \in Keys : FileOK(k) /\ KnownOK(k) /\ ToldOK(k)

-----------------------------------------------------------------------------
(* Facts about the operators.                                              *)

\* The manager of a content is a valid config or none.
LEMMA ManagerType == \A c : Manager(c) \in Good \cup {NoConfig}
BY Zenon DEF Manager

\* Nothing is run for no config.
LEMMA ManagerNone == Manager(NoConfig) = NoConfig
BY Zenon, ConfigAssumption DEF Manager, Contents

\* With distinct names, removing the files of K removes those files only.
LEMMA RemovesOwn ==
    ASSUME TypeOK, DistinctNames, NEW K \in SUBSET Keys
    PROVE  remove_saved_configs(K) = [l \in Keys |-> IF l \in K THEN NoConfig ELSE files[l]]
<1>1. ASSUME NEW l \in Keys
      PROVE  (IF \E k \in K : l \in Matching(k) THEN NoConfig ELSE files[l])
               = IF l \in K THEN NoConfig ELSE files[l]
  BY Zenon, ConfigAssumption DEF TypeOK, DistinctNames, Matching
<1> QED BY Zenon, <1>1 DEF remove_saved_configs

\* With distinct names, a key is read from its own file.
LEMMA ReadsOwn ==
    ASSUME TypeOK, DistinctNames, NEW k \in Keys, NEW c \in readConfigFromDisk(k)
    PROVE  c = files[k] \/ (c = Empty /\ Saving(k))
<1>1. \A l \in Keys : <<k, l>> \in EndsWith => l = k
  BY Zenon DEF DistinctNames
<1>2. CASE Matching(k) = {}
  <2>1. files[k] = NoConfig
    BY Zenon, <1>2, ConfigAssumption DEF Matching
  <2> QED BY Zenon, <1>1, <1>2, <2>1 DEF readConfigFromDisk, Saving
<1>3. CASE Matching(k) # {}
  <2>1. Matching(k) \subseteq {k}
    BY Zenon, <1>1 DEF Matching
  <2> QED BY Zenon, <1>1, <1>3, <2>1 DEF readConfigFromDisk, Saving
<1> QED BY Zenon, <1>2, <1>3

\* The type invariant and the state of a stopped daemon hold at first.
LEMMA InitOK == Init => IInv
<1> SUFFICES ASSUME Init PROVE IInv BY Zenon
<1>1. \A t \in Threads : /\ call[t] = Idle /\ call[t].save = NoConfig /\ call[t].tell = {}
                         /\ call[t] \in Calls
  BY Zenon DEF Init, Idle, Calls
<1>2. TypeOK
  BY Zenon, <1>1, ConfigAssumption DEF Init, TypeOK, Nothing
<1>3. DownOK
  BY Zenon DEF Init, DownOK
<1>4. ASSUME NEW k \in Keys PROVE FileOK(k) /\ KnownOK(k) /\ ToldOK(k)
  <2>1. ~Saving(k)
    BY Zenon, <1>1, ConfigAssumption DEF Saving
  <2>2. Expected(k) = NoConfig
    BY Zenon, ManagerNone DEF Expected, Init
  <2> QED BY Zenon, <1>1, <2>1, <2>2, ConfigAssumption DEF Init, FileOK, KnownOK, ToldOK, Nothing
<1> QED BY Zenon, <1>2, <1>3, <1>4 DEF IInv

-----------------------------------------------------------------------------
(* Steps that keep what is known of one key.                               *)

\* A step that changes nothing about k keeps its invariants.
Untouched(k) ==
    /\ files'[k] = files[k] /\ installed'[k] = installed[k]
    /\ mMetricsManagers'[k] = mMetricsManagers[k]
    /\ (k \in lost' <=> k \in lost) /\ (k \in mConfigs' <=> k \in mConfigs)
    /\ (k \in raced' <=> k \in raced)
    /\ \A t \in Threads :
          /\ (k \in call'[t].tell <=> k \in call[t].tell)
          /\ (call'[t].save = k <=> call[t].save = k)
          /\ (call[t].save = k \/ k \in call[t].tell) => call'[t].content = call[t].content
          /\ call[t].save = k => call'[t].tell = call[t].tell

\* Whatever else happens, an untouched key stays right.
LEMMA UntouchedKeeps ==
    ASSUME NEW k \in Keys, FileOK(k), KnownOK(k), ToldOK(k), Untouched(k),
           up' => up, configsFromDisk'[k] = NoConfig => configsFromDisk[k] = NoConfig
    PROVE  (FileOK(k) /\ KnownOK(k) /\ ToldOK(k))'
<1>1. Saving(k)' <=> Saving(k)
  BY Zenon DEF Saving, Untouched
<1>2. Expected(k)' = Expected(k)
  BY Zenon DEF Expected, Untouched, Manager
<1>3. FileOK(k)'
  BY Zenon, <1>1 DEF FileOK, Untouched
<1>4. KnownOK(k)'
  BY Zenon, <1>1 DEF KnownOK, Untouched
<1>5. ToldOK(k)'
  BY Zenon, <1>2 DEF ToldOK, Untouched, Manager
<1> QED BY Zenon, <1>3, <1>4, <1>5
-----------------------------------------------------------------------------
(* One lemma per action.                                                   *)

\* UpdateConfig, for binder threads and for the loop in Startup.
LEMMA UpdateKeeps ==
    ASSUME IInv, DistinctNames, NEW t \in Threads, NEW k \in Keys, NEW c \in Contents,
           UpdateConfig(t, k, c),
           configsFromDisk' \in [Keys -> Contents \cup {NoConfig}],
           \A l \in Keys \ {k} : configsFromDisk'[l] = configsFromDisk[l]
    PROVE  IInv'
<1> USE DEF IInv
<1>1. PICK duplicate \in IF k \in mConfigs THEN {f = c : f \in readConfigFromDisk(k)}
                                            ELSE {FALSE} :
          /\ call' = [call EXCEPT ![t] = [save |-> k, content |-> c, wipe |-> FALSE,
                                          tell |-> IF duplicate THEN {} ELSE {k}]]
          /\ Note(t, IF duplicate THEN {} ELSE {k})
  BY Zenon DEF UpdateConfig
<1>2. /\ up /\ call[t] = Idle /\ mMutex = NoConfig /\ mMutex' = t
      /\ mConfigs' = mConfigs /\ mMetricsManagers' = mMetricsManagers /\ up' = up
      /\ installed' = installed /\ lost' = lost
  BY Zenon DEF UpdateConfig, CanLock
<1>3. files' = [l \in Keys |-> IF l \in {k} THEN NoConfig ELSE files[l]]
  BY RemovesOwn DEF UpdateConfig
<1>4. duplicate \in BOOLEAN
  BY Zenon, <1>1
<1>5. /\ call'[t].save = k /\ call'[t].content = c /\ call'[t].wipe = FALSE
      /\ call'[t].tell = IF duplicate THEN {} ELSE {k}
      /\ \A u \in Threads \ {t} : call'[u] = call[u]
      /\ call' \in [Threads -> Calls]
  <2> DEFINE new == [save |-> k, content |-> c, wipe |-> FALSE,
                     tell |-> IF duplicate THEN {} ELSE {k}]
  <2>1. new \in Calls /\ new.save = k /\ new.content = c /\ new.wipe = FALSE
        /\ new.tell = IF duplicate THEN {} ELSE {k}
    BY Zenon DEF Calls
  <2>2. call' = [call EXCEPT ![t] = new] /\ call \in [Threads -> Calls]
    BY Zenon, <1>1 DEF TypeOK
  <2> HIDE DEF new
  <2> QED BY Zenon, <2>1, <2>2
<1>6. call[t].save = NoConfig /\ call[t].tell = {}
  BY <1>2 DEF Idle
<1>7. \A u \in Threads : call[u].save = NoConfig
  BY Zenon, <1>2, ConfigAssumption DEF TypeOK
<1>8. raced' = (raced \ (IF duplicate THEN {} ELSE {k})) \cup ((IF duplicate THEN {} ELSE {k}) \cap Unreported(t))
  BY Zenon, <1>1 DEF Note
<1>9. Unreported(t) \in SUBSET Keys
  BY DEF Unreported, TypeOK, Calls
<1>10. TypeOK'
  <2>1. /\ mConfigs' \in SUBSET Keys /\ mMetricsManagers' \in [Keys -> Good \cup {NoConfig}]
        /\ mMutex' \in Threads \cup {NoConfig} /\ up' \in BOOLEAN
        /\ installed' \in [Keys -> Contents \cup {NoConfig}] /\ lost' \in SUBSET Keys
    BY Zenon, <1>2 DEF TypeOK
  <2>2. files' \in [Keys -> Contents \cup {NoConfig}]
    BY Zenon, <1>3 DEF TypeOK
  <2>3. raced' \in SUBSET Keys
    BY Zenon, <1>8, <1>9 DEF TypeOK
  <2>4. \A u \in Threads :
          /\ (mMutex' = u) <=> (call'[u].save # NoConfig)
          /\ call'[u].save # NoConfig =>
                /\ call'[u].content \in Contents /\ ~call'[u].wipe
                /\ call'[u].tell \in SUBSET {call'[u].save}
    BY Zenon, <1>2, <1>5, <1>7, ConfigAssumption
  <2> QED BY Zenon, <1>5, <2>1, <2>2, <2>3, <2>4 DEF TypeOK
<1>11. DownOK'
  BY Zenon, <1>2 DEF DownOK
<1>12. ASSUME NEW l \in Keys, l # k PROVE (FileOK(l) /\ KnownOK(l) /\ ToldOK(l))'
  <2>1. Untouched(l)
    BY <1>2, <1>3, <1>5, <1>6, <1>7, <1>8, <1>12, ConfigAssumption DEF Untouched
  <2> QED BY Zenon, <2>1, <1>2, <1>12, UntouchedKeeps
<1>13. ~Saving(k) /\ Saving(k)'
  BY Zenon, <1>5, <1>7, ConfigAssumption DEF Saving
<1>14. FileOK(k)'
  BY Zenon, <1>3, <1>13 DEF FileOK
<1>15. duplicate => k \in mConfigs /\ c = installed[k]
  <2> SUFFICES ASSUME duplicate PROVE k \in mConfigs /\ c = installed[k] BY Zenon
  <2>1. k \in mConfigs /\ c \in readConfigFromDisk(k)
    BY Zenon, <1>1
  <2>2. c = files[k]
    BY Zenon, <1>13, <2>1, ReadsOwn
  <2> QED BY Zenon, <1>13, <2>1, <2>2, ConfigAssumption DEF FileOK
<1>16. KnownOK(k)'
  <2>1. k \in mConfigs' => installed'[k] # NoConfig
    BY Zenon, <1>2 DEF KnownOK
  <2>2. ASSUME NEW u \in Threads, call'[u].save = k, call'[u].tell = {}
        PROVE k \in mConfigs' /\ call'[u].content = installed'[k]
    <3>1. u = t
      BY Zenon, <1>5, <1>7, <2>2, ConfigAssumption
    <3>2. duplicate
      BY Zenon, <1>5, <2>2, <3>1
    <3> QED BY Zenon, <1>2, <1>5, <1>15, <3>1, <3>2
  <2> QED BY Zenon, <1>13, <2>1, <2>2 DEF KnownOK
<1>17. ToldOK(k)'
  <2> SUFFICES ASSUME k \notin raced' PROVE ToldOK(k)' BY Zenon DEF ToldOK
  <2>1. Expected(k)' = Expected(k)
    BY Zenon, <1>2 DEF Expected, Manager
  <2>2. CASE duplicate
    <3>1. \A u \in Threads : k \in call'[u].tell <=> k \in call[u].tell
      BY Zenon, <1>5, <1>6, <2>2
    <3>2. k \notin raced
      BY Zenon, <1>8, <2>2
    <3>3. \A u \in Threads : k \in call'[u].tell => call'[u] = call[u]
      BY Zenon, <1>5, <1>6, <2>2
    <3> QED BY <1>2, <1>7, <2>1, <3>1, <3>2, <3>3, ConfigAssumption DEF ToldOK, Manager
  <2>3. CASE ~duplicate
    <3>1. \A u \in Threads \ {t} : k \notin call[u].tell
      BY Zenon, <1>8, <2>3 DEF Unreported
    <3>2. \A u \in Threads : k \in call'[u].tell <=> u = t
      BY Zenon, <1>5, <2>3, <3>1
    <3> QED BY <1>5, <3>2 DEF ToldOK
  <2> QED BY Zenon, <2>2, <2>3
<1> QED BY Zenon, <1>10, <1>11, <1>12, <1>14, <1>16, <1>17
\* The end of the critical section of UpdateConfig.
LEMMA SaveKeeps ==
    ASSUME IInv, NEW t \in Threads, Save(t)
    PROVE  IInv'
<1> USE DEF IInv
<1>0. mMutex = t /\ call[t].save # NoConfig /\ call[t] \in Calls
  <2>1. mMutex = t /\ t # NoConfig
    BY Zenon, ConfigAssumption DEF Save
  <2> QED BY Zenon, <2>1 DEF TypeOK
<1>1. PICK k \in Keys, c \in Contents :
        /\ call[t].save = k /\ call[t].content = c /\ call[t].tell \in SUBSET {k}
        /\ mMutex = t /\ call[t] \in Calls
  BY Zenon, <1>0 DEF TypeOK, Calls
<1>2. /\ files' = [files EXCEPT ![k] = c] /\ mConfigs' = mConfigs \cup {k}
      /\ mMutex' = NoConfig /\ installed' = [installed EXCEPT ![k] = c] /\ lost' = lost \ {k}
      /\ mMetricsManagers' = mMetricsManagers /\ configsFromDisk' = configsFromDisk
      /\ up' = up /\ raced' = raced
      /\ call' = [call EXCEPT ![t] = IF call[t].tell = {} THEN Idle
                                       ELSE [call[t] EXCEPT !.save = NoConfig]]
  BY Zenon, <1>1 DEF Save
<1>3. /\ call'[t].save = NoConfig /\ call'[t].tell = call[t].tell
      /\ call[t].tell # {} => call'[t].content = c
      /\ \A u \in Threads \ {t} : call'[u] = call[u]
      /\ call' \in [Threads -> Calls]
  <2> DEFINE new == IF call[t].tell = {} THEN Idle ELSE [call[t] EXCEPT !.save = NoConfig]
  <2>1. /\ new \in Calls /\ new.save = NoConfig /\ new.tell = call[t].tell
        /\ call[t].tell # {} => new.content = c
    BY Zenon, <1>1 DEF Calls, Idle
  <2>2. call' = [call EXCEPT ![t] = new] /\ call \in [Threads -> Calls]
    BY Zenon, <1>2 DEF TypeOK
  <2> HIDE DEF new
  <2> QED BY Zenon, <2>1, <2>2
<1>4. \A u \in Threads \ {t} : call[u].save = NoConfig
  BY Zenon, <1>1 DEF TypeOK
<1>5. call[t].save = k /\ call[t].content = c
  BY Zenon, <1>1
<1>6. TypeOK'
  <2>1. \A u \in Threads :
          /\ (mMutex' = u) <=> (call'[u].save # NoConfig)
          /\ call'[u].save # NoConfig =>
                /\ call'[u].content \in Contents /\ ~call'[u].wipe
                /\ call'[u].tell \in SUBSET {call'[u].save}
    BY <1>2, <1>3, <1>4, ConfigAssumption
  <2>2. /\ mConfigs' \in SUBSET Keys
        /\ files' \in [Keys -> Contents \cup {NoConfig}]
        /\ installed' \in [Keys -> Contents \cup {NoConfig}]
        /\ lost' \in SUBSET Keys
    BY <1>1, <1>2 DEF TypeOK
  <2> QED BY Zenon, <1>2, <1>3, <2>1, <2>2 DEF TypeOK
<1>7. up
  <2> SUFFICES ASSUME ~up PROVE FALSE BY Zenon
  <2> QED BY Zenon, <1>1, ConfigAssumption DEF DownOK
<1>8. DownOK'
  BY Zenon, <1>2, <1>7 DEF DownOK
<1>9. ASSUME NEW l \in Keys, l # k PROVE (FileOK(l) /\ KnownOK(l) /\ ToldOK(l))'
  <2>1. /\ files'[l] = files[l] /\ installed'[l] = installed[l]
        /\ (l \in lost' <=> l \in lost) /\ (l \in mConfigs' <=> l \in mConfigs)
    BY Zenon, <1>2, <1>9 DEF TypeOK
  <2>2. l \notin call[t].tell /\ l \notin call'[t].tell
    BY Zenon, <1>1, <1>3, <1>9
  <2>3. Untouched(l)
    BY <1>2, <1>3, <1>4, <1>5, <1>9, <2>1, <2>2, ConfigAssumption DEF Untouched
  <2> QED BY Zenon, <2>3, <1>2, <1>9, UntouchedKeeps
<1>10. ~Saving(k)'
  BY <1>1, <1>3, <1>4, ConfigAssumption DEF Saving
<1>11. k \in mConfigs' /\ installed'[k] = c /\ files'[k] = c /\ k \notin lost' /\ c # NoConfig
  BY Zenon, <1>1, <1>2, ConfigAssumption DEF TypeOK
<1>12. FileOK(k)'
  BY Zenon, <1>10, <1>11 DEF FileOK
<1>13. KnownOK(k)'
  BY Zenon, <1>10, <1>11 DEF KnownOK, Saving
<1>14. ToldOK(k)'
  <2> SUFFICES ASSUME k \notin raced PROVE ToldOK(k)' BY Zenon, <1>2 DEF ToldOK
  <2>1. Expected(k)' = Manager(c)
    BY Zenon, <1>11 DEF Expected, Manager
  <2>2. \A u \in Threads : k \in call'[u].tell <=> k \in call[u].tell
    BY Zenon, <1>3
  <2>3. CASE call[t].tell = {}
    <3>1. k \in mConfigs /\ installed[k] = c
      BY Zenon, <1>1, <1>5, <2>3 DEF KnownOK
    <3>2. Expected(k) = Manager(c)
      BY Zenon, <3>1 DEF Expected
    <3>3. \A u \in Threads : k \in call'[u].tell => call'[u] = call[u] /\ call[u].save # k
      BY Zenon, <1>1, <1>3, <1>4, <2>3, ConfigAssumption
    <3> QED BY <1>1, <1>2, <2>1, <2>2, <3>2, <3>3 DEF ToldOK, Manager
  <2>4. CASE call[t].tell # {}
    <3>1. k \in call[t].tell
      BY Zenon, <1>1, <2>4
    <3>2. \A u \in Threads : k \in call'[u].tell <=> u = t
      BY Zenon, <1>1, <2>2, <3>1 DEF ToldOK
    <3>3. call'[t].content = c
      BY Zenon, <1>3, <2>4
    <3> QED BY Zenon, <2>1, <3>2, <3>3 DEF ToldOK, Manager
  <2> QED BY Zenon, <2>3, <2>4
<1> QED BY Zenon, <1>6, <1>8, <1>9, <1>12, <1>13, <1>14

\* A removing call of t: it reports K, leaves the files F and forgets what was
\* installed for G.
Removal(t, K, F, w, G) ==
    /\ K \in SUBSET mConfigs /\ G \in SUBSET Keys /\ K \subseteq G /\ G \cap mConfigs \subseteq K
    /\ w \in BOOLEAN /\ F \in [Keys -> Contents \cup {NoConfig}]
    /\ Remove(t, K, F, w)
    /\ installed' = [l \in Keys |-> IF l \in G THEN NoConfig ELSE installed[l]]
    /\ lost' \in SUBSET Keys
    /\ \A l \in Keys \ G : F[l] = files[l] /\ (l \in lost' <=> l \in lost)
    /\ \A l \in G : l \in lost' \/ F[l] = NoConfig

\* The removing calls: what they have in common.
LEMMA RemoveKeeps ==
    ASSUME IInv, NEW t \in Threads, NEW K, NEW F, NEW wipe, NEW G, Removal(t, K, F, wipe, G)
    PROVE  IInv'
<1>0. /\ K \in SUBSET mConfigs /\ G \in SUBSET Keys /\ K \subseteq G /\ G \cap mConfigs \subseteq K
      /\ wipe \in BOOLEAN /\ F \in [Keys -> Contents \cup {NoConfig}]
      /\ Remove(t, K, F, wipe)
      /\ installed' = [l \in Keys |-> IF l \in G THEN NoConfig ELSE installed[l]]
      /\ lost' \in SUBSET Keys
      /\ \A l \in Keys \ G : F[l] = files[l] /\ (l \in lost' <=> l \in lost)
      /\ \A l \in G : l \in lost' \/ F[l] = NoConfig
  BY Zenon DEF Removal
<1> USE DEF IInv
<1>1. /\ up /\ call[t] = Idle /\ mMutex = NoConfig
      /\ mConfigs' = mConfigs \ K /\ files' = F
      /\ call' = [call EXCEPT ![t] = [Idle EXCEPT !.tell = K, !.wipe = wipe]]
      /\ mMetricsManagers' = mMetricsManagers /\ mMutex' = mMutex
      /\ configsFromDisk' = configsFromDisk /\ up' = up
      /\ raced' = (raced \ K) \cup (K \cap Unreported(t))
  BY Zenon, <1>0 DEF Remove, CanLock, Note
<1>2. /\ call'[t].save = NoConfig /\ call'[t].tell = K /\ call'[t].content = NoConfig
      /\ \A u \in Threads \ {t} : call'[u] = call[u]
      /\ call' \in [Threads -> Calls]
  <2> DEFINE new == [Idle EXCEPT !.tell = K, !.wipe = wipe]
  <2>1. K \in SUBSET Keys
    BY Zenon, <1>0 DEF TypeOK
  <2>2. new \in Calls /\ new.save = NoConfig /\ new.tell = K /\ new.content = NoConfig
    BY Zenon, <1>0, <2>1 DEF Calls, Idle
  <2>3. call' = [call EXCEPT ![t] = new] /\ call \in [Threads -> Calls]
    BY Zenon, <1>0, <1>1 DEF TypeOK
  <2> HIDE DEF new
  <2> QED BY Zenon, <1>0, <2>2, <2>3
<1>3. \A u \in Threads : call[u].save = NoConfig /\ call'[u].save = NoConfig
  BY <1>0, <1>1, <1>2, ConfigAssumption DEF TypeOK
<1>4. call[t].tell = {}
  BY <1>0, <1>1 DEF Idle
<1>5. TypeOK'
  <2>1. \A u \in Threads :
          /\ (mMutex' = u) <=> (call'[u].save # NoConfig)
          /\ call'[u].save # NoConfig =>
                /\ call'[u].content \in Contents /\ ~call'[u].wipe
                /\ call'[u].tell \in SUBSET {call'[u].save}
    BY Zenon, <1>0, <1>1, <1>3, ConfigAssumption
  <2>2. /\ mConfigs' \in SUBSET Keys /\ raced' \in SUBSET Keys
        /\ installed' \in [Keys -> Contents \cup {NoConfig}]
    BY Zenon, <1>0, <1>1 DEF TypeOK
  <2> QED BY Zenon, <1>0, <1>1, <1>2, <2>1, <2>2 DEF TypeOK
<1>6. DownOK'
  BY Zenon, <1>0, <1>1 DEF DownOK
<1>7. ASSUME NEW l \in Keys, l \notin G PROVE (FileOK(l) /\ KnownOK(l) /\ ToldOK(l))'
  <2>1. Untouched(l)
    BY <1>0, <1>1, <1>2, <1>3, <1>4, <1>7, ConfigAssumption DEF Untouched
  <2> QED BY Zenon, <1>0, <2>1, <1>1, <1>7, UntouchedKeeps
<1>8. ASSUME NEW l \in G PROVE (FileOK(l) /\ KnownOK(l) /\ ToldOK(l))'
  <2>1. l \in Keys /\ installed'[l] = NoConfig /\ l \notin mConfigs' /\ ~Saving(l)'
    BY <1>0, <1>1, <1>3, ConfigAssumption DEF Saving
  <2>2. FileOK(l)'
    BY Zenon, <1>0, <1>1, <2>1 DEF FileOK
  <2>3. KnownOK(l)'
    BY <1>0, <1>3, <2>1, ConfigAssumption DEF KnownOK
  <2>4. Expected(l)' = NoConfig
    BY Zenon, <1>0, <2>1, ManagerNone DEF Expected, Manager
  <2>5. ToldOK(l)'
    <3> SUFFICES ASSUME l \notin raced' PROVE ToldOK(l)' BY Zenon DEF ToldOK
    <3>1. CASE l \in K
      <4>1. \A u \in Threads \ {t} : l \notin call[u].tell
        BY Zenon, <1>0, <1>1, <3>1 DEF Unreported
      <4>2. \A u \in Threads : l \in call'[u].tell <=> u = t
        BY Zenon, <1>0, <1>2, <3>1, <4>1
      <4> QED BY <1>0, <1>2, <2>4, <4>2, ManagerNone DEF ToldOK, Manager
    <3>2. CASE l \notin K
      <4>1. l \notin raced /\ l \notin mConfigs
        BY Zenon, <1>0, <1>1, <3>2
      <4>2. Expected(l) = NoConfig
        BY Zenon, <1>0, <4>1, ManagerNone DEF Expected
      <4>3. \A u \in Threads : l \in call'[u].tell <=> l \in call[u].tell
        BY Zenon, <1>0, <1>2, <1>4, <3>2
      <4>4. \A u \in Threads : l \in call'[u].tell => call'[u] = call[u]
        BY Zenon, <1>0, <1>2, <3>2
      <4> QED BY <1>0, <1>1, <2>1, <2>4, <4>1, <4>2, <4>3, <4>4 DEF ToldOK, Manager
    <3> QED BY Zenon, <1>0, <3>1, <3>2
  <2> QED BY Zenon, <1>0, <2>2, <2>3, <2>5
<1> QED BY Zenon, <1>0, <1>5, <1>6, <1>7, <1>8
\* RemoveConfig.
LEMMA RemoveConfigKeeps ==
    ASSUME IInv, DistinctNames, NEW t \in Threads, NEW k \in Keys, RemoveConfig(t, k)
    PROVE  IInv'
<1> DEFINE F == remove_saved_configs({k})
<1>1. TypeOK
  BY Zenon DEF IInv
<1>2. F = [l \in Keys |-> IF l \in {k} THEN NoConfig ELSE files[l]]
  BY Zenon, <1>1, RemovesOwn
<1>3. F \in [Keys -> Contents \cup {NoConfig}] /\ F[k] = NoConfig
      /\ \A l \in Keys \ {k} : F[l] = files[l]
  BY Zenon, <1>1, <1>2 DEF TypeOK
<1>4. /\ Remove(t, {k} \cap mConfigs, F, FALSE)
      /\ installed' = [l \in Keys |-> IF l \in {k} THEN NoConfig ELSE installed[l]]
      /\ lost' = lost \ {k}
  BY Zenon, <1>1 DEF RemoveConfig, TypeOK
<1>5. lost' \in SUBSET Keys
  BY Zenon, <1>1, <1>4 DEF TypeOK
<1> HIDE DEF F
<1> DEFINE K == {k} \cap mConfigs
           G == {k}
<1>6. /\ K \in SUBSET mConfigs /\ G \in SUBSET Keys /\ K \subseteq G /\ G \cap mConfigs \subseteq K
      /\ FALSE \in BOOLEAN /\ Remove(t, K, F, FALSE)
      /\ installed' = [l \in Keys |-> IF l \in G THEN NoConfig ELSE installed[l]]
      /\ \A l \in Keys \ G : F[l] = files[l] /\ (l \in lost' <=> l \in lost)
      /\ \A l \in G : l \in lost' \/ F[l] = NoConfig
  BY Zenon, <1>3, <1>4
<1>7. Removal(t, K, F, FALSE, G)
  BY Zenon, <1>3, <1>4, <1>5, <1>6 DEF Removal
<1> HIDE DEF K, G
<1> QED BY Zenon, <1>7, RemoveKeeps

\* RemoveConfigs.
LEMMA RemoveConfigsKeeps ==
    ASSUME IInv, DistinctNames, NEW t \in Threads, NEW u, RemoveConfigs(t, u)
    PROVE  IInv'
<1>0. PICK K : K = {k \in mConfigs : UidOf[k] = u}
  BY Zenon
<1>1. TypeOK /\ K \in SUBSET Keys /\ K \in SUBSET mConfigs
  BY Zenon, <1>0 DEF IInv, TypeOK
<1>2. PICK F, w : /\ F = remove_saved_configs(K) /\ w = FALSE
                  /\ F = [l \in Keys |-> IF l \in K THEN NoConfig ELSE files[l]]
  BY Zenon, <1>1, RemovesOwn
<1>3. /\ Remove(t, K, F, w) /\ w \in BOOLEAN
      /\ installed' = [l \in Keys |-> IF l \in K THEN NoConfig ELSE installed[l]]
      /\ lost' = lost \ K
  BY Zenon, <1>0, <1>2 DEF RemoveConfigs
<1>4. /\ F \in [Keys -> Contents \cup {NoConfig}]
      /\ \A l \in Keys \ K : F[l] = files[l] /\ (l \in lost' <=> l \in lost)
      /\ \A l \in K : l \in lost' \/ F[l] = NoConfig
      /\ lost' \in SUBSET Keys
      /\ K \subseteq K /\ K \cap mConfigs \subseteq K
  BY Zenon, <1>1, <1>2, <1>3 DEF TypeOK
<1>5. Removal(t, K, F, w, K)
  BY Zenon, <1>1, <1>3, <1>4 DEF Removal
<1> QED BY Zenon, <1>5, RemoveKeeps

\* RemoveAllConfigs.
LEMMA RemoveAllKeeps ==
    ASSUME IInv, NEW t \in Threads, RemoveAllConfigs(t)
    PROVE  IInv'
<1>1. PICK K, F, w : K = mConfigs /\ F = files /\ w = TRUE
  BY Zenon
<1>2. /\ Remove(t, K, F, w) /\ w \in BOOLEAN
      /\ installed' = [l \in Keys |-> IF l \in K THEN NoConfig ELSE installed[l]]
      /\ lost' = lost \cup K
      /\ K \in SUBSET Keys /\ K \in SUBSET mConfigs
      /\ F \in [Keys -> Contents \cup {NoConfig}] /\ TypeOK
  BY Zenon, <1>1 DEF RemoveAllConfigs, IInv, TypeOK
<1>3. /\ \A l \in Keys \ K : F[l] = files[l] /\ (l \in lost' <=> l \in lost)
      /\ \A l \in K : l \in lost' \/ F[l] = NoConfig
      /\ lost' \in SUBSET Keys
      /\ K \subseteq K /\ K \cap mConfigs \subseteq K
  BY Zenon, <1>1, <1>2 DEF TypeOK
<1>4. Removal(t, K, F, w, K)
  BY Zenon, <1>2, <1>3 DEF Removal
<1> QED BY Zenon, <1>4, RemoveKeeps

\* deleteAllFiles.
LEMMA DeleteAllKeeps ==
    ASSUME IInv, NEW t \in Threads, deleteAllFiles(t)
    PROVE  IInv'
<1> USE DEF IInv
<1>1. /\ call[t].wipe /\ call[t].tell = {} /\ files' = Nothing
      /\ lost' = {k \in Keys : installed[k] # NoConfig}
      /\ call' = [call EXCEPT ![t] = Idle]
      /\ UNCHANGED <<mConfigs, mMetricsManagers, mMutex, configsFromDisk, up, installed,
                     raced>>
  BY Zenon DEF deleteAllFiles
<1>2. up
  BY <1>1 DEF DownOK, Idle
<1>3. /\ call'[t].save = NoConfig /\ call'[t].tell = {} /\ call[t].save = NoConfig
      /\ \A u \in Threads \ {t} : call'[u] = call[u]
      /\ call' \in [Threads -> Calls]
  <2>1. Idle \in Calls /\ Idle.save = NoConfig /\ Idle.tell = {}
    BY Zenon DEF Idle, Calls
  <2>2. call' = [call EXCEPT ![t] = Idle] /\ call \in [Threads -> Calls]
    BY Zenon, <1>1 DEF TypeOK
  <2>3. call[t].save = NoConfig
    BY Zenon, <1>1 DEF TypeOK
  <2> QED BY Zenon, <2>1, <2>2, <2>3
<1>4. TypeOK'
  <2>1. \A u \in Threads :
          /\ (mMutex' = u) <=> (call'[u].save # NoConfig)
          /\ call'[u].save # NoConfig =>
                /\ call'[u].content \in Contents /\ ~call'[u].wipe
                /\ call'[u].tell \in SUBSET {call'[u].save}
    BY Zenon, <1>1, <1>3 DEF TypeOK
  <2>2. files' \in [Keys -> Contents \cup {NoConfig}] /\ lost' \in SUBSET Keys
    BY Zenon, <1>1 DEF Nothing
  <2> QED BY Zenon, <1>1, <1>3, <2>1, <2>2 DEF TypeOK
<1>5. DownOK'
  BY Zenon, <1>1, <1>2 DEF DownOK
<1>6. ASSUME NEW l \in Keys PROVE (FileOK(l) /\ KnownOK(l) /\ ToldOK(l))'
  <2>1. \A u \in Threads : /\ (call'[u].save = l <=> call[u].save = l)
                           /\ (l \in call'[u].tell <=> l \in call[u].tell)
                           /\ (call'[u].save = l \/ l \in call'[u].tell => call'[u] = call[u])
    BY Zenon, <1>1, <1>3, ConfigAssumption
  <2>2. files'[l] = NoConfig /\ (l \in lost' <=> installed[l] # NoConfig)
    BY Zenon, <1>1 DEF Nothing
  <2>3. Saving(l)' <=> Saving(l)
    BY Zenon, <2>1 DEF Saving
  <2>4. Expected(l)' = Expected(l)
    BY Zenon, <1>1 DEF Expected, Manager
  <2>5. FileOK(l)'
    BY Zenon, <1>1, <2>2 DEF FileOK
  <2>6. KnownOK(l)'
    BY <1>1, <2>1, <2>3 DEF KnownOK
  <2>7. ToldOK(l)'
    BY <1>1, <2>1, <2>4 DEF ToldOK, Manager
  <2> QED BY Zenon, <2>5, <2>6, <2>7
<1> QED BY Zenon, <1>4, <1>5, <1>6

\* OnConfigUpdated and OnConfigRemoved.
LEMMA TellKeeps ==
    ASSUME IInv, NEW t \in Threads, NEW k \in Keys, Tell(t, k)
    PROVE  IInv'
<1> USE DEF IInv
<1>1. /\ mMutex # t /\ k \in call[t].tell
      /\ mMetricsManagers' = [mMetricsManagers EXCEPT ![k] = Manager(call[t].content)]
      /\ call' = [call EXCEPT ![t] = IF call[t].tell = {k} /\ ~call[t].wipe THEN Idle
                                     ELSE [call[t] EXCEPT !.tell = call[t].tell \ {k}]]
      /\ UNCHANGED <<mConfigs, files, mMutex, configsFromDisk, up, installed, lost,
                     raced>>
  BY Zenon DEF Tell
<1>2. call[t].save = NoConfig /\ call[t] \in Calls
  BY Zenon, <1>1 DEF TypeOK
<1>3. up
  BY <1>1 DEF DownOK, Idle
<1>4. /\ call'[t].save = NoConfig /\ call'[t].tell = call[t].tell \ {k}
      /\ call'[t].tell # {} => call'[t].content = call[t].content
      /\ \A u \in Threads \ {t} : call'[u] = call[u]
      /\ call' \in [Threads -> Calls]
  <2> DEFINE new == IF call[t].tell = {k} /\ ~call[t].wipe THEN Idle
                    ELSE [call[t] EXCEPT !.tell = call[t].tell \ {k}]
  <2>1. /\ new \in Calls /\ new.save = NoConfig /\ new.tell = call[t].tell \ {k}
        /\ new.tell # {} => new.content = call[t].content
    BY Zenon, <1>2 DEF Calls, Idle
  <2>2. call' = [call EXCEPT ![t] = new] /\ call \in [Threads -> Calls]
    BY Zenon, <1>1 DEF TypeOK
  <2> HIDE DEF new
  <2> QED BY Zenon, <2>1, <2>2
<1>5. TypeOK'
  <2>1. \A u \in Threads :
          /\ (mMutex' = u) <=> (call'[u].save # NoConfig)
          /\ call'[u].save # NoConfig =>
                /\ call'[u].content \in Contents /\ ~call'[u].wipe
                /\ call'[u].tell \in SUBSET {call'[u].save}
    BY <1>1, <1>2, <1>4 DEF TypeOK
  <2>2. mMetricsManagers' \in [Keys -> Good \cup {NoConfig}]
    BY Zenon, <1>1, ManagerType DEF TypeOK
  <2> QED BY Zenon, <1>1, <1>4, <2>1, <2>2 DEF TypeOK
<1>6. DownOK'
  BY Zenon, <1>1, <1>3 DEF DownOK
<1>7. ASSUME NEW l \in Keys, l # k PROVE (FileOK(l) /\ KnownOK(l) /\ ToldOK(l))'
  <2>1. mMetricsManagers'[l] = mMetricsManagers[l]
    BY Zenon, <1>1, <1>7 DEF TypeOK
  <2>2. Untouched(l)
    BY <1>1, <1>2, <1>4, <1>7, <2>1, ConfigAssumption DEF Untouched
  <2> QED BY Zenon, <2>2, <1>1, <1>7, UntouchedKeeps
<1>8. \A u \in Threads : (call'[u].save = k <=> call[u].save = k)
                         /\ (call'[u].save = k => call'[u] = call[u])
  BY Zenon, <1>2, <1>4, ConfigAssumption
<1>9. Saving(k)' <=> Saving(k)
  BY Zenon, <1>8 DEF Saving
<1>10. FileOK(k)' /\ KnownOK(k)'
  <2>1. FileOK(k)'
    BY Zenon, <1>1, <1>9 DEF FileOK
  <2>2. ASSUME NEW u \in Threads, call'[u].save = k, call'[u].tell = {}
        PROVE  k \in mConfigs' /\ call'[u].content = installed'[k]
    <3>1. call'[u] = call[u] /\ call[u].save = k
      BY Zenon, <1>8, <2>2
    <3>2. call[u].tell = {}
      BY Zenon, <2>2, <3>1
    <3>3. mConfigs' = mConfigs /\ installed' = installed
      BY Zenon, <1>1
    <3> QED BY Zenon, <3>1, <3>2, <3>3 DEF KnownOK
  <2>3. KnownOK(k)'
    BY Zenon, <1>1, <1>9, <2>2 DEF KnownOK
  <2> QED BY Zenon, <2>1, <2>3
<1>11. ToldOK(k)'
  <2> SUFFICES ASSUME k \notin raced PROVE ToldOK(k)' BY Zenon, <1>1 DEF ToldOK
  <2>1. Expected(k)' = Expected(k)
    BY Zenon, <1>1 DEF Expected, Manager
  <2>2. Manager(call[t].content) = Expected(k)
    BY Zenon, <1>1, <1>2, ConfigAssumption DEF ToldOK
  <2>3. \A u \in Threads : k \notin call'[u].tell
    BY Zenon, <1>1, <1>4 DEF ToldOK
  <2>4. mMetricsManagers'[k] = Manager(call[t].content)
    BY Zenon, <1>1 DEF TypeOK
  <2> QED BY Zenon, <2>1, <2>2, <2>3, <2>4 DEF ToldOK
<1> QED BY Zenon, <1>5, <1>6, <1>7, <1>10, <1>11
\* resetConfigsLocked, for one key.
LEMMA ResetKeeps ==
    ASSUME IInv, DistinctNames, NEW k \in Keys, resetConfigs(k)
    PROVE  IInv'
<1> USE DEF IInv
<1>1. PICK c \in readConfigFromDisk(k) \ {NoConfig} :
        /\ mMetricsManagers' = [mMetricsManagers EXCEPT ![k] = Manager(c)]
        /\ raced' = IF c # files[k] /\ \A t \in Threads : k \notin call[t].tell
                    THEN raced \cup {k} ELSE raced
  BY Zenon DEF resetConfigs
<1>2. /\ mMetricsManagers[k] # NoConfig
      /\ UNCHANGED <<mConfigs, files, mMutex, call, configsFromDisk, up, installed, lost>>
  BY Zenon DEF resetConfigs
<1>3. up
  BY Zenon, <1>2 DEF DownOK, Nothing
<1>4. TypeOK'
  <2>1. mMetricsManagers' \in [Keys -> Good \cup {NoConfig}] /\ raced' \in SUBSET Keys
    BY Zenon, <1>1, ManagerType DEF TypeOK
  <2> QED BY Zenon, <1>2, <2>1 DEF TypeOK
<1>5. DownOK'
  BY Zenon, <1>2, <1>3 DEF DownOK
<1>6. ASSUME NEW l \in Keys, l # k PROVE (FileOK(l) /\ KnownOK(l) /\ ToldOK(l))'
  <2>1. mMetricsManagers'[l] = mMetricsManagers[l] /\ (l \in raced' <=> l \in raced)
    BY Zenon, <1>1, <1>6 DEF TypeOK
  <2>2. Untouched(l)
    BY Zenon, <1>2, <2>1 DEF Untouched
  <2> QED BY Zenon, <2>2, <1>2, <1>6, UntouchedKeeps
<1>7. Saving(k)' <=> Saving(k)
  BY Zenon, <1>2 DEF Saving
<1>8. FileOK(k)'
  BY Zenon, <1>2, <1>7 DEF FileOK
<1>9. KnownOK(k)'
  BY Zenon, <1>2, <1>7 DEF KnownOK
<1>10. ToldOK(k)'
  <2> SUFFICES ASSUME k \notin raced' PROVE ToldOK(k)' BY Zenon DEF ToldOK
  <2>1. k \notin raced
    BY Zenon, <1>1
  <2>2. Expected(k)' = Expected(k)
    BY Zenon, <1>2 DEF Expected, Manager
  <2>3. CASE \E t \in Threads : k \in call[t].tell
    BY Zenon, <1>2, <2>1, <2>2, <2>3 DEF ToldOK, Manager
  <2>4. CASE \A t \in Threads : k \notin call[t].tell
    <3>1. c = files[k] /\ c # NoConfig
      BY Zenon, <1>1, <2>4
    <3>2. mMetricsManagers[k] = Expected(k)
      BY Zenon, <2>1, <2>4 DEF ToldOK
    <3>3. k \in mConfigs
      BY Zenon, <1>2, <3>2, ManagerNone DEF Expected
    <3>4. c = installed[k]
      BY Zenon, <3>1, <3>3 DEF FileOK
    <3>5. mMetricsManagers'[k] = Expected(k)
      BY Zenon, <1>1, <3>3, <3>4 DEF Expected, TypeOK
    <3> QED BY Zenon, <1>2, <2>2, <2>4, <3>5 DEF ToldOK
  <2> QED BY Zenon, <2>3, <2>4
<1> QED BY Zenon, <1>4, <1>5, <1>6, <1>8, <1>9, <1>10

\* statsd starts: what the files hold is what is installed.
LEMMA StartupKeeps ==
    ASSUME IInv, Startup
    PROVE  IInv'
<1> USE DEF IInv
<1>1. /\ ~up /\ up' /\ configsFromDisk' = files /\ installed' = files /\ lost' = {}
      /\ UNCHANGED <<mConfigs, files, mMetricsManagers, mMutex, call, raced>>
      /\ up' = TRUE
  BY Zenon DEF Startup
<1>2. /\ mConfigs = {} /\ mMetricsManagers = Nothing
      /\ \A t \in Threads : call[t].save = NoConfig /\ call[t].tell = {}
  BY <1>1 DEF DownOK, Idle
<1>3. TypeOK'
  BY Zenon, <1>1 DEF TypeOK
<1>4. DownOK'
  BY Zenon, <1>1 DEF DownOK
<1>5. ASSUME NEW l \in Keys PROVE (FileOK(l) /\ KnownOK(l) /\ ToldOK(l))'
  <2>1. ~Saving(l)'
    BY Zenon, <1>1, <1>2, ConfigAssumption DEF Saving
  <2>2. Expected(l)' = NoConfig
    BY Zenon, <1>1, <1>2, ManagerNone DEF Expected, Manager
  <2>3. mMetricsManagers'[l] = NoConfig
    BY Zenon, <1>1, <1>2 DEF Nothing
  <2>4. FileOK(l)'
    BY Zenon, <1>1, <2>1 DEF FileOK
  <2>5. KnownOK(l)'
    BY Zenon, <1>1, <1>2, ConfigAssumption DEF KnownOK
  <2>6. ToldOK(l)'
    BY Zenon, <1>1, <1>2, <2>2, <2>3 DEF ToldOK
  <2> QED BY Zenon, <2>4, <2>5, <2>6
<1> QED BY Zenon, <1>3, <1>4, <1>5
\* Startup meets a key beyond the limit of its uid.
LEMMA RefusedKeeps ==
    ASSUME IInv, NEW k \in Keys, CanLock(Main), k \notin mConfigs,
           installed' = [installed EXCEPT ![k] = NoConfig], lost' = lost \cup {k},
           UNCHANGED <<mConfigs, files, mMetricsManagers, mMutex, call, up, raced>>,
           configsFromDisk' = [configsFromDisk EXCEPT ![k] = NoConfig]
    PROVE  IInv'
<1> USE DEF IInv
<1>1. up /\ \A t \in Threads : call[t].save = NoConfig
  BY Zenon, ConfigAssumption DEF CanLock, TypeOK
<1>2. TypeOK'
  BY Zenon DEF TypeOK
<1>3. DownOK'
  BY Zenon, <1>1 DEF DownOK
<1>4. ASSUME NEW l \in Keys, l # k PROVE (FileOK(l) /\ KnownOK(l) /\ ToldOK(l))'
  <2>1. /\ installed'[l] = installed[l] /\ configsFromDisk'[l] = configsFromDisk[l]
        /\ (l \in lost' <=> l \in lost)
    BY Zenon, <1>4 DEF TypeOK
  <2>2. Untouched(l)
    BY Zenon, <2>1 DEF Untouched
  <2> QED BY Zenon, <2>1, <2>2, <1>4, UntouchedKeeps
<1>5. installed'[k] = NoConfig /\ k \in lost' /\ ~Saving(k)'
  BY Zenon, <1>1, ConfigAssumption DEF TypeOK, Saving
<1>6. FileOK(k)' /\ KnownOK(k)'
  BY Zenon, <1>1, <1>5, ConfigAssumption DEF FileOK, KnownOK
<1>7. Expected(k)' = Expected(k)
  BY Zenon DEF Expected, Manager
<1>8. ToldOK(k)'
  BY Zenon, <1>7 DEF ToldOK, Manager
<1> QED BY Zenon, <1>2, <1>3, <1>4, <1>6, <1>8

\* statsd ends.
LEMMA CrashKeeps ==
    ASSUME IInv, Crash
    PROVE  IInv'
<1> USE DEF IInv
<1>1. /\ up' = FALSE /\ mConfigs' = {} /\ mMetricsManagers' = Nothing /\ mMutex' = NoConfig
      /\ call' = [t \in Threads |-> Idle] /\ configsFromDisk' = Nothing
      /\ raced' = {} /\ installed' = installed
  BY Zenon DEF Crash
<1>2. \A t \in Threads : call'[t] = Idle /\ call'[t].save = NoConfig /\ call'[t].tell = {}
  BY Zenon, <1>1 DEF Idle
<1>3. Idle \in Calls
  BY Zenon DEF Idle, Calls
<1>4. /\ files' \in [Keys -> Contents \cup {NoConfig}] /\ lost' \in SUBSET Keys
      /\ \A l \in Keys : l \notin lost' => l \notin lost /\ files'[l] = files[l] /\ ~Saving(l)
  <2>1. CASE mMutex = NoConfig
    <3>1. files' = files /\ lost' = lost
      BY Zenon, <2>1 DEF Crash, disk
    <3>2. \A t \in Threads : call[t].save = NoConfig
      BY Zenon, <2>1, ConfigAssumption DEF TypeOK
    <3> QED BY Zenon, <3>1, <3>2, ConfigAssumption DEF TypeOK, Saving
  <2>2. CASE mMutex # NoConfig
    <3>0. PICK k : k = call[mMutex].save
      BY Zenon
    <3>1. PICK c \in {NoConfig, Empty} :
            /\ k = call[mMutex].save /\ files' = [files EXCEPT ![k] = c] /\ lost' = lost \cup {k}
      BY Zenon, <2>2, <3>0 DEF Crash
    <3>2. mMutex \in Threads
      BY Zenon, <2>2 DEF TypeOK
    <3>3. k \in Keys
      BY Zenon, <3>1, <3>2 DEF TypeOK, Calls
    <3>4. \A t \in Threads : call[t].save \in {NoConfig, k}
      BY Zenon, <3>1, <3>2 DEF TypeOK
    <3>5. c \in Contents \cup {NoConfig}
      BY Zenon, ConfigAssumption DEF Contents
    <3> QED BY <3>1, <3>3, <3>4, <3>5, ConfigAssumption DEF TypeOK, Saving
  <2> QED BY Zenon, <2>1, <2>2
<1>5. TypeOK'
  <2>1. /\ call' \in [Threads -> Calls]
        /\ mMetricsManagers' \in [Keys -> Good \cup {NoConfig}]
        /\ configsFromDisk' \in [Keys -> Contents \cup {NoConfig}]
    BY Zenon, <1>1, <1>3 DEF Nothing
  <2>2. \A t \in Threads : mMutex' # t
    BY Zenon, <1>1, ConfigAssumption
  <2> QED BY Zenon, <1>1, <1>2, <1>4, <2>1, <2>2 DEF TypeOK
<1>6. DownOK'
  BY Zenon, <1>1 DEF DownOK
<1>7. ASSUME NEW l \in Keys PROVE (FileOK(l) /\ KnownOK(l) /\ ToldOK(l))'
  <2>1. ~Saving(l)'
    BY Zenon, <1>2, ConfigAssumption DEF Saving
  <2>2. Expected(l)' = NoConfig
    BY Zenon, <1>1, ManagerNone DEF Expected, Manager
  <2>3. mMetricsManagers'[l] = NoConfig
    BY Zenon, <1>1 DEF Nothing
  <2>4. FileOK(l)'
    BY Zenon, <1>1, <1>4, <2>1 DEF FileOK
  <2>5. KnownOK(l)'
    BY Zenon, <1>1, <1>2, ConfigAssumption DEF KnownOK
  <2>6. ToldOK(l)'
    BY Zenon, <1>2, <2>2, <2>3 DEF ToldOK
  <2> QED BY Zenon, <2>4, <2>5, <2>6
<1> QED BY Zenon, <1>5, <1>6, <1>7

\* trimToFit.
LEMMA TrimKeeps ==
    ASSUME IInv, NEW k \in Keys, trimToFit(k)
    PROVE  IInv'
<1> USE DEF IInv
<1>1. /\ files' = [files EXCEPT ![k] = NoConfig] /\ lost' = lost \cup {k}
      /\ UNCHANGED <<mConfigs, mMetricsManagers, mMutex, call, configsFromDisk, up, installed,
                     raced>>
  BY Zenon DEF trimToFit
<1>2. TypeOK'
  BY Zenon, <1>1 DEF TypeOK
<1>3. DownOK'
  BY Zenon, <1>1 DEF DownOK
<1>4. ASSUME NEW l \in Keys, l # k PROVE (FileOK(l) /\ KnownOK(l) /\ ToldOK(l))'
  <2>1. files'[l] = files[l] /\ (l \in lost' <=> l \in lost)
    BY Zenon, <1>1, <1>4 DEF TypeOK
  <2>2. Untouched(l)
    BY Zenon, <1>1, <2>1 DEF Untouched
  <2> QED BY Zenon, <1>1, <2>2, <1>4, UntouchedKeeps
<1>5. files'[k] = NoConfig /\ k \in lost'
  BY Zenon, <1>1 DEF TypeOK
<1>6. Saving(k)' <=> Saving(k)
  BY Zenon, <1>1 DEF Saving
<1>7. Expected(k)' = Expected(k)
  BY Zenon, <1>1 DEF Expected, Manager
<1>8. FileOK(k)'
  BY Zenon, <1>1, <1>5 DEF FileOK
<1>9. KnownOK(k)'
  BY Zenon, <1>1, <1>6 DEF KnownOK
<1>10. ToldOK(k)'
  BY Zenon, <1>1, <1>7 DEF ToldOK, Manager
<1> QED BY Zenon, <1>2, <1>3, <1>4, <1>8, <1>9, <1>10
\* Every step keeps the invariant.
LEMMA NextKeeps ==
    ASSUME DistinctNames, IInv, [Next]_vars
    PROVE  IInv'
<1>0. TypeOK
  BY Zenon DEF IInv
<1>1. ASSUME NEW t \in Callers, NEW k \in Keys, NEW c \in Contents, addConfiguration(t, k, c)
      PROVE  IInv'
  <2>1. UpdateConfig(t, k, c) /\ t \in Threads
    BY Zenon, <1>1 DEF addConfiguration, Threads
  <2>2. /\ configsFromDisk' \in [Keys -> Contents \cup {NoConfig}]
        /\ \A l \in Keys \ {k} : configsFromDisk'[l] = configsFromDisk[l]
    BY Zenon, <1>0, <1>1 DEF addConfiguration, TypeOK
  <2> QED BY Zenon, <2>1, <2>2, UpdateKeeps
<1>2. ASSUME NEW t \in Callers, NEW k \in Keys, RemoveConfig(t, k) PROVE IInv'
  BY Zenon, <1>2, RemoveConfigKeeps DEF Threads
<1>3. ASSUME NEW t \in Callers, NEW u, RemoveConfigs(t, u) PROVE IInv'
  BY Zenon, <1>3, RemoveConfigsKeeps DEF Threads
<1>4. ASSUME NEW t \in Callers, RemoveAllConfigs(t) PROVE IInv'
  BY Zenon, <1>4, RemoveAllKeeps DEF Threads
<1>5. ASSUME NEW t \in Callers, deleteAllFiles(t) PROVE IInv'
  BY Zenon, <1>5, DeleteAllKeeps DEF Threads
<1>6. ASSUME NEW t \in Threads, Save(t) PROVE IInv'
  BY Zenon, <1>6, SaveKeeps
<1>7. ASSUME NEW t \in Threads, NEW k \in Keys, Tell(t, k) PROVE IInv'
  BY Zenon, <1>7, TellKeeps
<1>8. ASSUME NEW k \in Keys, resetConfigs(k) PROVE IInv'
  BY Zenon, <1>8, ResetKeeps
<1>9. ASSUME NEW k \in Keys, StartupUpdate(k) PROVE IInv'
  <2>1. /\ configsFromDisk' = [configsFromDisk EXCEPT ![k] = NoConfig]
        /\ configsFromDisk[k] \in Contents /\ Main \in Threads
        /\ configsFromDisk' \in [Keys -> Contents \cup {NoConfig}]
        /\ \A l \in Keys \ {k} : configsFromDisk'[l] = configsFromDisk[l]
    BY <1>0, <1>9 DEF StartupUpdate, TypeOK, Threads
  <2>2. CASE UpdateConfig(Main, k, configsFromDisk[k])
    <3>1. PICK c \in Contents : c = configsFromDisk[k]
      BY Zenon, <2>1
    <3>2. UpdateConfig(Main, k, c)
      BY Zenon, <1>0, <2>2, <3>1 DEF TypeOK
    <3> QED BY Zenon, <2>1, <3>2, UpdateKeeps
  <2>3. CASE /\ CanLock(Main)
             /\ k \notin mConfigs /\ Cardinality(SameUid(k)) >= kMaxConfigCountPerUid
             /\ installed' = [installed EXCEPT ![k] = NoConfig]
             /\ lost' = lost \cup {k}
             /\ UNCHANGED <<mConfigs, files, mMetricsManagers, mMutex, call, up, raced>>
    BY Zenon, <2>1, <2>3, RefusedKeeps
  <2> QED BY Zenon, <1>9, <2>2, <2>3 DEF StartupUpdate
<1>10. ASSUME NEW k \in Keys, trimToFit(k) PROVE IInv'
  BY Zenon, <1>10, TrimKeeps
<1>11. CASE Startup
  BY Zenon, <1>11, StartupKeeps
<1>12. CASE Crash
  BY Zenon, <1>12, CrashKeeps
<1>13. CASE UNCHANGED vars
  <2>1. TypeOK' /\ DownOK' /\ up' = up /\ configsFromDisk' = configsFromDisk
    BY Zenon, <1>13 DEF IInv, TypeOK, DownOK, vars
  <2>2. ASSUME NEW l \in Keys PROVE (FileOK(l) /\ KnownOK(l) /\ ToldOK(l))'
    <3>1. Untouched(l)
      BY Zenon, <1>13 DEF Untouched, vars
    <3> QED BY Zenon, <2>1, <3>1, UntouchedKeeps DEF IInv
  <2> QED BY Zenon, <2>1, <2>2 DEF IInv
<1> QED
  BY Zenon, <1>1, <1>2, <1>3, <1>4, <1>5, <1>6, <1>7, <1>8, <1>9, <1>10, <1>11, <1>12, <1>13 DEF Next

\* The inductive invariant of ConfigManager.
LEMMA Inductive == ASSUME DistinctNames PROVE Spec => []IInv
<1>1. Init => IInv
  BY Zenon, InitOK
<1>2. IInv /\ [Next]_vars => IInv'
  BY Zenon, NextKeeps
<1> QED BY <1>1, <1>2, PTL DEF Spec

\* For any threads, keys and contents, a key that no thread has to report any
\* more is run by StatsLogProcessor exactly as ConfigManager was last asked,
\* unless two reports on it raced or it was reset half way through a rewrite.
THEOREM ProcessorInSync ==
    ASSUME DistinctNames PROVE Spec => [](TypeOK /\ ProcessorAgrees)
<1>1. IInv => TypeOK /\ ProcessorAgrees
  BY Zenon DEF IInv, ProcessorAgrees, ToldOK, Quiet, Expected
<1> QED BY <1>1, Inductive, PTL

\* For any threads, keys and contents, statsd may die at any step and the
\* files hold what was installed, save for trimmed, wiped or half-written
\* files; and the keys ConfigManager knows are those that were installed.
THEOREM ConfigsDurable ==
    ASSUME DistinctNames PROVE Spec => []ConfigsKept
<1>1. IInv => FilesCurrent
  BY Zenon DEF IInv, FilesCurrent, FileOK, Saving
<1>2. IInv => KnowsInstalled
  BY Zenon DEF IInv, KnowsInstalled, KnownOK, Quiet, Saving
<1>3. IInv => ConfigsKept
  BY Zenon, <1>1, <1>2 DEF ConfigsKept
<1> QED BY <1>3, Inductive, PTL
-----------------------------------------------------------------------------
(* The limit on the configs of a uid.                                      *)

\* Room for every key that is about to be saved.
LimitOK ==
    /\ WithinLimit
    /\ \A t \in Threads, k \in Keys : call[t].save = k =>
          k \in mConfigs \/ Cardinality(SameUid(k)) < kMaxConfigCountPerUid

\* A uid's known configs are a finite set.
LEMMA SameUidFinite ==
    ASSUME TypeOK, NEW k \in Keys
    PROVE  IsFiniteSet(SameUid(k)) /\ Cardinality(SameUid(k)) \in Nat
<1>1. SameUid(k) \subseteq Keys
  BY Zenon DEF SameUid, TypeOK
<1> QED BY Zenon, <1>1, ConfigAssumption, FS_Subset, FS_CardinalityType

\* Forgetting keys makes no uid's set larger.
LEMMA ShrinkKeeps ==
    ASSUME TypeOK, LimitOK, mConfigs' \subseteq mConfigs,
           \A t \in Threads, k \in Keys : call'[t].save = k =>
              call[t].save = k /\ mConfigs' = mConfigs
    PROVE  LimitOK'
<1>1. ASSUME NEW k \in Keys
      PROVE  Cardinality(SameUid(k)') <= kMaxConfigCountPerUid
  <2>1. SameUid(k)' \subseteq SameUid(k)
    BY Zenon DEF SameUid
  <2>2. /\ IsFiniteSet(SameUid(k)) /\ IsFiniteSet(SameUid(k)')
        /\ Cardinality(SameUid(k)') <= Cardinality(SameUid(k))
        /\ Cardinality(SameUid(k)') \in Nat /\ Cardinality(SameUid(k)) \in Nat
    BY Zenon, <2>1, SameUidFinite, FS_Subset, FS_CardinalityType
  <2>3. Cardinality(SameUid(k)) <= kMaxConfigCountPerUid
    BY Zenon DEF LimitOK, WithinLimit
  <2> QED BY <2>2, <2>3, ConfigAssumption
<1>2. WithinLimit'
  BY Zenon, <1>1 DEF WithinLimit
<1>3. ASSUME NEW t \in Threads, NEW k \in Keys, call'[t].save = k
      PROVE  k \in mConfigs' \/ Cardinality(SameUid(k)') < kMaxConfigCountPerUid
  <2>1. call[t].save = k /\ mConfigs' = mConfigs
    BY Zenon, <1>3
  <2>2. SameUid(k)' = SameUid(k)
    BY Zenon, <2>1 DEF SameUid
  <2> QED BY Zenon, <2>1, <2>2 DEF LimitOK
<1> QED BY Zenon, <1>2, <1>3 DEF LimitOK

\* UpdateConfig only begins to save a key there is room for.
LEMMA UpdateLimit ==
    ASSUME TypeOK, LimitOK, NEW t \in Threads, NEW k \in Keys, NEW c, UpdateConfig(t, k, c)
    PROVE  LimitOK'
<1>1. /\ mConfigs' = mConfigs
      /\ k \in mConfigs \/ Cardinality(SameUid(k)) < kMaxConfigCountPerUid
  BY Zenon DEF UpdateConfig
<1>2. /\ call'[t].save = k
      /\ \A u \in Threads \ {t} : call'[u] = call[u]
  <2>1. PICK new : new.save = k /\ call' = [call EXCEPT ![t] = new]
    BY Zenon DEF UpdateConfig
  <2> QED BY Zenon, <2>1 DEF TypeOK
<1>3. \A l \in Keys : SameUid(l)' = SameUid(l)
  BY Zenon, <1>1 DEF SameUid
<1>4. WithinLimit'
  BY Zenon, <1>3 DEF LimitOK, WithinLimit
<1>5. ASSUME NEW u \in Threads, NEW l \in Keys, call'[u].save = l
      PROVE  l \in mConfigs' \/ Cardinality(SameUid(l)') < kMaxConfigCountPerUid
  BY Zenon, <1>1, <1>2, <1>3, <1>5 DEF LimitOK
<1> QED BY Zenon, <1>4, <1>5 DEF LimitOK

\* Saving uses the room there was.
LEMMA SaveLimit ==
    ASSUME TypeOK, LimitOK, NEW t \in Threads, Save(t)
    PROVE  LimitOK'
<1>1. mMutex = t /\ t # NoConfig /\ mMutex' = NoConfig
  BY Zenon, ConfigAssumption DEF Save
<1>2. PICK k \in Keys : call[t].save = k
  BY Zenon, <1>1 DEF TypeOK, Calls
<1>3. mConfigs' = mConfigs \cup {k}
  BY Zenon, <1>2 DEF Save
<1>4. ASSUME NEW l \in Keys
      PROVE  Cardinality(SameUid(l)') <= kMaxConfigCountPerUid
  <2>1. /\ Cardinality(SameUid(l)) <= kMaxConfigCountPerUid
        /\ IsFiniteSet(SameUid(l)) /\ Cardinality(SameUid(l)) \in Nat
    BY Zenon, SameUidFinite DEF LimitOK, WithinLimit
  <2>2. CASE k \in mConfigs \/ UidOf[l] # UidOf[k]
    <3>1. SameUid(l)' = SameUid(l)
      BY Zenon, <1>3, <2>2 DEF SameUid
    <3> QED BY Zenon, <2>1, <3>1
  <2>3. CASE k \notin mConfigs /\ UidOf[l] = UidOf[k]
    <3>1. SameUid(l)' = SameUid(l) \cup {k} /\ k \notin SameUid(l) /\ SameUid(l) = SameUid(k)
      BY Zenon, <1>3, <2>3 DEF SameUid
    <3>2. Cardinality(SameUid(l)') = Cardinality(SameUid(l)) + 1
      BY Zenon, <2>1, <3>1, FS_AddElement
    <3>3. Cardinality(SameUid(k)) < kMaxConfigCountPerUid
      BY Zenon, <1>2, <2>3 DEF LimitOK
    <3> QED BY <2>1, <3>1, <3>2, <3>3, ConfigAssumption
  <2> QED BY Zenon, <2>2, <2>3
<1>5. WithinLimit'
  BY Zenon, <1>4 DEF WithinLimit
<1>6. \A u \in Threads : call'[u].save = NoConfig
  <2> DEFINE new == IF call[t].tell = {} THEN Idle ELSE [call[t] EXCEPT !.save = NoConfig]
  <2>1. call' = [call EXCEPT ![t] = new] /\ call[t] \in Calls
    BY Zenon DEF Save, TypeOK
  <2>2. new.save = NoConfig
    BY Zenon, <2>1 DEF Idle, Calls
  <2> HIDE DEF new
  <2> QED BY Zenon, <1>1, <2>1, <2>2 DEF TypeOK
<1> QED BY Zenon, <1>5, <1>6, ConfigAssumption DEF LimitOK
\* The removing calls hold mMutex for one step only.
LEMMA RemoveLimit ==
    ASSUME TypeOK, TypeOK', LimitOK, NEW t, NEW K, NEW F, NEW w, Remove(t, K, F, w)
    PROVE  LimitOK'
<1>1. mConfigs' \subseteq mConfigs /\ mMutex' = NoConfig
  BY Zenon DEF Remove, CanLock
<1>2. \A u \in Threads : call'[u].save = NoConfig
  BY <1>1, ConfigAssumption DEF TypeOK
<1> QED BY Zenon, <1>1, <1>2, ShrinkKeeps, ConfigAssumption

\* Every step keeps the limit.
LEMMA LimitKeeps ==
    ASSUME IInv, IInv', LimitOK, [Next]_vars
    PROVE  LimitOK'
<1>0. TypeOK /\ TypeOK'
  BY Zenon DEF IInv
<1>1. ASSUME NEW t \in Callers, NEW k \in Keys, NEW c \in Contents, addConfiguration(t, k, c)
      PROVE  LimitOK'
  BY Zenon, <1>0, <1>1, UpdateLimit DEF addConfiguration, Threads
<1>2. ASSUME NEW t \in Callers, NEW k \in Keys, RemoveConfig(t, k) PROVE LimitOK'
  BY Zenon, <1>0, <1>2, RemoveLimit DEF RemoveConfig
<1>3. ASSUME NEW t \in Callers, NEW u, RemoveConfigs(t, u) PROVE LimitOK'
  BY Zenon, <1>0, <1>3, RemoveLimit DEF RemoveConfigs
<1>4. ASSUME NEW t \in Callers, RemoveAllConfigs(t) PROVE LimitOK'
  BY Zenon, <1>0, <1>4, RemoveLimit DEF RemoveAllConfigs
<1>5. ASSUME NEW t \in Callers, deleteAllFiles(t) PROVE LimitOK'
  <2>1. mConfigs' = mConfigs /\ mMutex' = mMutex /\ call' = [call EXCEPT ![t] = Idle]
    BY Zenon, <1>5 DEF deleteAllFiles
  <2>2. \A u \in Threads : call'[u].save \in {NoConfig, call[u].save}
    BY <1>0, <2>1 DEF TypeOK, Idle
  <2> QED BY Zenon, <1>0, <2>1, <2>2, ShrinkKeeps, ConfigAssumption
<1>6. ASSUME NEW t \in Threads, Save(t) PROVE LimitOK'
  BY Zenon, <1>0, <1>6, SaveLimit
<1>7. ASSUME NEW t \in Threads, NEW k \in Keys, Tell(t, k) PROVE LimitOK'
  <2>1. /\ mConfigs' = mConfigs /\ mMutex' = mMutex /\ mMutex # t
        /\ \E new : call' = [call EXCEPT ![t] = new]
    BY Zenon, <1>7 DEF Tell
  <2>2. \A u \in Threads : call'[u].save \in {NoConfig, call[u].save}
    BY Zenon, <1>0, <2>1 DEF TypeOK
  <2> QED BY Zenon, <1>0, <2>1, <2>2, ShrinkKeeps, ConfigAssumption
<1>8. ASSUME mConfigs' = mConfigs, call' = call PROVE LimitOK'
  BY Zenon, <1>0, <1>8, ShrinkKeeps
<1>9. ASSUME NEW k \in Keys, StartupUpdate(k) PROVE LimitOK'
  <2>1. CASE UpdateConfig(Main, k, configsFromDisk[k])
    BY Zenon, <1>0, <2>1, UpdateLimit DEF Threads
  <2>2. CASE mConfigs' = mConfigs /\ call' = call
    BY Zenon, <1>8, <2>2
  <2> QED BY Zenon, <1>9, <2>1, <2>2 DEF StartupUpdate
<1>10. CASE Crash
  <2>1. mConfigs' \subseteq mConfigs /\ mMutex' = NoConfig
    BY Zenon, <1>10 DEF Crash
  <2>2. \A u \in Threads : call'[u].save = NoConfig
    BY <1>0, <2>1, ConfigAssumption DEF TypeOK
  <2> QED BY Zenon, <1>0, <2>1, <2>2, ShrinkKeeps, ConfigAssumption
<1>11. CASE Startup \/ \E k \in Keys : resetConfigs(k) \/ trimToFit(k)
  BY Zenon, <1>8, <1>11 DEF Startup, resetConfigs, trimToFit
<1>12. CASE UNCHANGED vars
  BY Zenon, <1>8, <1>12 DEF vars
<1> QED
  BY Zenon, <1>1, <1>2, <1>3, <1>4, <1>5, <1>6, <1>7, <1>9, <1>10, <1>11, <1>12 DEF Next

\* For any keys and any limit, no uid ever has more configs than the limit,
\* whatever calls, restarts and left-over files there are.
THEOREM LimitHolds ==
    ASSUME DistinctNames PROVE Spec => []WithinLimit
<1>1. Init => LimitOK
  <2> SUFFICES ASSUME Init PROVE LimitOK BY Zenon
  <2>1. \A k \in Keys : SameUid(k) = {}
    BY Zenon DEF Init, SameUid
  <2>2. \A t \in Threads : call[t].save = NoConfig
    BY Zenon DEF Init, Idle
  <2>3. Cardinality({}) = 0 /\ kMaxConfigCountPerUid \in Nat \ {0}
    BY Zenon, FS_EmptySet, ConfigAssumption
  <2>4. WithinLimit
    BY <2>1, <2>3 DEF WithinLimit
  <2>5. \A t \in Threads, k \in Keys : call[t].save # k
    BY Zenon, <2>2, ConfigAssumption
  <2> QED BY Zenon, <2>4, <2>5 DEF LimitOK
<1>2. IInv /\ IInv' /\ LimitOK /\ [Next]_vars => LimitOK'
  BY Zenon, LimitKeeps
<1>3. LimitOK => WithinLimit
  BY Zenon DEF LimitOK
<1> QED BY <1>1, <1>2, <1>3, Inductive, PTL DEF Spec
=============================================================================
