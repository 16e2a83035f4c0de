------------------------- MODULE StatsdClientsProofs -------------------------
(***************************************************************************)
(* However often statsd dies, its clients and the statsd that runs end up  *)
(* connected.                                                              *)
(*                                                                         *)
(* The system server: Reconnected, EntriesKnown and UidMapFresh, for every *)
(* number of starts, of clients' calls and of changes of packages, and for *)
(* every list of kinds that has the pullers in it.  The invariant and the  *)
(* steps of the threads that greet are in StatsCompanionProofs.            *)
(*                                                                         *)
(* A native process: NativeKept, for any atoms and any number of threads   *)
(* and starts of statsd.  It speaks of the moment at which nothing is      *)
(* under way.  What is inductive says where the registration of an atom is *)
(* before that: in a thread that has yet to get statsd, in a binderDied    *)
(* that has yet to get it, or, if the running statsd is one whose death is *)
(* watched, on its way to that statsd or there.                            *)
(***************************************************************************)
EXTENDS StatsCompanionProofs

USE SMTT(30), Zenon

-----------------------------------------------------------------------------
(* The steps of the system server that do not greet.                       *)

\* Where nothing changes but the clock and counters the invariant stays.
LEMMA NothingChanges ==
    ASSUME CompanionInv,
           UNCHANGED <<statsd, inbox, toCompanion, published, hi, sStatsd, mStatsd, entries, client, alarm, receivers,
                       linked, died, mBootCompleted, boot, uidThreads, packages, broadcast, mishaps, leaked>>
    PROVE  CompanionInv'
  <1>1. SameConnection
    BY Zenon, SameByUnchanged
  <1>2. CompanionTypeOK' /\ Noticed' /\ ClientOK'
    BY DEF CompanionInv, CompanionTypeOK, Noticed, ClientOK
  <1> QED BY Zenon, <1>1, <1>2, ToldFrame, RestFrame DEF CompanionInv

\* The services start, are called, and are told of a death.
LEMMA CompanionSteps ==
    CompanionInv /\ (Publish \/ systemReady \/ CompanionHandles \/ binderDied \/ DayPasses) => CompanionInv'
  <1>PublishStep. ASSUME CompanionInv, Publish PROVE CompanionInv'
    <2> USE <1>PublishStep
    <2>1. UNCHANGED <<statsd, inbox, toCompanion, companionVars>> /\ published' = TRUE
      BY Zenon DEF Publish
    <2>2. SameConnection
      BY Zenon, <2>1, SameByUnchanged DEF companionVars
    <2>3. CompanionTypeOK' /\ Noticed'
      BY <2>1 DEF CompanionInv, CompanionTypeOK, companionVars, Noticed
    <2> QED BY Zenon, <2>1, <2>2, <2>3, ToldFrame, RestFrame DEF CompanionInv, companionVars
  \* A thread that does not greet begins to look for statsd.
  <1>FetchBegins. ASSUME CompanionTypeOK, NEW t \in DOMAIN hi, ~Greets(t), hi' = [hi EXCEPT ![t] = [at |-> "fetch"]],
                         UNCHANGED <<statsd, sStatsd, mishaps>>
                  PROVE  /\ SameConnection
                         /\ hi' \in [{"main", "binder"} -> {[at |-> "unborn"], Resting, [at |-> "fetch"]} \cup Greetings]
    BY Zenon, <1>FetchBegins DEF CompanionTypeOK, SameConnection, SameGreetings, Greets
  <1>ReadyStep. ASSUME CompanionInv, systemReady PROVE CompanionInv'
    <2> USE <1>ReadyStep
    <2>1. /\ published /\ hi["main"].at = "unborn" /\ hi' = [hi EXCEPT !["main"] = [at |-> "fetch"]]
          /\ "main" \in DOMAIN hi /\ "binder" \in DOMAIN hi /\ ~Greets("main")
      BY Zenon DEF systemReady, CompanionInv, CompanionTypeOK, Greets
    <2>2. /\ SameConnection
          /\ hi' \in [{"main", "binder"} -> {[at |-> "unborn"], Resting, [at |-> "fetch"]} \cup Greetings]
      BY Zenon, <2>1, <1>FetchBegins DEF systemReady, CompanionInv, processVars
    <2>3. CompanionTypeOK'
      BY Zenon, <2>2 DEF systemReady, CompanionInv, CompanionTypeOK, processVars
    <2>4. Noticed'
      BY <2>1 DEF systemReady, CompanionInv, Noticed, processVars
    <2> QED BY Zenon, <2>1, <2>2, <2>3, <2>4, ToldFrame, RestFrame DEF CompanionInv, systemReady, processVars
  \* An alarm or a greeting that statsd asks for.
  <1>CompanionHandlesStep. ASSUME CompanionInv, CompanionHandles PROVE CompanionInv'
    <2> USE <1>CompanionHandlesStep
    <2>1. /\ "main" \in DOMAIN hi /\ "binder" \in DOMAIN hi /\ ~Greets("binder") /\ hi["binder"] = Resting
          /\ UNCHANGED <<statsd, inbox, published, sStatsd, mStatsd, entries, client, receivers, linked,
                     died, mBootCompleted, boot, uidThreads, packages, broadcast, calls, mishaps, world, leaked>>
      BY DEF CompanionHandles, CompanionInv, CompanionTypeOK, Greets, Resting
    <2>0. toCompanion \in Seq(CompanionCalls) /\ toCompanion # <<>> /\ toCompanion' = Tail(toCompanion)
      BY Zenon DEF CompanionHandles, CompanionInv, CompanionTypeOK
    <2>2. PICK call \in CompanionCalls : call = Head(toCompanion) /\ call = toCompanion[1] /\ 1 \in DOMAIN toCompanion
      BY <2>0
    <2>3. /\ toCompanion' \in Seq(CompanionCalls)
          /\ \A i \in DOMAIN toCompanion' : i + 1 \in DOMAIN toCompanion /\ toCompanion'[i] = toCompanion[i + 1]
          /\ \A i \in DOMAIN toCompanion : i = 1 \/ (i - 1 \in DOMAIN toCompanion' /\ toCompanion'[i - 1] = toCompanion[i])
          /\ DOMAIN toCompanion \subseteq Nat /\ DOMAIN toCompanion' \subseteq Nat
      BY <2>0
    <2>4. CASE call.op = "setAlarm"
      <3>1. alarm' = call.by /\ hi' = hi /\ call.by \in Nat
        BY Zenon, <2>2, <2>4 DEF CompanionHandles, CompanionCalls
      <3>2. SameConnection
        BY Zenon, <2>1, <3>1, SameByUnchanged
      <3>3. CompanionTypeOK'
        BY Zenon, <2>1, <2>3, <3>1 DEF CompanionInv, CompanionTypeOK
      <3>4. Noticed'
        <4>1. ASSUME NEW i \in DOMAIN toCompanion, toCompanion[i].op = "statsdReady"
              PROVE  \E j \in DOMAIN toCompanion' : toCompanion'[j].op = "statsdReady"
          <5>1. i # 1
            BY Zenon, <4>1, <2>2, <2>4
          <5> QED BY <4>1, <5>1, <2>3
        <4> QED BY Zenon, <2>1, <4>1, <3>1 DEF CompanionInv, Noticed
      <3>5. ASSUME AlarmComing PROVE AlarmComing'
        <4>1. CASE \E i \in DOMAIN toCompanion : /\ toCompanion[i] = [op |-> "setAlarm", by |-> statsd.n]
                          /\ \A j \in DOMAIN toCompanion : j > i => toCompanion[j].op # "setAlarm"
          <5>1. PICK i \in DOMAIN toCompanion : /\ toCompanion[i] = [op |-> "setAlarm", by |-> statsd.n]
                          /\ \A j \in DOMAIN toCompanion : j > i => toCompanion[j].op # "setAlarm"
            BY Zenon, <4>1
          <5>2. CASE i = 1
            <6>1. alarm' = statsd'.n
              <7>1. call = [op |-> "setAlarm", by |-> statsd.n]
                BY Zenon, <5>1, <5>2, <2>2
              <7> QED BY Zenon, <7>1, <3>1, <2>1
            <6>2. \A j \in DOMAIN toCompanion' : toCompanion'[j].op # "setAlarm"
              BY <5>1, <5>2, <2>3
            <6> QED BY Zenon, <6>1, <6>2 DEF AlarmComing
          <5>3. CASE i # 1
            <6>1. i - 1 \in DOMAIN toCompanion' /\ toCompanion'[i - 1] = [op |-> "setAlarm", by |-> statsd'.n]
              BY Zenon, <5>1, <5>3, <2>1, <2>3
            <6>2. \A j \in DOMAIN toCompanion' : j > i - 1 => toCompanion'[j].op # "setAlarm"
              BY <5>1, <2>3
            <6> QED BY Zenon, <6>1, <6>2 DEF AlarmComing
          <5> QED BY Zenon, <5>2, <5>3
        <4> QED BY Zenon, <3>5, <4>1, <2>2, <2>4 DEF AlarmComing
      <3>6. AlarmKept'
        BY Zenon, <3>1, <3>5, <2>1 DEF CompanionInv, AlarmKept, Greeting
      <3> QED BY Zenon, <2>1, <3>2, <3>3, <3>4, <3>6, ToldFrame, RestFrame DEF CompanionInv
    <2>5. CASE call.op # "setAlarm"
      <3>1. alarm' = alarm /\ hi' = [hi EXCEPT !["binder"] = [at |-> "fetch"]]
        BY Zenon, <2>2, <2>5 DEF CompanionHandles
      <3>2. /\ SameConnection
            /\ hi' \in [{"main", "binder"} -> {[at |-> "unborn"], Resting, [at |-> "fetch"]} \cup Greetings]
        BY Zenon, <2>1, <3>1, <1>FetchBegins DEF CompanionInv
      <3>3. CompanionTypeOK'
        BY Zenon, <2>1, <2>3, <3>1, <3>2 DEF CompanionInv, CompanionTypeOK
      <3>4. Noticed'
        BY Zenon, <2>1, <3>1 DEF CompanionInv, Noticed
      <3>5. ASSUME AlarmComing PROVE AlarmComing'
        <4>1. CASE \E i \in DOMAIN toCompanion : /\ toCompanion[i] = [op |-> "setAlarm", by |-> statsd.n]
                          /\ \A j \in DOMAIN toCompanion : j > i => toCompanion[j].op # "setAlarm"
          <5>1. PICK i \in DOMAIN toCompanion : /\ toCompanion[i] = [op |-> "setAlarm", by |-> statsd.n]
                          /\ \A j \in DOMAIN toCompanion : j > i => toCompanion[j].op # "setAlarm"
            BY Zenon, <4>1
          <5>2. i # 1
            BY <5>1, <2>2, <2>5
          <5>3. i - 1 \in DOMAIN toCompanion' /\ toCompanion'[i - 1] = [op |-> "setAlarm", by |-> statsd'.n]
            BY Zenon, <5>1, <5>2, <2>1, <2>3
          <5>4. \A j \in DOMAIN toCompanion' : j > i - 1 => toCompanion'[j].op # "setAlarm"
            BY <5>1, <2>3
          <5> QED BY Zenon, <5>3, <5>4 DEF AlarmComing
        <4>2. CASE alarm = statsd.n /\ \A i \in DOMAIN toCompanion : toCompanion[i].op # "setAlarm"
          <5>1. \A i \in DOMAIN toCompanion' : toCompanion'[i].op # "setAlarm"
            BY <4>2, <2>3
          <5> QED BY Zenon, <4>2, <5>1, <2>1, <3>1 DEF AlarmComing
        <4> QED BY Zenon, <3>5, <4>1, <4>2 DEF AlarmComing
      <3>6. AlarmKept'
        BY Zenon, <3>2, <3>5, <2>1, ConnectionFrame DEF CompanionInv, AlarmKept
      <3> QED BY Zenon, <2>1, <3>1, <3>2, <3>3, <3>4, <3>6, ToldFrame, RestFrame DEF CompanionInv
    <2> QED BY Zenon, <2>4, <2>5
  \* A death that is noticed: the statsd that runs now is another one.  When
  \* binderDied throws only the receivers are left behind.
  <1>binderDiedStep. ASSUME CompanionInv, binderDied PROVE CompanionInv'
    <2> USE <1>binderDiedStep
    <2>1. PICK s \in died : /\ died' = died \ {s}
             /\ \/ leaked' = leaked \cup {s} /\ UNCHANGED <<receivers, sStatsd, mStatsd>>
                \/ leaked' = leaked /\ receivers' = receivers \ {s} /\ NotReady(s)
             /\ UNCHANGED <<statsd, inbox, toCompanion, published, hi, entries, client, alarm, linked,
                     mBootCompleted, boot, uidThreads, packages, broadcast, calls, mishaps, world>>
      <3>1. PICK s \in died : /\ died' = died \ {s}
               /\ \/ leaked' = leaked \cup {s} /\ UNCHANGED <<receivers, sStatsd, mStatsd>>
                  \/ UNCHANGED leaked /\ receivers' = receivers \ {s} /\ NotReady(s)
               /\ UNCHANGED <<processVars, hi, entries, client, alarm, linked, mBootCompleted, boot, uidThreads,
                              packages, broadcast, calls, mishaps, world>>
        BY Zenon DEF binderDied
      <3>2. UNCHANGED <<statsd, inbox, toCompanion, published>>
        BY Zenon, <3>1 DEF processVars
      <3> QED BY Zenon, <3>1, <3>2
    <2> USE <2>1
    <2>2. s \in Nat /\ ~Alive(s) /\ statsd.n \in Nat /\ (statsd.up => statsd.n # 0 /\ statsd.n # s)
      BY Zenon DEF CompanionInv, CompanionTypeOK, KnownOK, Alive, JavaStatsds
    <2>3. CompanionTypeOK'
      <3>1. receivers' \subseteq receivers /\ sStatsd' \in {sStatsd, 0} /\ mStatsd' \in {mStatsd, 0}
        BY Zenon DEF NotReady
      <3> QED BY <3>1 DEF CompanionInv, CompanionTypeOK
    <2>4. ReceiversOK'
      BY Zenon DEF CompanionInv, ReceiversOK, Alive
    <2>5. TriggerOK' /\ ClientOK'
      BY Zenon DEF CompanionInv, TriggerOK, Posted, ClientOK
    <2>6. CASE sStatsd = s /\ NotReady(s)
      <3>1. sStatsd' = 0 /\ mStatsd' = 0
        BY Zenon, <2>6 DEF NotReady
      <3>2. ~Connected'
        BY Zenon, <2>2, <3>1 DEF Connected
      <3>3. KnownOK'
        BY <2>2, <3>1 DEF CompanionInv, KnownOK, Alive, Greets
      <3>4. OneGreeting'
        BY Zenon, <2>2, <2>6, <3>1 DEF CompanionInv, OneGreeting, Alive, Greets
      <3>5. AlarmKept'
        BY Zenon, <2>2, <2>6 DEF CompanionInv, AlarmKept, AlarmComing, Greeting
      <3>6. Noticed'
        BY Zenon, <2>2, <2>6 DEF CompanionInv, Noticed
      <3> QED BY Zenon, <2>3, <2>4, <2>5, <3>2, <3>3, <3>4, <3>5, <3>6, NotConnected DEF CompanionInv
    <2>7. CASE ~(sStatsd = s /\ NotReady(s))
      <3>1. sStatsd' = sStatsd /\ mStatsd' = mStatsd
        BY Zenon, <2>7 DEF NotReady
      <3>2. SameConnection
        BY Zenon, <3>1, SameByUnchanged
      <3>3. ReceiversTold'
        BY Zenon, <2>2, <3>2, ConnectionFrame DEF CompanionInv, ReceiversTold, Connected
      <3> QED BY Zenon, <2>3, <2>4, <2>5, <3>1, <3>2, <3>3, ToldFrame, RestFrame DEF CompanionInv
    <2> QED BY Zenon, <2>6, <2>7
  \* A day that passes changes only what binderDied compares with.
  <1>DayStep. ASSUME CompanionInv, DayPasses PROVE CompanionInv'
    <2>1. UNCHANGED <<statsd, inbox, toCompanion, published, hi, sStatsd, mStatsd, entries, client, alarm, receivers,
                      linked, died, mBootCompleted, boot, uidThreads, packages, broadcast, mishaps, leaked>>
      BY Zenon, <1>DayStep DEF DayPasses, processVars
    <2> QED BY Zenon, <1>DayStep, <2>1, NothingChanges
  <1> QED BY Zenon, <1>PublishStep, <1>ReadyStep, <1>CompanionHandlesStep, <1>binderDiedStep, <1>DayStep

\* The uid map is as fresh as the last call that carries one.
LEMMA AppendUids ==
    ASSUME CompanionTypeOK, NEW call \in InboxCalls, inbox' = Append(inbox, call)
    PROVE  /\ CarriesUids(call) /\ UpToDate(call)' => UidMapComing'
           /\ UidMapComing /\ ~CarriesUids(call) /\ UNCHANGED <<statsd, uidThreads, packages, broadcast>>
                 => UidMapComing'
  <1>1. CASE CarriesUids(call) /\ UpToDate(call)'
    <2> DEFINE i == Len(inbox) + 1
    <2>1. i \in DOMAIN inbox' /\ inbox'[i] = call
      BY Zenon, AppendedCall
    <2>2. \A j \in DOMAIN inbox' : ~(j > i)
      BY AppendedCall DEF CompanionTypeOK
    <2> HIDE DEF i
    <2> QED BY <1>1, <2>1, <2>2 DEF UidMapComing, UpToDate, CarriesUids
  <1>2. CASE UidMapComing /\ ~CarriesUids(call) /\ UNCHANGED <<statsd, uidThreads, packages, broadcast>>
    <2>1. \A j \in DOMAIN inbox' : CarriesUids(inbox'[j]) => j \in DOMAIN inbox /\ inbox'[j] = inbox[j]
      BY Zenon, <1>2, AppendedCall
    <2>3. CASE \E i \in DOMAIN inbox : /\ CarriesUids(inbox[i]) /\ UpToDate(inbox[i])
                               /\ \A j \in DOMAIN inbox : j > i => ~CarriesUids(inbox[j])
      <3>1. PICK i \in DOMAIN inbox : /\ CarriesUids(inbox[i]) /\ UpToDate(inbox[i])
                               /\ \A j \in DOMAIN inbox : j > i => ~CarriesUids(inbox[j])
        BY Zenon, <2>3
      <3>2. i \in DOMAIN inbox' /\ inbox'[i] = inbox[i]
        BY Zenon, AppendedCall
      <3>3. CarriesUids(inbox[i])' /\ UpToDate(inbox[i])'
        BY Zenon, <3>1, <3>2, <1>2 DEF CarriesUids, UpToDate
      <3>4. \A j \in DOMAIN inbox' : j > i => ~CarriesUids(inbox'[j])
        BY Zenon, <3>1, <2>1
      <3> QED BY Zenon, <3>2, <3>3, <3>4 DEF UidMapComing, CarriesUids, UpToDate
    <2>4. CASE broadcast \/ WillPost
      BY Zenon, <1>2, <2>4 DEF UidMapComing, WillPost
    <2>5. CASE statsd.uidMap = packages /\ \A i \in DOMAIN inbox : ~CarriesUids(inbox[i])
      BY Zenon, <1>2, <2>1, <2>5 DEF UidMapComing, CarriesUids
    <2> QED BY Zenon, <1>2, <2>3, <2>4, <2>5 DEF UidMapComing
  <1> QED BY Zenon, <1>1, <1>2

\* The boot completes and packages change.
LEMMA BootAndPackageSteps ==
    CompanionInv /\ (bootCompleted \/ TellBoot \/ PackageChanges \/ AppUpdate \/ PostUids \/ WriteUids) => CompanionInv'
  \* The flag is set before statsd is looked up.
  <1>bootCompletedStep. ASSUME CompanionInv, bootCompleted PROVE CompanionInv'
    <2> USE <1>bootCompletedStep
    <2>1. /\ mBootCompleted' = TRUE /\ boot' = [at |-> "tell"]
          /\ UNCHANGED <<statsd, inbox, toCompanion, published, hi, sStatsd, mStatsd, entries, client, alarm,
                     receivers, linked, died, uidThreads, packages, broadcast, calls, mishaps, world, leaked>>
      BY Zenon DEF bootCompleted, processVars
    <2> USE <2>1
    <2>2. SameConnection
      BY Zenon, SameByUnchanged
    <2>3. CompanionTypeOK'
      BY Zenon DEF CompanionInv, CompanionTypeOK
    <2>4. BootTold' /\ TriggerOK'
      BY Zenon DEF CompanionInv, BootTold, TriggerOK
    <2> QED BY Zenon, <2>2, <2>3, <2>4, ToldFrame, RestFrame DEF CompanionInv
  \* A package changes: the news of it are under way.
  <1>PackageChangesStep. ASSUME CompanionInv, PackageChanges PROVE CompanionInv'
    <2> USE <1>PackageChangesStep
    <2>1. /\ packages' = packages + 1 /\ broadcast' = TRUE
          /\ UNCHANGED <<statsd, inbox, toCompanion, published, hi, sStatsd, mStatsd, entries, client, alarm,
                     receivers, linked, died, mBootCompleted, boot, uidThreads, calls, mishaps, world, leaked>>
      BY Zenon DEF PackageChanges, processVars
    <2> USE <2>1
    <2>2. SameConnection
      BY Zenon, SameByUnchanged
    <2>3. CompanionTypeOK'
      BY DEF CompanionInv, CompanionTypeOK
    <2>4. UidMapTold'
      BY Zenon DEF UidMapTold, UidMapComing
    <2> QED BY Zenon, <2>2, <2>3, <2>4, ToldFrame, RestFrame DEF CompanionInv
  \* A call that makes or withdraws no registration.
  <1>CallStep. ASSUME CompanionInv, SameConnection, NEW call \in InboxCalls, inbox' = Append(inbox, call),
                      call.op \notin {"register", "unregister"}, call.op = "bootCompleted" => mBootCompleted,
                      UNCHANGED <<statsd, entries, client, mStatsd, mBootCompleted>>
               PROVE  /\ PullersTold' /\ TriggerOK' /\ EntriesTold'
                      /\ call.op = "bootCompleted" \/ UNCHANGED boot => BootTold'
                      /\ call.op = "informAllUidData" \/ UNCHANGED uidThreads => UidsTold'
                      /\ ~CarriesUids(call) /\ UNCHANGED <<uidThreads, packages, broadcast>> => UidMapTold'
    <2> USE <1>CallStep
    <2>1. CompanionTypeOK /\ \A op : Posted(op)' <=> Posted(op) \/ call.op = op
      BY Zenon, AppendPosts DEF CompanionInv
    <2> USE <2>1
    <2>2. Posted("bootCompleted")' => mBootCompleted
      BY Zenon DEF CompanionInv, TriggerOK
    <2>3. ~CarriesUids(call) /\ UNCHANGED <<uidThreads, packages, broadcast>> => UidMapTold'
      BY Zenon, AppendUids, UidMapFrame DEF CompanionInv
    <2>4. \A k \in entries : call # [op |-> "unregister", entry |-> k]
      OBVIOUS
    <2>5. EntriesTold'
      BY Zenon, <2>4, AppendReaches, WillTellUnchanged, EntriesFrame DEF CompanionInv
    <2>6. TriggerOK'
      BY Zenon, <2>2 DEF CompanionInv, TriggerOK
    <2>7. call.op = "bootCompleted" \/ UNCHANGED boot => BootTold'
      BY Zenon, BootFrame DEF CompanionInv, BootTold
    <2>8. call.op = "informAllUidData" \/ UNCHANGED uidThreads => UidsTold'
      BY Zenon, UidsFrame DEF CompanionInv, UidsTold
    <2> QED BY Zenon, <2>3, <2>5, <2>6, <2>7, <2>8, PullersFrame DEF CompanionInv
  \* statsd is told of the boot by this thread, or, if it is greeted later, by
  \* the greeting.
  <1>TellBootStep. ASSUME CompanionInv, TellBoot PROVE CompanionInv'
    <2> USE <1>TellBootStep
    <2>1. /\ boot.at = "tell" /\ boot' = Resting
          /\ inbox' = IF Alive(sStatsd) THEN Append(inbox, [op |-> "bootCompleted"]) ELSE inbox
          /\ UNCHANGED <<statsd, toCompanion, published, hi, sStatsd, mStatsd, entries, client, alarm,
                     receivers, linked, died, mBootCompleted, uidThreads, packages, broadcast, calls, mishaps, world, leaked>>
      BY Zenon DEF TellBoot
    <2> USE <2>1
    <2>2. SameConnection
      BY Zenon, SameByUnchanged
    <2>3. CASE Alive(sStatsd)
      <3> DEFINE call == [op |-> "bootCompleted"]
      <3>1. call \in InboxCalls /\ inbox' = Append(inbox, call) /\ call.op = "bootCompleted"
        BY Zenon, <2>3 DEF InboxCalls
      <3> HIDE DEF call
      <3>2. CompanionTypeOK'
        <4>1. inbox' \in Seq(InboxCalls)
          BY Zenon, <3>1, AppendedCall DEF CompanionInv
        <4> QED BY Zenon, <4>1 DEF CompanionInv, CompanionTypeOK
      <3>3. mBootCompleted
        BY Zenon DEF CompanionInv, CompanionTypeOK
      <3>4. PullersTold' /\ TriggerOK' /\ BootTold' /\ UidsTold' /\ UidMapTold' /\ EntriesTold'
        BY Zenon, <2>2, <3>1, <3>3, <1>CallStep DEF CarriesUids
      <3> QED BY Zenon, <2>2, <3>2, <3>4, RestFrame DEF CompanionInv
    <2>4. CASE ~Alive(sStatsd)
      <3>1. ~Connected'
        BY Zenon, <2>4 DEF Connected, Alive, CompanionInv, CompanionTypeOK
      <3>2. CompanionTypeOK'
        BY Zenon, <2>4 DEF CompanionInv, CompanionTypeOK
      <3> QED BY Zenon, <2>2, <2>4, <3>1, <3>2, NotConnected, ToldFrame, RestFrame DEF CompanionInv
    <2> QED BY Zenon, <2>3, <2>4
  \* The news of a package reach a statsd that is known and has receivers; one
  \* that has none yet will get all packages.
  <1>AppUpdateStep. ASSUME CompanionInv, AppUpdate PROVE CompanionInv'
    <2> USE <1>AppUpdateStep
    <2>1. /\ broadcast' = FALSE
          /\ inbox' = IF receivers # {} /\ Alive(sStatsd)
                      THEN Append(inbox, [op |-> "informOnePackage", packages |-> packages]) ELSE inbox
          /\ UNCHANGED <<statsd, toCompanion, published, hi, sStatsd, mStatsd, entries, client, alarm, receivers,
                     linked, died, mBootCompleted, boot, uidThreads, packages, calls, mishaps, world, leaked>>
      BY Zenon DEF AppUpdate
    <2>2. SameConnection
      BY Zenon, <2>1, SameByUnchanged
    <2>3. CASE receivers # {} /\ Alive(sStatsd)
      <3>1. PICK call \in InboxCalls : /\ inbox' = Append(inbox, call)
                                       /\ call.op = "informOnePackage" /\ call.packages = packages
        <4>1. [op |-> "informOnePackage", packages |-> packages] \in InboxCalls
          BY Zenon DEF CompanionInv, CompanionTypeOK, InboxCalls
        <4> QED BY Zenon, <2>1, <2>3, <4>1
      <3>2. CompanionTypeOK'
        BY Zenon, <2>1, <3>1, AppendedCall DEF CompanionInv, CompanionTypeOK
      <3>3. PullersTold' /\ TriggerOK' /\ BootTold' /\ UidsTold' /\ EntriesTold'
        BY Zenon, <2>1, <2>2, <3>1, <1>CallStep
      <3>4. UidMapTold'
        BY Zenon, <2>1, <3>1, AppendUids DEF CompanionInv, CarriesUids, UpToDate, UidMapTold
      <3> QED BY Zenon, <2>1, <2>2, <3>2, <3>3, <3>4, RestFrame DEF CompanionInv
    <2>4. CASE ~(receivers # {} /\ Alive(sStatsd))
      <3>1. inbox' = inbox
        BY Zenon, <2>1, <2>4
      <3>2. Connected' => Greeting(Places)'
        <4>1. ASSUME Connected' PROVE Greeting(Places)'
          <5>1. Connected /\ Alive(sStatsd)
            BY Zenon, <4>1, <2>2, ConnectionFrame DEF Connected, Alive, CompanionInv, CompanionTypeOK
          <5>2. Greeting(Early \cup {"receivers"})
            BY Zenon, <5>1, <2>4 DEF CompanionInv, ReceiversTold
          <5>3. Greeting(Places)
            BY Zenon, <5>2 DEF Greeting, Places
          <5> QED BY Zenon, <5>3, <2>2, ConnectionFrame
        <4> QED BY Zenon, <4>1
      <3>3. UidMapTold'
        BY Zenon, <3>2 DEF UidMapTold
      <3>4. CompanionTypeOK'
        BY Zenon, <2>1, <3>1 DEF CompanionInv, CompanionTypeOK
      <3> QED BY Zenon, <2>1, <2>2, <3>1, <3>3, <3>4, ToldFrame, RestFrame DEF CompanionInv
    <2> QED BY Zenon, <2>3, <2>4
  \* The thread of informAllUids posts its pipe to the statsd known now.
  <1>PostUidsStep. ASSUME CompanionInv, PostUids PROVE CompanionInv'
    <2> USE <1>PostUidsStep
    <2>1. PICK u \in uidThreads :
          /\ u.at = "post"
          /\ IF Alive(sStatsd)
             THEN /\ inbox' = Append(inbox, [op |-> "informAllUidData", packages |-> None, for |-> u.for])
                  /\ uidThreads' = (uidThreads \ {u}) \cup {[u EXCEPT !.at = "write"]}
             ELSE uidThreads' = uidThreads \ {u} /\ UNCHANGED inbox
          /\ UNCHANGED <<statsd, toCompanion, published, hi, sStatsd, mStatsd, entries, client, alarm,
                     receivers, linked, died, mBootCompleted, boot, packages, broadcast, calls, mishaps, world, leaked>>
      BY Zenon DEF PostUids
    <2>2. SameConnection
      BY Zenon, <2>1, SameByUnchanged
    <2>3. PICK w \in [at : {"post", "write"}, for : Nat, seen : Nat] :
             w = [u EXCEPT !.at = "write"] /\ w.at = "write" /\ w.for = u.for
      <3>1. u \in [at : {"post", "write"}, for : Nat, seen : Nat]
        BY Zenon DEF CompanionInv, CompanionTypeOK
      <3>2. /\ [u EXCEPT !.at = "write"] \in [at : {"post", "write"}, for : Nat, seen : Nat]
            /\ [u EXCEPT !.at = "write"].at = "write" /\ [u EXCEPT !.at = "write"].for = u.for
        BY Zenon, <3>1
      <3> QED BY Zenon, <3>2
    <2>4. CASE Alive(sStatsd)
      <3>1. PICK call \in InboxCalls : /\ inbox' = Append(inbox, call) /\ call.op = "informAllUidData"
                                       /\ call.packages = None /\ call.for = u.for
        <4>1. [op |-> "informAllUidData", packages |-> None, for |-> u.for] \in InboxCalls
          BY Zenon DEF CompanionInv, CompanionTypeOK, InboxCalls
        <4> QED BY Zenon, <2>1, <2>4, <4>1
      <3>2. uidThreads' = (uidThreads \ {u}) \cup {w}
        BY Zenon, <2>1, <2>3, <2>4
      <3>3. CompanionTypeOK'
        BY <2>1, <3>1, <3>2, AppendedCall DEF CompanionInv, CompanionTypeOK
      <3>4. PullersTold' /\ TriggerOK' /\ BootTold' /\ UidsTold' /\ EntriesTold'
        BY Zenon, <2>1, <2>2, <3>1, <1>CallStep
      <3>5. UpToDate(call)'
        BY Zenon, <3>1, <3>2, <2>3 DEF UpToDate
      <3>6. UidMapTold'
        BY Zenon, <3>1, <3>5, AppendUids DEF CompanionInv, CarriesUids, UidMapTold
      <3> QED BY Zenon, <2>1, <2>2, <3>3, <3>4, <3>6, RestFrame DEF CompanionInv
    <2>5. CASE ~Alive(sStatsd)
      <3>1. ~Connected'
        BY Zenon, <2>1, <2>5 DEF Connected, Alive, CompanionInv, CompanionTypeOK
      <3>2. CompanionTypeOK'
        BY Zenon, <2>1, <2>5 DEF CompanionInv, CompanionTypeOK
      <3> QED BY Zenon, <2>1, <2>2, <2>5, <3>1, <3>2, NotConnected, ToldFrame, RestFrame DEF CompanionInv
    <2> QED BY Zenon, <2>4, <2>5
  \* It writes the packages there are when it writes.
  <1>WriteUidsStep. ASSUME CompanionInv, WriteUids PROVE CompanionInv'
    <2> USE <1>WriteUidsStep
    <2>1. PICK u \in uidThreads :
          /\ u.at = "write" /\ uidThreads' = uidThreads \ {u}
          /\ inbox' = [i \in DOMAIN inbox |->
                     IF inbox[i].op = "informAllUidData" /\ inbox[i].for = u.for
                     THEN [inbox[i] EXCEPT !.packages = packages] ELSE inbox[i]]
          /\ UNCHANGED <<statsd, toCompanion, published, hi, sStatsd, mStatsd, entries, client, alarm,
                     receivers, linked, died, mBootCompleted, boot, packages, broadcast, calls, mishaps, world, leaked>>
      BY Zenon DEF WriteUids, PackagesRead
    <2>2. SameConnection
      BY Zenon, <2>1, SameByUnchanged
    <2>3. inbox \in Seq(InboxCalls) /\ packages \in Nat
      BY Zenon DEF CompanionInv, CompanionTypeOK
    <2>4. ASSUME NEW i \in DOMAIN inbox
          PROVE  /\ inbox'[i] \in InboxCalls /\ inbox'[i].op = inbox[i].op
                 /\ inbox[i].op # "informAllUidData" => inbox'[i] = inbox[i]
                 /\ inbox'[i] = inbox[i] \/ (inbox[i].for = u.for /\ inbox'[i].packages = packages)
                 /\ inbox[i].op = "informAllUidData" /\ inbox[i].for = u.for => inbox'[i].packages = packages
      <3>1. inbox[i] \in InboxCalls
        BY <2>3
      <3>2. CASE inbox[i].op = "informAllUidData" /\ inbox[i].for = u.for
        <4>1. inbox'[i] = [inbox[i] EXCEPT !.packages = packages]
          BY Zenon, <2>1, <3>2
        <4>2. inbox[i] \in [op : {"informAllUidData"}, packages : Nat \cup {None}, for : Nat]
          BY Zenon, <3>1, <3>2 DEF InboxCalls
        <4>3. /\ [inbox[i] EXCEPT !.packages = packages]
                    \in [op : {"informAllUidData"}, packages : Nat \cup {None}, for : Nat]
              /\ [inbox[i] EXCEPT !.packages = packages].packages = packages
          BY Zenon, <4>2, <2>3
        <4>4. inbox'[i] \in InboxCalls /\ inbox'[i].op = "informAllUidData" /\ inbox'[i].packages = packages
          BY Zenon, <4>1, <4>3 DEF InboxCalls
        <4> QED BY Zenon, <3>2, <4>4
      <3>3. CASE ~(inbox[i].op = "informAllUidData" /\ inbox[i].for = u.for)
        BY Zenon, <2>1, <3>1, <3>3
      <3> QED BY Zenon, <3>2, <3>3
    <2>5. DOMAIN inbox' = DOMAIN inbox /\ inbox' \in Seq(InboxCalls)
      <3>1. DOMAIN inbox' = DOMAIN inbox
        BY Zenon, <2>1
      <3>2. inbox' \in [1 .. Len(inbox) -> InboxCalls] /\ Len(inbox) \in Nat
        BY <2>1, <2>3, <2>4
      <3> QED BY <3>1, <3>2
    <2>6. CompanionTypeOK'
      BY Zenon, <2>1, <2>5 DEF CompanionInv, CompanionTypeOK
    <2>7. \A op : Posted(op)' <=> Posted(op)
      BY Zenon, <2>4, <2>5 DEF Posted
    <2>8. PullersTold' /\ TriggerOK' /\ BootTold'
      BY Zenon, <2>1, <2>2, <2>7, PullersFrame, TriggerFrame, BootFrame DEF CompanionInv
    <2>9. WillPost <=> WillPost'
      BY Zenon, <2>1 DEF WillPost
    <2>10. UidsTold'
      BY Zenon, <2>1, <2>2, <2>7, <2>9, ConnectionFrame DEF CompanionInv, UidsTold
    <2>11. ASSUME NEW k, Reaches(k) PROVE Reaches(k)'
      <3>1. \A i \in DOMAIN inbox : /\ Withdrawn(i, k)' => Withdrawn(i, k)
                                    /\ inbox[i] = [op |-> "register", entry |-> k] =>
                                          inbox'[i] = [op |-> "register", entry |-> k]
        BY <2>4 DEF Withdrawn
      <3> QED BY Zenon, <3>1, <2>1, <2>5, <2>11 DEF Reaches
    <2>12. EntriesTold'
      BY Zenon, <2>1, <2>2, <2>11, WillTellUnchanged, EntriesFrame DEF CompanionInv
    <2>13. ASSUME UidMapComing PROVE UidMapComing'
      <3>1. CASE \E i \in DOMAIN inbox : /\ CarriesUids(inbox[i]) /\ UpToDate(inbox[i])
                                 /\ \A j \in DOMAIN inbox : j > i => ~CarriesUids(inbox[j])
        <4>1. PICK i \in DOMAIN inbox : /\ CarriesUids(inbox[i]) /\ UpToDate(inbox[i])
                                 /\ \A j \in DOMAIN inbox : j > i => ~CarriesUids(inbox[j])
          BY Zenon, <3>1
        <4>2. i \in DOMAIN inbox' /\ CarriesUids(inbox[i])'
              /\ \A j \in DOMAIN inbox' : j > i => ~CarriesUids(inbox[j])'
          BY Zenon, <4>1, <2>4, <2>5 DEF CarriesUids
        <4>3. UpToDate(inbox[i])'
          <5>1. CASE inbox[i].packages = packages
            BY Zenon, <5>1, <2>1, <2>4 DEF UpToDate
          <5>2. CASE /\ inbox[i].op = "informAllUidData" /\ inbox[i].packages = None
                     /\ \E w \in uidThreads : w.at = "write" /\ w.for = inbox[i].for
            <6>1. PICK w \in uidThreads : w.at = "write" /\ w.for = inbox[i].for
              BY Zenon, <5>2
            <6>2. CASE w = u
              BY Zenon, <5>2, <6>1, <6>2, <2>1, <2>4 DEF UpToDate
            <6>3. CASE w # u
              BY Zenon, <5>2, <6>1, <6>3, <2>1, <2>4 DEF UpToDate
            <6> QED BY Zenon, <6>2, <6>3
          <5> QED BY Zenon, <4>1, <5>1, <5>2 DEF UpToDate
        <4> QED BY Zenon, <4>2, <4>3 DEF UidMapComing
      <3>2. CASE broadcast \/ WillPost
        BY Zenon, <3>2, <2>1, <2>9 DEF UidMapComing
      <3>3. CASE statsd.uidMap = packages /\ \A i \in DOMAIN inbox : ~CarriesUids(inbox[i])
        BY Zenon, <3>3, <2>1, <2>4, <2>5 DEF UidMapComing, CarriesUids
      <3> QED BY Zenon, <2>13, <3>1, <3>2, <3>3 DEF UidMapComing
    <2>14. UidMapTold'
      BY Zenon, <2>2, <2>13, UidMapFrame DEF CompanionInv
    <2> QED BY Zenon, <2>1, <2>2, <2>6, <2>8, <2>10, <2>12, <2>14, RestFrame DEF CompanionInv
  <1> QED BY Zenon, <1>bootCompletedStep, <1>TellBootStep, <1>PackageChangesStep,
              <1>AppUpdateStep, <1>PostUidsStep, <1>WriteUidsStep

\* Clients register and unregister.
LEMMA ClientSteps ==
    CompanionInv /\ (ClientCalls \/ ClientCaches \/ ClientReadsStatsd \/ ClientTells) => CompanionInv'
  <1>ClientCallsStep. ASSUME CompanionInv, ClientCalls PROVE CompanionInv'
    <2> USE <1>ClientCallsStep
    <2>1. /\ client = Resting
          /\ UNCHANGED <<statsd, inbox, toCompanion, published, hi, sStatsd, mStatsd, entries, alarm,
                     receivers, linked, died, mBootCompleted, boot, uidThreads, packages, broadcast, mishaps, world, leaked>>
      BY Zenon DEF ClientCalls, processVars
    <2> USE <2>1
    <2>2. PICK i \in DOMAIN Kinds, op \in {"register", "unregister"} :
             client' = [at |-> "cache", op |-> op, kind |-> Kinds[i], statsd |-> mStatsd]
      BY Zenon DEF ClientCalls
    <2>3. SameConnection
      BY Zenon, SameByUnchanged
    <2>4. client' \in ClientCall /\ client'.at = "cache" /\ client.at = "idle"
      BY Zenon, <2>2 DEF CompanionInv, CompanionTypeOK, ClientCall, KindSet, Resting
    <2>5. CompanionTypeOK' /\ ClientOK'
      BY Zenon, <2>4 DEF CompanionInv, CompanionTypeOK, ClientOK
    <2>6. \A k : ~WillTell(k)
      BY Zenon, <2>4 DEF WillTell
    <2>7. EntriesTold'
      BY Zenon, <2>3, <2>6, EntriesFrame, ReachesUnchanged DEF CompanionInv
    <2> QED BY Zenon, <2>3, <2>5, <2>7, ToldFrame, RestFrame DEF CompanionInv
  \* What a client has registered it will tell to the statsd the manager
  \* knows; if there is none yet, the greeting will find it among the entries.
  <1>ClientCachesStep. ASSUME CompanionInv, ClientCaches PROVE CompanionInv'
    <2> USE <1>ClientCachesStep
    <2>1. /\ client.at = "cache" /\ client' = [client EXCEPT !.at = "read"]
          /\ entries' = IF client.op = "register" THEN entries \cup {client.kind} ELSE entries \ {client.kind}
          /\ UNCHANGED <<statsd, inbox, toCompanion, published, hi, sStatsd, mStatsd, alarm,
                     receivers, linked, died, mBootCompleted, boot, uidThreads, packages, broadcast, calls,
                     mishaps, world, leaked>>
      BY Zenon DEF ClientCaches, processVars
    <2> USE <2>1
    <2>2. client \in ClientCall
      BY DEF CompanionInv, CompanionTypeOK, Resting
    <2>3. /\ client' \in ClientCall /\ client'.at = "read" /\ client'.op = client.op /\ client'.kind = client.kind
          /\ client.op \in {"register", "unregister"} /\ client.kind \in KindSet
      BY Zenon, <2>2 DEF ClientCall
    <2>4. SameConnection
      BY Zenon, SameByUnchanged
    <2>5. entries \in SUBSET KindSet /\ entries' \in SUBSET KindSet
      BY Zenon, <2>3 DEF CompanionInv, CompanionTypeOK
    <2>6. CompanionTypeOK' /\ ClientOK'
      BY <2>3, <2>5 DEF CompanionInv, CompanionTypeOK, ClientOK
    <2>7. EntriesTold'
      <3> SUFFICES ASSUME Connected', ~Greeting({"cancel", "ready"})', NEW k \in entries'
                   PROVE  WillSend(k)' \/ WillTell(k)' \/ Reaches(k)'
        BY Zenon DEF EntriesTold
      <3>1. Connected /\ ~Greeting({"cancel", "ready"})
        BY Zenon, <2>4, ConnectionFrame
      <3>2. CASE k \in entries
        <4>1. ~WillTell(k)
          BY Zenon DEF WillTell
        <4>2. WillSend(k) \/ Reaches(k)
          BY Zenon, <3>1, <3>2, <4>1 DEF CompanionInv, EntriesTold
        <4> QED BY Zenon, <4>2, <2>4, WillSendFrame, ReachesUnchanged
      <3>3. CASE k \notin entries
        <4>1. client.op = "register" /\ k = client.kind
          BY Zenon, <3>3
        <4>2. mStatsd' = statsd'.n
          BY Zenon, <3>1 DEF CompanionInv, ManagerConnected
        <4> QED BY Zenon, <4>1, <4>2, <2>3 DEF WillTell
      <3> QED BY Zenon, <3>2, <3>3
    <2> QED BY Zenon, <2>4, <2>6, <2>7, ToldFrame, RestFrame DEF CompanionInv
  <1>ClientReadsStep. ASSUME CompanionInv, ClientReadsStatsd PROVE CompanionInv'
    <2> USE <1>ClientReadsStep
    <2>1. /\ client.at = "read" /\ client' = [client EXCEPT !.at = "tell", !.statsd = mStatsd]
          /\ UNCHANGED <<statsd, inbox, toCompanion, published, hi, sStatsd, mStatsd, entries, alarm,
                     receivers, linked, died, mBootCompleted, boot, uidThreads, packages, broadcast, calls,
                     mishaps, world, leaked>>
      BY Zenon DEF ClientReadsStatsd, ClientReads, processVars
    <2> USE <2>1
    <2>2. client \in ClientCall
      BY DEF CompanionInv, CompanionTypeOK, Resting
    <2>3. /\ client' \in ClientCall /\ client'.at = "tell" /\ client'.op = client.op /\ client'.kind = client.kind
          /\ client'.statsd = mStatsd
      BY Zenon, <2>2 DEF CompanionInv, CompanionTypeOK, ClientCall
    <2>4. SameConnection
      BY Zenon, SameByUnchanged
    <2>5. CompanionTypeOK' /\ ClientOK'
      BY <2>3 DEF CompanionInv, CompanionTypeOK, ClientOK
    <2>6. ASSUME NEW k, WillTell(k) PROVE WillTell(k)'
      BY Zenon, <2>3, <2>6 DEF WillTell
    <2>7. EntriesTold'
      BY Zenon, <2>4, <2>6, EntriesFrame, ReachesUnchanged DEF CompanionInv
    <2> QED BY Zenon, <2>4, <2>5, <2>7, ToldFrame, RestFrame DEF CompanionInv
  <1>RegisterCallStep. ASSUME CompanionInv, SameConnection, NEW call \in InboxCalls, inbox' = Append(inbox, call),
                              call.op \in {"register", "unregister"},
                              UNCHANGED <<statsd, mBootCompleted, boot, uidThreads, packages, broadcast>>
                       PROVE  PullersTold' /\ TriggerOK' /\ BootTold' /\ UidsTold' /\ UidMapTold'
    <2> USE <1>RegisterCallStep
    <2>1. CompanionTypeOK /\ \A op : Posted(op)' <=> Posted(op) \/ call.op = op
      BY Zenon, AppendPosts DEF CompanionInv
    <2>2. UidMapTold'
      BY Zenon, <2>1, AppendUids, UidMapFrame DEF CompanionInv, CarriesUids
    <2> QED BY Zenon, <2>1, <2>2, PullersFrame, TriggerFrame, BootFrame, UidsFrame DEF CompanionInv
  \* A client tells the statsd it has read; what it unregisters is no entry.
  <1>ClientTellsStep. ASSUME CompanionInv, ClientTells PROVE CompanionInv'
    <2> USE <1>ClientTellsStep
    <2>1. /\ client.at = "tell" /\ client' = Resting
          /\ UNCHANGED <<toCompanion, published, hi, sStatsd, mStatsd, entries, alarm, receivers, linked,
                     died, mBootCompleted, boot, uidThreads, packages, broadcast, calls, mishaps, world, leaked>>
      BY Zenon DEF ClientTells
    <2> USE <2>1
    <2>2. /\ client \in ClientCall /\ client.op \in {"register", "unregister"} /\ client.kind \in KindSet
          /\ client.op = "unregister" => client.kind \notin entries
      BY DEF CompanionInv, CompanionTypeOK, Resting, ClientOK, ClientCall
    <2>3. ClientOK'
      BY Zenon DEF ClientOK, Resting
    <2>4. CASE ~Alive(client.statsd)
      <3>1. UNCHANGED <<statsd, inbox>>
        BY Zenon, <2>4 DEF ClientTells
      <3> USE <3>1
      <3>2. SameConnection
        BY Zenon, SameByUnchanged
      <3>3. CompanionTypeOK'
        BY Zenon DEF CompanionInv, CompanionTypeOK
      <3>4. EntriesTold'
        <4>1. Connected => \A k \in entries : ~WillTell(k)
          BY Zenon, <2>4 DEF Connected, WillTell, Alive, CompanionInv, CompanionTypeOK
        <4>2. CASE Connected
          BY Zenon, <3>2, <4>1, <4>2, EntriesFrame, ReachesUnchanged DEF CompanionInv
        <4>3. CASE ~Connected
          BY Zenon, <3>2, <4>3, ConnectionFrame, NotConnected
        <4> QED BY Zenon, <4>2, <4>3
      <3> QED BY Zenon, <2>3, <3>2, <3>3, <3>4, ToldFrame, RestFrame DEF CompanionInv
    <2>5. CASE Alive(client.statsd) /\ client.kind = "puller"
      <3>1. UNCHANGED statsd /\ inbox' = Append(inbox, [op |-> client.op, entry |-> client.kind])
        BY Zenon, <2>5 DEF ClientTells, Tell, OneWay
      <3>2. PICK call \in InboxCalls : /\ inbox' = Append(inbox, call) /\ call.op = client.op
                                       /\ call = [op |-> client.op, entry |-> client.kind]
        <4>1. [op |-> client.op, entry |-> client.kind] \in InboxCalls
          BY Zenon, <2>2, <2>5 DEF InboxCalls
        <4> QED BY Zenon, <3>1, <4>1
      <3>3. SameConnection /\ UNCHANGED statsd
        BY Zenon, <3>1, SameByUnchanged
      <3>4. CompanionTypeOK'
        <4>1. inbox' \in Seq(InboxCalls)
          BY Zenon, <3>2, AppendedCall DEF CompanionInv
        <4> QED BY Zenon, <3>3, <4>1 DEF CompanionInv, CompanionTypeOK
      <3>5. ASSUME NEW k \in entries, WillTell(k) \/ Reaches(k) PROVE Reaches(k)'
        <4>1. CASE WillTell(k)
          <5>1. call = [op |-> "register", entry |-> k]
            BY Zenon, <3>2, <4>1 DEF WillTell
          <5> QED BY Zenon, <3>2, <3>3, <5>1, AppendReaches DEF CompanionInv
        <4>2. CASE Reaches(k)
          <5>1. call # [op |-> "unregister", entry |-> k]
            BY Zenon, <2>2, <3>2
          <5> QED BY Zenon, <3>2, <3>3, <4>2, <5>1, AppendReaches DEF CompanionInv
        <4> QED BY Zenon, <3>5, <4>1, <4>2
      <3>6. EntriesTold'
        BY Zenon, <3>3, <3>5, EntriesFrame DEF CompanionInv
      <3>7. PullersTold' /\ TriggerOK' /\ BootTold' /\ UidsTold' /\ UidMapTold'
        BY Zenon, <2>2, <3>2, <3>3, <1>RegisterCallStep
      <3> QED BY Zenon, <2>3, <3>3, <3>4, <3>6, <3>7, RestFrame DEF CompanionInv
    <2>6. CASE Alive(client.statsd) /\ client.kind # "puller"
      <3>1. PICK k \in KindSet, op \in {"register", "unregister"} :
               /\ k = client.kind /\ op = client.op
               /\ UNCHANGED inbox /\ statsd' = Handled(statsd, [op |-> op, entry |-> k])
        BY Zenon, <2>2, <2>6 DEF ClientTells, Tell, OneWay
      <3>2. /\ UNCHANGED inbox
            /\ statsd' \in JavaStatsds /\ (statsd'.up => statsd'.n # 0)
            /\ statsd'.n = statsd.n /\ statsd'.up = statsd.up /\ statsd'.greet = statsd.greet
            /\ statsd'.companion = statsd.companion /\ statsd'.armed = statsd.armed
            /\ statsd'.remaining = statsd.remaining /\ statsd'.inits = statsd.inits
            /\ statsd'.uidMap = statsd.uidMap
            /\ op = "register" => Reaches(k)'
            /\ \A j : Reaches(j) /\ (op = "unregister" => j # k) => Reaches(j)'
        BY Zenon, <2>6, <3>1, RegisteredAtOnce
      <3> USE <3>2
      <3>3. SameConnection
        BY Zenon DEF SameConnection, SameGreetings, Greets
      <3> USE <3>3
      <3>4. CompanionTypeOK'
        BY Zenon DEF CompanionInv, CompanionTypeOK
      <3>5. ASSUME NEW j \in entries, WillTell(j) \/ Reaches(j) PROVE Reaches(j)'
        <4>1. (op = "register" /\ k = j) \/ Reaches(j)
          BY Zenon, <3>1, <3>5 DEF WillTell
        <4>2. op = "unregister" => j # k
          BY Zenon, <2>2, <3>1
        <4> QED BY Zenon, <4>1, <4>2
      <3>6. EntriesTold'
        BY Zenon, <3>5, EntriesFrame DEF CompanionInv
      <3>7. \A o : Posted(o)' <=> Posted(o)
        BY Zenon DEF Posted
      <3>8. UidMapTold'
        BY Zenon, UidMapFrame, UidMapUnchanged DEF CompanionInv
      <3>9. PullersTold' /\ TriggerOK' /\ BootTold' /\ UidsTold'
        BY Zenon, <3>7, PullersFrame, TriggerFrame, BootFrame, UidsFrame DEF CompanionInv
      <3> QED BY Zenon, <2>3, <3>4, <3>6, <3>8, <3>9, RestFrame DEF CompanionInv
    <2> QED BY Zenon, <2>4, <2>5, <2>6
  <1> QED BY Zenon, <1>ClientCallsStep, <1>ClientCachesStep, <1>ClientReadsStep, <1>ClientTellsStep

-----------------------------------------------------------------------------
(* The steps of statsd.                                                    *)

\* The signal that a call gives to the init trigger.
SignalOf(call) == CASE call.op = "allPullersFromBootRegistered" -> "PULLERS_REGISTERED"
                    [] call.op = "bootCompleted" -> "BOOT_COMPLETE"
                    [] call.op = "informAllUidData" -> "UID_MAP"
                    [] OTHER -> "none"

\* What handling a call does to statsd.
Handling(s, call, r) ==
    /\ r \in JavaStatsds
    /\ r.n = s.n /\ r.up = s.up /\ r.greet = s.greet /\ r.companion = s.companion
    /\ r.armed = s.armed
    /\ r.remaining = s.remaining \ {SignalOf(call)}
    /\ r.inits = IF r.remaining = {} THEN 1 ELSE 0
    /\ r.uidMap = IF CarriesUids(call) THEN call.packages ELSE s.uidMap
    /\ r.regs = IF call.op = "register" THEN s.regs \cup {call.entry}
                ELSE IF call.op = "unregister" THEN s.regs \ {call.entry} ELSE s.regs

\* A statsd that dies is not connected, and whoever watches it will be told.
LEMMA DiesStep ==
    ASSUME CompanionInv, StatsdDies PROVE CompanionInv'
  <1>1. /\ statsd.up /\ died' = died \cup ({statsd.n} \cap linked)
        /\ UNCHANGED <<toCompanion, published, hi, sStatsd, mStatsd, entries, client, alarm, receivers,
                   linked, mBootCompleted, boot, uidThreads, packages, broadcast, calls, mishaps, world, leaked>>
    BY Zenon DEF StatsdDies
  <1>2. /\ statsd' \in JavaStatsds /\ ~statsd'.up /\ statsd'.n = statsd.n /\ statsd.n \in Nat
        /\ statsd'.remaining = statsd.remaining /\ statsd'.inits = statsd.inits
        /\ inbox' \in Seq(InboxCalls) /\ ~Posted("bootCompleted")'
    <2>1. statsd \in JavaStatsds /\ statsd' = [statsd EXCEPT !.up = FALSE] /\ inbox' = <<>>
      BY Zenon DEF StatsdDies, CompanionInv, CompanionTypeOK
    <2>2. inbox' \in Seq(InboxCalls) /\ ~Posted("bootCompleted")'
      BY <2>1 DEF Posted
    <2> QED BY Zenon, <2>1, <2>2 DEF JavaStatsds
  <1> USE <1>1, <1>2
  <1>3. CompanionTypeOK'
    BY Zenon DEF CompanionInv, CompanionTypeOK
  <1>4. KnownOK'
    BY DEF CompanionInv, KnownOK, Alive, Greets
  <1>5. OneGreeting'
    BY Zenon DEF CompanionInv, OneGreeting, Alive, Greets
  <1>6. AlarmKept' /\ Noticed'
    BY Zenon DEF CompanionInv, AlarmKept, Noticed
  <1>7. ReceiversOK'
    BY Zenon DEF CompanionInv, ReceiversOK, Alive
  <1>8. TriggerOK' /\ ClientOK'
    BY Zenon DEF CompanionInv, TriggerOK, ClientOK
  <1>9. ~Connected'
    BY Zenon DEF Connected
  <1> QED BY Zenon, <1>3, <1>4, <1>5, <1>6, <1>7, <1>8, <1>9, NotConnected DEF CompanionInv

\* statsd starts, announces itself, sets its alarm and handles calls.
LEMMA StatsdSteps ==
    /\ CompanionInv /\ UNCHANGED companionVars
    /\ StatsdStarts \/ sayHiToStatsCompanion \/ StatsdSetsAlarm \/ StatsdHandles
    => CompanionInv'
  \* A statsd that starts is unknown.
  <1>StartsStep. ASSUME CompanionInv, StatsdStarts, UNCHANGED companionVars PROVE CompanionInv'
    <2> USE <1>StartsStep
    <2>1. /\ ~statsd.up /\ statsd.n \in Nat
          /\ UNCHANGED <<inbox, toCompanion, published, hi, sStatsd, mStatsd, entries, client, alarm, receivers, linked,
                     died, mBootCompleted, boot, uidThreads, packages, broadcast, calls, mishaps, world, leaked>>
      BY Zenon DEF StatsdStarts, CompanionInv, CompanionTypeOK, JavaStatsds, companionVars
    <2>2. /\ statsd' \in JavaStatsds /\ statsd'.up /\ statsd'.n = statsd.n + 1 /\ statsd'.greet
          /\ ~statsd'.companion /\ ~statsd'.armed /\ statsd'.remaining = Signals /\ statsd'.inits = 0
      <3>1. statsd' = Started(statsd.n + 1)
        BY Zenon DEF StatsdStarts
      <3> QED BY <2>1, <3>1 DEF Started, JavaStatsds
    <2> USE <2>1, <2>2
    <2>3. CompanionTypeOK'
      BY DEF CompanionInv, CompanionTypeOK
    <2>4. KnownOK'
      <3>1. sStatsd' <= statsd'.n /\ \A s \in died' : s <= statsd'.n /\ ~Alive(s)'
        BY DEF CompanionInv, CompanionTypeOK, KnownOK, Alive
      <3>2. ASSUME NEW t \in DOMAIN hi, Greets(t) PROVE hi[t].statsd <= statsd'.n
        <4>1. hi[t].statsd \in Nat
          <5>1. hi[t] \in Greetings
            BY <3>2 DEF CompanionInv, CompanionTypeOK, Greets, Resting
          <5> QED BY Zenon, <5>1 DEF Greetings
        <4> QED BY <3>2, <4>1 DEF CompanionInv, KnownOK
      <3> QED BY Zenon, <3>1, <3>2 DEF CompanionInv, KnownOK, Greets
    <2>5. OneGreeting'
      BY DEF CompanionInv, KnownOK, OneGreeting, Alive, Greets
    <2>6. AlarmKept' /\ Noticed'
      BY Zenon DEF CompanionInv, AlarmKept, Noticed
    <2>7. ReceiversOK'
      BY Zenon DEF CompanionInv, ReceiversOK, Alive
    <2>8. TriggerOK' /\ ClientOK'
      BY Zenon DEF CompanionInv, TriggerOK, ClientOK, Posted, Signals
    <2>9. ~Connected'
      BY DEF CompanionInv, CompanionTypeOK, KnownOK, Connected
    <2> QED BY Zenon, <2>3, <2>4, <2>5, <2>6, <2>7, <2>8, <2>9, NotConnected DEF CompanionInv
  \* A statsd announces itself: to a companion that is there, or to one whose
  \* systemReady is still to come.
  <1>SayHiStep. ASSUME CompanionInv, sayHiToStatsCompanion, UNCHANGED companionVars PROVE CompanionInv'
    <2> USE <1>SayHiStep
    <2>1. /\ statsd \in JavaStatsds /\ statsd' = [statsd EXCEPT !.greet = FALSE]
          /\ toCompanion \in Seq(CompanionCalls)
          /\ toCompanion' = IF published THEN Append(toCompanion, [op |-> "statsdReady"]) ELSE toCompanion
          /\ UNCHANGED <<inbox, published, companionVars>>
      BY Zenon DEF sayHiToStatsCompanion, CompanionInv, CompanionTypeOK
    <2> USE <2>1
    <2>2. /\ statsd' \in JavaStatsds /\ statsd'.n = statsd.n /\ statsd'.up = statsd.up
          /\ statsd'.companion = statsd.companion /\ statsd'.armed = statsd.armed
          /\ statsd'.remaining = statsd.remaining /\ statsd'.inits = statsd.inits
          /\ statsd'.uidMap = statsd.uidMap /\ statsd'.regs = statsd.regs
      BY Zenon DEF JavaStatsds
    <2>3. SameConnection
      BY Zenon, <2>2 DEF SameConnection, SameGreetings, Greets, companionVars
    <2>4. /\ toCompanion' \in Seq(CompanionCalls)
          /\ \A i \in DOMAIN toCompanion : i \in DOMAIN toCompanion' /\ toCompanion'[i] = toCompanion[i]
          /\ \A i \in DOMAIN toCompanion' : i \in DOMAIN toCompanion \/ toCompanion'[i].op = "statsdReady"
          /\ published => \E i \in DOMAIN toCompanion' : toCompanion'[i].op = "statsdReady"
      <3>1. CASE published
        <4>1. toCompanion' = Append(toCompanion, [op |-> "statsdReady"])
          BY Zenon, <3>1
        <4>2. [op |-> "statsdReady"] \in CompanionCalls
          BY Zenon DEF CompanionCalls
        <4>3. /\ toCompanion' \in Seq(CompanionCalls)
              /\ \A i \in DOMAIN toCompanion : i \in DOMAIN toCompanion' /\ toCompanion'[i] = toCompanion[i]
              /\ \A i \in DOMAIN toCompanion' : i \in DOMAIN toCompanion \/ i = Len(toCompanion) + 1
              /\ Len(toCompanion) + 1 \in DOMAIN toCompanion'
              /\ toCompanion'[Len(toCompanion) + 1] = [op |-> "statsdReady"]
          BY <4>1, <4>2
        <4>4. toCompanion'[Len(toCompanion) + 1].op = "statsdReady"
          BY <4>3
        <4> QED BY Zenon, <4>3, <4>4
      <3>2. CASE ~published
        BY Zenon, <3>2
      <3> QED BY Zenon, <3>1, <3>2
    <2>5. CompanionTypeOK'
      BY <2>2, <2>4 DEF CompanionInv, CompanionTypeOK, companionVars
    <2>6. Noticed'
      BY Zenon, <2>4 DEF CompanionInv, Noticed, companionVars
    <2>7. ASSUME AlarmComing PROVE AlarmComing'
      <3>1. CASE alarm = statsd.n /\ \A i \in DOMAIN toCompanion : toCompanion[i].op # "setAlarm"
        BY <3>1, <2>2, <2>4 DEF AlarmComing, companionVars
      <3>2. CASE \E i \in DOMAIN toCompanion : /\ toCompanion[i] = [op |-> "setAlarm", by |-> statsd.n]
                          /\ \A j \in DOMAIN toCompanion : j > i => toCompanion[j].op # "setAlarm"
        <4>1. PICK i \in DOMAIN toCompanion : /\ toCompanion[i] = [op |-> "setAlarm", by |-> statsd.n]
                          /\ \A j \in DOMAIN toCompanion : j > i => toCompanion[j].op # "setAlarm"
          BY Zenon, <3>2
        <4>2. i \in DOMAIN toCompanion' /\ toCompanion'[i] = [op |-> "setAlarm", by |-> statsd'.n]
          BY Zenon, <4>1, <2>2, <2>4
        <4>3. \A j \in DOMAIN toCompanion' : j > i => toCompanion'[j].op # "setAlarm"
          BY <4>1, <2>4
        <4> QED BY Zenon, <4>2, <4>3 DEF AlarmComing
      <3> QED BY Zenon, <2>7, <3>1, <3>2 DEF AlarmComing
    <2>8. AlarmKept'
      BY Zenon, <2>2, <2>3, <2>7, ConnectionFrame DEF CompanionInv, AlarmKept, companionVars
    <2>9. \A op : Posted(op)' <=> Posted(op)
      BY Zenon DEF Posted
    <2>10. UidMapTold' /\ EntriesTold'
      BY Zenon, <2>2, <2>3, UidMapFrame, UidMapUnchanged, EntriesFrame, ReachesUnchanged, WillTellUnchanged
         DEF CompanionInv, companionVars
    <2>11. PullersTold' /\ TriggerOK' /\ BootTold' /\ UidsTold' /\ CompanionTold'
      BY Zenon, <2>2, <2>3, <2>9, PullersFrame, TriggerFrame, BootFrame, UidsFrame, RestFrame
         DEF CompanionInv, companionVars
    <2>12. KnownOK' /\ OneGreeting' /\ ReceiversOK' /\ ClientOK' /\ ManagerConnected' /\ ReceiversTold'
      BY Zenon, <2>3, RestFrame DEF CompanionInv, companionVars
    <2> QED BY Zenon, <2>5, <2>6, <2>8, <2>10, <2>11, <2>12 DEF CompanionInv
  \* The alarm that statsd sets is the last one on its way.
  <1>SetsAlarmStep. ASSUME CompanionInv, StatsdSetsAlarm, UNCHANGED companionVars PROVE CompanionInv'
    <2> USE <1>SetsAlarmStep
    <2> DEFINE call == [op |-> "setAlarm", by |-> statsd.n]
               last == Len(toCompanion) + 1
    <2>1. /\ statsd \in JavaStatsds /\ statsd.companion /\ statsd' = [statsd EXCEPT !.armed = TRUE]
          /\ toCompanion \in Seq(CompanionCalls) /\ toCompanion' = Append(toCompanion, call)
          /\ UNCHANGED <<inbox, published, companionVars>>
      BY Zenon DEF StatsdSetsAlarm, CompanionInv, CompanionTypeOK
    <2> USE <2>1
    <2>2. /\ statsd' \in JavaStatsds /\ statsd'.n = statsd.n /\ statsd'.up = statsd.up
          /\ statsd'.companion = statsd.companion /\ statsd'.greet = statsd.greet
          /\ statsd'.remaining = statsd.remaining /\ statsd'.inits = statsd.inits
          /\ statsd'.uidMap = statsd.uidMap /\ statsd'.regs = statsd.regs /\ statsd.n \in Nat
      BY Zenon DEF JavaStatsds
    <2> USE <2>2
    <2>3. SameConnection
      BY Zenon DEF SameConnection, SameGreetings, Greets, companionVars
    <2>4. call \in CompanionCalls
      BY Zenon DEF CompanionCalls
    <2> HIDE DEF call
    <2>5. /\ toCompanion' \in Seq(CompanionCalls)
          /\ \A i \in DOMAIN toCompanion : i \in DOMAIN toCompanion' /\ toCompanion'[i] = toCompanion[i]
          /\ \A j \in DOMAIN toCompanion' : ~(j > last)
          /\ last \in DOMAIN toCompanion' /\ toCompanion'[last] = call
      BY <2>4
    <2> HIDE DEF last
    <2>6. CompanionTypeOK'
      BY <2>5 DEF CompanionInv, CompanionTypeOK, companionVars
    <2>7. Noticed'
      BY <2>5 DEF CompanionInv, Noticed, companionVars
    <2>8. AlarmComing'
      BY <2>5 DEF AlarmComing, call
    <2>9. AlarmKept'
      BY Zenon, <2>3, <2>8, ConnectionFrame DEF CompanionInv, AlarmKept, companionVars
    <2>10. \A op : Posted(op)' <=> Posted(op)
      BY Zenon DEF Posted
    <2>11. UidMapTold' /\ EntriesTold'
      BY Zenon, <2>3, UidMapFrame, UidMapUnchanged, EntriesFrame, ReachesUnchanged, WillTellUnchanged
         DEF CompanionInv, companionVars
    <2>12. PullersTold' /\ TriggerOK' /\ BootTold' /\ UidsTold' /\ CompanionTold'
      BY Zenon, <2>3, <2>10, PullersFrame, TriggerFrame, BootFrame, UidsFrame, RestFrame
         DEF CompanionInv, companionVars
    <2>13. KnownOK' /\ OneGreeting' /\ ReceiversOK' /\ ClientOK' /\ ManagerConnected' /\ ReceiversTold'
      BY Zenon, <2>3, RestFrame DEF CompanionInv, companionVars
    <2> QED BY Zenon, <2>6, <2>7, <2>9, <2>11, <2>12, <2>13 DEF CompanionInv
  \* The trigger runs when the last signal has come, and not again.
  <1>MarkedComplete. ASSUME NEW s \in JavaStatsds, NEW signal, s.inits = IF s.remaining = {} THEN 1 ELSE 0
                     PROVE  /\ markComplete(s, signal) \in JavaStatsds
                            /\ markComplete(s, signal).n = s.n /\ markComplete(s, signal).up = s.up
                            /\ markComplete(s, signal).greet = s.greet /\ markComplete(s, signal).companion = s.companion
                            /\ markComplete(s, signal).armed = s.armed /\ markComplete(s, signal).regs = s.regs
                            /\ markComplete(s, signal).uidMap = s.uidMap
                            /\ markComplete(s, signal).remaining = s.remaining \ {signal}
                            /\ markComplete(s, signal).inits = IF s.remaining \ {signal} = {} THEN 1 ELSE 0
    <2> USE <1>MarkedComplete
    <2>1. CASE s.remaining = {}
      BY Zenon, <2>1 DEF markComplete
    <2>2. CASE s.remaining # {}
      <3>1. PICK left \in SUBSET Signals : left = s.remaining \ {signal}
        BY Zenon DEF JavaStatsds
      <3>2. PICK inits \in Nat : inits = IF left = {} THEN 1 ELSE 0
        BY Zenon
      <3>3. markComplete(s, signal) = [s EXCEPT !.remaining = left, !.inits = inits]
        BY <2>2, <3>1, <3>2 DEF markComplete, JavaStatsds
      <3> QED BY Zenon, <3>1, <3>2, <3>3 DEF JavaStatsds
    <2> QED BY Zenon, <2>1, <2>2
  <1>HandledCall. ASSUME NEW s \in JavaStatsds, s.inits = IF s.remaining = {} THEN 1 ELSE 0, "puller" \in KindSet,
                         NEW call \in InboxCalls, call.op = "informAllUidData" => call.packages # None
                  PROVE  Handling(s, call, Handled(s, call))
    <2> USE <1>HandledCall
    <2> SUFFICES ASSUME NEW r, r = Handled(s, call) PROVE Handling(s, call, r)
      BY Zenon
    <2> USE DEF Handling
    <2>1. CASE call.op = "register"
      <3>1. call.entry = "puller" /\ r = [s EXCEPT !.regs = s.regs \cup {call.entry}]
        BY Zenon, <2>1 DEF Handled, InboxCalls
      <3>2. PICK regs \in SUBSET KindSet : regs = s.regs \cup {call.entry}
        BY <3>1 DEF JavaStatsds
      <3>3. SignalOf(call) = "none" /\ ~CarriesUids(call) /\ "none" \notin s.remaining
        BY Zenon, <2>1 DEF SignalOf, CarriesUids, JavaStatsds, Signals
      <3> QED BY <2>1, <3>1, <3>2, <3>3 DEF JavaStatsds
    <2>2. CASE call.op = "unregister"
      <3>1. r = [s EXCEPT !.regs = s.regs \ {call.entry}]
        BY Zenon, <2>2 DEF Handled
      <3>2. PICK regs \in SUBSET KindSet : regs = s.regs \ {call.entry}
        BY Zenon, <3>1 DEF JavaStatsds
      <3>3. SignalOf(call) = "none" /\ ~CarriesUids(call) /\ "none" \notin s.remaining
        BY Zenon, <2>2 DEF SignalOf, CarriesUids, JavaStatsds, Signals
      <3> QED BY <2>2, <3>1, <3>2, <3>3 DEF JavaStatsds
    <2>3. CASE call.op = "allPullersFromBootRegistered"
      <3>1. r = markComplete(s, "PULLERS_REGISTERED") /\ SignalOf(call) = "PULLERS_REGISTERED" /\ ~CarriesUids(call)
        BY Zenon, <2>3 DEF Handled, SignalOf, CarriesUids
      <3> QED BY <2>3, <3>1, <1>MarkedComplete
    <2>4. CASE call.op = "bootCompleted"
      <3>1. r = markComplete(s, "BOOT_COMPLETE") /\ SignalOf(call) = "BOOT_COMPLETE" /\ ~CarriesUids(call)
        BY Zenon, <2>4 DEF Handled, SignalOf, CarriesUids
      <3> QED BY <2>4, <3>1, <1>MarkedComplete
    <2>5. CASE call.op = "informAllUidData"
      <3>1. PICK p \in Nat : p = call.packages
        BY Zenon, <2>5 DEF InboxCalls
      <3>2. PICK q \in JavaStatsds :
               /\ q = [s EXCEPT !.uidMap = p] /\ q.n = s.n /\ q.up = s.up /\ q.greet = s.greet
               /\ q.companion = s.companion /\ q.armed = s.armed /\ q.regs = s.regs /\ q.uidMap = p
               /\ q.remaining = s.remaining /\ q.inits = s.inits
        <4>1. /\ [s EXCEPT !.uidMap = p] \in JavaStatsds
              /\ [s EXCEPT !.uidMap = p].n = s.n /\ [s EXCEPT !.uidMap = p].up = s.up
              /\ [s EXCEPT !.uidMap = p].greet = s.greet /\ [s EXCEPT !.uidMap = p].companion = s.companion
              /\ [s EXCEPT !.uidMap = p].armed = s.armed /\ [s EXCEPT !.uidMap = p].regs = s.regs
              /\ [s EXCEPT !.uidMap = p].uidMap = p /\ [s EXCEPT !.uidMap = p].remaining = s.remaining
              /\ [s EXCEPT !.uidMap = p].inits = s.inits
          BY Zenon DEF JavaStatsds
        <4> QED BY Zenon, <4>1
      <3>3. r = markComplete(q, "UID_MAP") /\ SignalOf(call) = "UID_MAP" /\ CarriesUids(call)
        BY Zenon, <2>5, <3>1, <3>2 DEF Handled, SignalOf, CarriesUids
      <3>4. q.inits = IF q.remaining = {} THEN 1 ELSE 0
        BY Zenon, <3>2
      <3>5. /\ r \in JavaStatsds /\ r.n = q.n /\ r.up = q.up /\ r.greet = q.greet /\ r.companion = q.companion
            /\ r.armed = q.armed /\ r.regs = q.regs /\ r.uidMap = q.uidMap
            /\ r.remaining = q.remaining \ {"UID_MAP"}
            /\ r.inits = IF q.remaining \ {"UID_MAP"} = {} THEN 1 ELSE 0
        BY <3>3, <3>4, <1>MarkedComplete
      <3> QED BY <2>5, <3>1, <3>2, <3>3, <3>5
    <2>6. CASE call.op = "informOnePackage"
      <3>1. PICK p \in Nat : p = call.packages
        BY Zenon, <2>6 DEF InboxCalls
      <3>2. r = [s EXCEPT !.uidMap = p] /\ CarriesUids(call)
        BY Zenon, <2>6, <3>1 DEF Handled, CarriesUids
      <3>3. SignalOf(call) = "none" /\ "none" \notin s.remaining
        BY Zenon, <2>6 DEF SignalOf, JavaStatsds, Signals
      <3> QED BY <2>6, <3>1, <3>2, <3>3 DEF JavaStatsds
    <2> QED BY Zenon, <2>1, <2>2, <2>3, <2>4, <2>5, <2>6 DEF InboxCalls
  <1>PullerIsKind. "puller" \in KindSet
    BY Zenon, CompanionAssumption DEF KindSet
  \* statsd handles the first of the calls made to it.
  <1>HandlesStep. ASSUME CompanionInv, StatsdHandles, UNCHANGED companionVars PROVE CompanionInv'
    <2> USE <1>HandlesStep
    <2>1. /\ statsd.up /\ inbox # <<>> /\ inbox' = Tail(inbox) /\ statsd' = Handled(statsd, Head(inbox))
          /\ Head(inbox).op = "informAllUidData" => Head(inbox).packages # None
          /\ statsd \in JavaStatsds /\ statsd.n # 0 /\ inbox \in Seq(InboxCalls)
          /\ statsd.inits = IF statsd.remaining = {} THEN 1 ELSE 0
      BY Zenon DEF StatsdHandles, CompanionInv, CompanionTypeOK, TriggerOK
    <2>2. UNCHANGED <<toCompanion, published, hi, sStatsd, mStatsd, entries, client, alarm, receivers, linked, died,
                     mBootCompleted, boot, uidThreads, packages, broadcast, calls, mishaps, world, leaked>>
      BY Zenon DEF StatsdHandles, companionVars
    <2>3. PICK call \in InboxCalls : call = Head(inbox) /\ call = inbox[1] /\ 1 \in DOMAIN inbox
      BY <2>1
    <2>4. PICK r : r = statsd' /\ Handling(statsd, call, r)
      <3>1. /\ statsd \in JavaStatsds /\ statsd.inits = IF statsd.remaining = {} THEN 1 ELSE 0
            /\ "puller" \in KindSet /\ (call.op = "informAllUidData" => call.packages # None)
        BY Zenon, <2>1, <2>3, <1>PullerIsKind
      <3>2. Handling(statsd, call, Handled(statsd, call))
        BY Zenon, <3>1, <1>HandledCall
      <3>3. statsd' = Handled(statsd, call)
        BY Zenon, <2>1, <2>3
      <3> QED BY Zenon, <3>2, <3>3
    <2>5. /\ r \in JavaStatsds
          /\ r.n = statsd.n /\ r.up = statsd.up /\ r.greet = statsd.greet /\ r.companion = statsd.companion
          /\ r.armed = statsd.armed
          /\ r.remaining = statsd.remaining \ {SignalOf(call)}
          /\ r.inits = IF r.remaining = {} THEN 1 ELSE 0
          /\ r.uidMap = IF CarriesUids(call) THEN call.packages ELSE statsd.uidMap
          /\ r.regs = IF call.op = "register" THEN statsd.regs \cup {call.entry}
                      ELSE IF call.op = "unregister" THEN statsd.regs \ {call.entry} ELSE statsd.regs
      BY Zenon, <2>4 DEF Handling
    <2>6. /\ inbox' \in Seq(InboxCalls)
          /\ \A i \in DOMAIN inbox' : i + 1 \in DOMAIN inbox /\ inbox'[i] = inbox[i + 1]
          /\ \A i \in DOMAIN inbox : i = 1 \/ (i - 1 \in DOMAIN inbox' /\ inbox'[i - 1] = inbox[i])
          /\ DOMAIN inbox \subseteq Nat \ {0} /\ DOMAIN inbox' \subseteq Nat \ {0}
      BY <2>1
    <2>7. SameConnection
      BY Zenon, <2>2, <2>4, <2>5 DEF SameConnection, SameGreetings, Greets
    <2>8. CompanionTypeOK'
      BY Zenon, <2>1, <2>2, <2>4, <2>5, <2>6 DEF CompanionInv, CompanionTypeOK
    <2>9. \A op : /\ Posted(op)' => Posted(op)
                  /\ Posted(op) => Posted(op)' \/ call.op = op
      <3> TAKE op
      <3>1. Posted(op)' => Posted(op)
        BY Zenon, <2>6 DEF Posted
      <3>2. ASSUME Posted(op) PROVE Posted(op)' \/ call.op = op
        BY Zenon, <2>3, <2>6, <3>2 DEF Posted
      <3> QED
        BY Zenon, <3>1, <3>2
    <2>10. TriggerOK'
      <3>1. "BOOT_COMPLETE" \notin r.remaining => "BOOT_COMPLETE" \notin statsd.remaining \/ call.op = "bootCompleted"
        BY Zenon, <2>5 DEF SignalOf
      <3>2. call.op = "bootCompleted" => Posted("bootCompleted")
        BY Zenon, <2>3 DEF Posted
      <3> QED BY Zenon, <2>2, <2>4, <2>5, <2>9, <3>1, <3>2 DEF CompanionInv, TriggerOK
    <2>11. PullersTold'
      <3>1. call.op = "allPullersFromBootRegistered" => "PULLERS_REGISTERED" \notin r.remaining
        BY Zenon, <2>5 DEF SignalOf
      <3> QED BY Zenon, <2>4, <2>5, <2>7, <2>9, <3>1, ConnectionFrame DEF CompanionInv, PullersTold
    <2>12. BootTold'
      <3>1. call.op = "bootCompleted" => "BOOT_COMPLETE" \notin r.remaining
        BY Zenon, <2>5 DEF SignalOf
      <3> QED BY Zenon, <2>2, <2>4, <2>5, <2>7, <2>9, <3>1, ConnectionFrame DEF CompanionInv, BootTold
    <2>13. UidsTold'
      <3>1. call.op = "informAllUidData" => "UID_MAP" \notin r.remaining
        BY Zenon, <2>5 DEF SignalOf
      <3>2. WillPost => WillPost'
        BY Zenon, <2>2, <2>4, <2>5 DEF WillPost
      <3> QED BY Zenon, <2>4, <2>5, <2>7, <2>9, <3>1, <3>2, ConnectionFrame DEF CompanionInv, UidsTold
    <2>18. call.op = "informAllUidData" => call.packages # None
      BY Zenon, <2>1, <2>3
    <2>14. ASSUME UidMapComing PROVE UidMapComing'
      <3>1. CASE broadcast \/ WillPost
        BY Zenon, <3>1, <2>2, <2>4, <2>5 DEF UidMapComing, WillPost
      <3>2. CASE \E i \in DOMAIN inbox : /\ CarriesUids(inbox[i]) /\ UpToDate(inbox[i])
                                 /\ \A j \in DOMAIN inbox : j > i => ~CarriesUids(inbox[j])
        <4>1. PICK i \in DOMAIN inbox : /\ CarriesUids(inbox[i]) /\ UpToDate(inbox[i])
                                 /\ \A j \in DOMAIN inbox : j > i => ~CarriesUids(inbox[j])
          BY Zenon, <3>2
        <4>2. CASE i = 1
          <5>1. CarriesUids(call) /\ UpToDate(call)
            BY Zenon, <4>1, <4>2, <2>3
          <5>2. call.packages = packages
            BY Zenon, <5>1, <2>18 DEF UpToDate
          <5>3. statsd'.uidMap = packages'
            BY Zenon, <5>1, <5>2, <2>2, <2>4, <2>5
          <5>4. \A j \in DOMAIN inbox' : ~CarriesUids(inbox[j])'
            BY <4>1, <4>2, <2>6 DEF CarriesUids
          <5> QED BY Zenon, <5>3, <5>4 DEF UidMapComing
        <4>3. CASE i # 1
          <5>1. i - 1 \in DOMAIN inbox' /\ inbox'[i - 1] = inbox[i]
            BY Zenon, <4>3, <2>6
          <5>2. CarriesUids(inbox[i - 1])' /\ UpToDate(inbox[i - 1])'
            BY Zenon, <4>1, <5>1, <2>2 DEF CarriesUids, UpToDate
          <5>3. \A j \in DOMAIN inbox' : j > i - 1 => ~CarriesUids(inbox[j])'
            BY <4>1, <2>6 DEF CarriesUids
          <5> QED BY Zenon, <5>1, <5>2, <5>3 DEF UidMapComing
        <4> QED BY Zenon, <4>2, <4>3
      <3>3. CASE statsd.uidMap = packages /\ \A i \in DOMAIN inbox : ~CarriesUids(inbox[i])
        <4>1. statsd'.uidMap = packages'
          BY Zenon, <3>3, <2>2, <2>3, <2>4, <2>5
        <4>2. \A j \in DOMAIN inbox' : ~CarriesUids(inbox[j])'
          BY Zenon, <3>3, <2>6 DEF CarriesUids
        <4> QED BY Zenon, <4>1, <4>2 DEF UidMapComing
      <3> QED BY Zenon, <2>14, <3>1, <3>2, <3>3 DEF UidMapComing
    <2>15. UidMapTold'
      BY Zenon, <2>7, <2>14, UidMapFrame DEF CompanionInv
    <2>16. ASSUME NEW k, Reaches(k) PROVE Reaches(k)'
      <3>1. CASE k \in statsd.regs /\ \A j \in DOMAIN inbox : ~Withdrawn(j, k)
        <4>1. call # [op |-> "unregister", entry |-> k]
          BY Zenon, <3>1, <2>3 DEF Withdrawn
        <4>2. call.op = "unregister" => call.entry # k
          BY Zenon, <4>1, <2>3 DEF InboxCalls
        <4>3. k \in statsd'.regs
          BY Zenon, <3>1, <4>2, <2>4, <2>5
        <4>4. \A j \in DOMAIN inbox' : ~Withdrawn(j, k)'
          BY <3>1, <2>6 DEF Withdrawn
        <4> QED BY Zenon, <4>3, <4>4 DEF Reaches
      <3>2. CASE \E i \in DOMAIN inbox : /\ inbox[i] = [op |-> "register", entry |-> k]
                                         /\ \A j \in DOMAIN inbox : j > i => ~Withdrawn(j, k)
        <4>1. PICK i \in DOMAIN inbox : /\ inbox[i] = [op |-> "register", entry |-> k]
                                        /\ \A j \in DOMAIN inbox : j > i => ~Withdrawn(j, k)
          BY Zenon, <3>2
        <4>2. CASE i = 1
          <5>1. call.op = "register" /\ call.entry = k
            BY <4>1, <4>2, <2>3
          <5>2. k \in statsd'.regs
            BY Zenon, <5>1, <2>4, <2>5
          <5>3. \A j \in DOMAIN inbox' : ~Withdrawn(j, k)'
            BY <4>1, <4>2, <2>6 DEF Withdrawn
          <5> QED BY Zenon, <5>2, <5>3 DEF Reaches
        <4>3. CASE i # 1
          <5>1. i - 1 \in DOMAIN inbox' /\ inbox'[i - 1] = [op |-> "register", entry |-> k]
            BY Zenon, <4>1, <4>3, <2>6
          <5>2. \A j \in DOMAIN inbox' : j > i - 1 => ~Withdrawn(j, k)'
            BY <4>1, <2>6 DEF Withdrawn
          <5> QED BY Zenon, <5>1, <5>2 DEF Reaches
        <4> QED BY Zenon, <4>2, <4>3
      <3> QED BY Zenon, <2>16, <3>1, <3>2 DEF Reaches
    <2>17. EntriesTold'
      BY Zenon, <2>2, <2>4, <2>5, <2>7, <2>16, EntriesFrame, WillTellUnchanged DEF CompanionInv
    <2> QED BY Zenon, <2>2, <2>4, <2>5, <2>7, <2>8, <2>10, <2>11, <2>12, <2>13, <2>15, <2>17, RestFrame DEF CompanionInv
  <1> QED BY Zenon, <1>StartsStep, <1>SayHiStep, <1>SetsAlarmStep, <1>HandlesStep

-----------------------------------------------------------------------------
(* The theorems.                                                           *)

LEMMA CompanionStarts == Init => CompanionInv
  <1> SUFFICES ASSUME Init PROVE CompanionInv
    BY Zenon
  <1>1. /\ statsd = [n |-> 0, up |-> FALSE, greet |-> FALSE, companion |-> FALSE, armed |-> FALSE,
                     regs |-> {}, remaining |-> Signals, inits |-> 0, uidMap |-> 0]
        /\ inbox = <<>> /\ toCompanion = <<>> /\ published = FALSE
    BY Zenon DEF Init, ProcessInit, NotStarted, Started
  <1>2. /\ hi = [main |-> [at |-> "unborn"], binder |-> Resting]
        /\ sStatsd = 0 /\ mStatsd = 0 /\ entries = {} /\ client = Resting
        /\ alarm = 0 /\ receivers = {} /\ linked = {} /\ died = {}
        /\ mBootCompleted = FALSE /\ boot = Resting
        /\ uidThreads = {} /\ packages = 1 /\ broadcast = FALSE
    BY Zenon DEF Init, CompanionInit
  <1> USE <1>2
  <1>3. statsd \in JavaStatsds /\ ~statsd.up /\ statsd.n = 0 /\ statsd.remaining = Signals /\ statsd.inits = 0
    BY Zenon, <1>1 DEF JavaStatsds, Signals
  <1>4. /\ hi \in [{"main", "binder"} -> {[at |-> "unborn"], Resting, [at |-> "fetch"]} \cup Greetings]
        /\ hi["main"].at = "unborn" /\ \A t \in DOMAIN hi : ~Greets(t)
    BY DEF Greets, Resting
  <1>5. CompanionTypeOK
    <2>1. inbox \in Seq(InboxCalls) /\ toCompanion \in Seq(CompanionCalls)
      BY <1>1
    <2>2. boot \in {Resting, [at |-> "tell"]} /\ boot.at = "idle" /\ client \in {Resting} \cup ClientCall
      BY Zenon DEF Resting
    <2> HIDE <1>1
    <2> QED BY Zenon, <1>3, <1>4, <2>1, <2>2, <1>1 DEF CompanionTypeOK
  <1>6. KnownOK /\ OneGreeting /\ AlarmKept /\ ReceiversOK /\ Noticed
    BY <1>3, <1>4 DEF KnownOK, OneGreeting, AlarmKept, ReceiversOK, Noticed
  <1>7. TriggerOK /\ ClientOK
    <2>1. ~Posted("bootCompleted")
      BY <1>1 DEF Posted
    <2> QED BY Zenon, <1>3, <2>1 DEF TriggerOK, ClientOK, Signals, Resting
  <1>8. /\ ManagerConnected /\ CompanionTold /\ ReceiversTold /\ PullersTold /\ BootTold
        /\ UidsTold /\ UidMapTold /\ EntriesTold
    BY Zenon, <1>3 DEF Connected, ManagerConnected, CompanionTold, ReceiversTold, PullersTold, BootTold, UidsTold,
                UidMapTold, EntriesTold
  <1> QED BY Zenon, <1>5, <1>6, <1>7, <1>8 DEF CompanionInv

LEMMA CompanionNextStep ==
    ASSUME CompanionInv, CompanionNext PROVE CompanionInv' /\ UNCHANGED world
  <1>1. CASE \E t \in DOMAIN hi : Hi(t)
    BY Zenon, <1>1, GreetingStep
  <1>2. CASE Publish \/ systemReady \/ CompanionHandles \/ binderDied \/ DayPasses
    BY Zenon, <1>2, CompanionSteps DEF Publish, systemReady, CompanionHandles, binderDied, DayPasses, companionVars
  <1>3. CASE bootCompleted \/ TellBoot \/ PackageChanges \/ AppUpdate \/ PostUids \/ WriteUids
    BY Zenon, <1>3, BootAndPackageSteps DEF bootCompleted, TellBoot, PackageChanges, AppUpdate, PostUids, WriteUids
  <1>4. CASE ClientCalls \/ ClientCaches \/ ClientReadsStatsd \/ ClientTells
    BY Zenon, <1>4, ClientSteps DEF ClientCalls, ClientCaches, ClientReadsStatsd, ClientTells
  <1> QED BY Zenon, <1>1, <1>2, <1>3, <1>4 DEF CompanionNext

\* Where nothing changes the invariant stays.
LEMMA CompanionStutters ==
    ASSUME CompanionInv, UNCHANGED <<processVars, companionVars>> PROVE CompanionInv'
  BY Zenon, NothingChanges DEF processVars, companionVars

\* The invariant holds on the system server's side; a native process leaves
\* the system server unborn.
LEMMA CompanionInvariant == Spec => []JInv
  <1>1. Init => JInv
    BY CompanionStarts DEF JInv, Init, CompanionInit
  <1>2. JInv /\ [Next]_clientsVars => JInv'
    <2> SUFFICES ASSUME JInv, [Next]_clientsVars PROVE JInv'
      BY Zenon
    <2>1. CASE Java
      <3>1. world.side # "native" /\ CompanionInv
        BY Zenon, <2>1 DEF Java, JInv
      <3> USE <3>1
      <3>2. CASE CompanionNext
        BY Zenon, <3>2, CompanionNextStep DEF JInv
      <3>3. CASE (StatsdStarts \/ sayHiToStatsCompanion \/ StatsdHandles) /\ UNCHANGED companionVars
        <4>1. CompanionInv'
          BY Zenon, <3>3, StatsdSteps
        <4> QED BY Zenon, <3>3, <4>1 DEF JInv, companionVars
      <3>4. CASE StatsdSetsAlarm /\ UNCHANGED companionVars
        <4>1. CompanionInv'
          BY Zenon, <3>4, StatsdSteps
        <4> QED BY Zenon, <3>4, <4>1 DEF JInv, companionVars
      <3>5. CASE StatsdDies
        <4>1. CompanionInv' /\ UNCHANGED world
          BY Zenon, <3>5, DiesStep DEF StatsdDies
        <4> QED BY Zenon, <4>1 DEF JInv
      <3> QED BY Zenon, <2>1, <3>2, <3>3, <3>4, <3>5 DEF Java
    <2>2. CASE NativeSide
      BY Zenon, <2>2 DEF NativeSide, JInv, companionVars
    <2>3. CASE UNCHANGED clientsVars
      <3>1. UNCHANGED <<processVars, companionVars>> /\ UNCHANGED <<hi, world>>
        BY Zenon, <2>3 DEF clientsVars, companionVars
      <3> QED BY Zenon, <3>1, CompanionStutters DEF JInv
    <2> QED BY Zenon, <2>1, <2>2, <2>3 DEF Next
  <1> QED BY <1>1, <1>2, PTL DEF Spec

\* When nothing is under way the system server is connected.
LEMMA QuietIsConnected ==
    ASSUME JInv, Quiet
    PROVE  /\ CompanionInv /\ Connected /\ inbox = <<>> /\ toCompanion = <<>> /\ uidThreads = {}
           /\ client.at = "idle" /\ boot.at = "idle" /\ ~broadcast /\ died = {} /\ statsd.up
           /\ \A t \in DOMAIN hi : hi[t].at = "idle"
           /\ \A S \in SUBSET Places : ~Greeting(S)
  <1>1. /\ mishaps = {} /\ statsd.up /\ ~statsd.greet /\ inbox = <<>> /\ toCompanion = <<>>
        /\ \A t \in DOMAIN hi : hi[t] = Resting
        /\ client = Resting /\ boot = Resting /\ died = {} /\ uidThreads = {} /\ ~broadcast
    BY Zenon DEF Quiet
  <1> USE <1>1
  <1>2. Resting.at = "idle"
    BY Zenon DEF Resting
  <1> USE <1>2
  <1>3. CompanionInv /\ hi["main"].at = "idle" /\ hi["binder"].at = "idle"
    <2>1. CompanionInv
      <3> SUFFICES ASSUME world.side = "native" PROVE FALSE
        BY Zenon DEF JInv
      <3>1. "main" \in DOMAIN hi /\ hi["main"].at = "unborn"
        BY Zenon DEF JInv
      <3> QED BY Zenon, <3>1
    <2>2. DOMAIN hi = {"main", "binder"}
      BY Zenon, <2>1 DEF CompanionInv, CompanionTypeOK
    <2> QED BY Zenon, <2>1, <2>2
  <1>4. Connected
    BY <1>3 DEF CompanionInv, Noticed, Connected
  <1>5. \A S \in SUBSET Places : ~Greeting(S)
    BY Zenon DEF Greeting, Places, Early
  <1> QED BY Zenon, <1>3, <1>4, <1>5

\* However often statsd dies, whenever that is noticed, whichever thread greets
\* the next one and whether binderDied of StatsCompanionService gets to its end
\* or throws: when everything has settled, both services know the statsd that
\* runs, its receivers are registered (and, of the earlier ones, at most those
\* whose binderDied threw), its alarm is kept and its init trigger has run.
THEOREM AlwaysReconnected == Spec => []Reconnected
  <1>1. JInv => Reconnected
    <2> SUFFICES ASSUME JInv, Quiet
                 PROVE  /\ sStatsd = statsd.n /\ mStatsd = statsd.n /\ statsd.companion
                        /\ statsd.n \in receivers /\ receivers \subseteq {statsd.n} \cup leaked
                        /\ (statsd.armed => alarm = statsd.n)
                        /\ statsd.inits = IF mBootCompleted THEN 1 ELSE 0
      BY Zenon DEF Reconnected
    <2>1. /\ CompanionInv /\ Connected /\ inbox = <<>> /\ toCompanion = <<>> /\ uidThreads = {}
          /\ boot.at = "idle" /\ died = {} /\ statsd.up /\ \A t \in DOMAIN hi : hi[t].at = "idle"
          /\ ~Greeting({"cancel", "ready"}) /\ ~Greeting(Early) /\ ~Greeting(Early \cup {"receivers"})
          /\ ~Greeting(Places)
      BY Zenon, QuietIsConnected, StageSets
    <2> USE <2>1
    <2>2. sStatsd = statsd.n /\ mStatsd = statsd.n /\ statsd.companion /\ statsd.n \in receivers
      BY Zenon DEF CompanionInv, Connected, ManagerConnected, CompanionTold, ReceiversTold
    <2>3. receivers \subseteq {statsd.n} \cup leaked
      BY Zenon, <2>2 DEF CompanionInv, ReceiversOK, Alive
    <2>4. statsd.armed => alarm = statsd.n
      <3>1. mishaps = {} /\ DOMAIN toCompanion = {}
        BY DEF Connected
      <3> QED BY Zenon, <3>1 DEF CompanionInv, AlarmKept, AlarmComing
    <2>5. \A op : ~Posted(op)
      BY DEF Posted
    <2>6. "PULLERS_REGISTERED" \notin statsd.remaining
      BY Zenon, <2>5 DEF CompanionInv, PullersTold, WillCome, IsAt
    <2>7. "UID_MAP" \notin statsd.remaining
      BY Zenon, <2>5 DEF CompanionInv, UidsTold, WillPost
    <2>8. mBootCompleted <=> "BOOT_COMPLETE" \notin statsd.remaining
      BY Zenon, <2>5 DEF CompanionInv, BootTold, TriggerOK
    <2>9. mBootCompleted <=> statsd.remaining = {}
      <3>1. statsd.remaining \in SUBSET Signals
        BY Zenon DEF CompanionInv, CompanionTypeOK, JavaStatsds
      <3> QED BY Zenon, <2>6, <2>7, <2>8, <3>1 DEF Signals
    <2>10. statsd.inits = IF mBootCompleted THEN 1 ELSE 0
      BY Zenon, <2>9 DEF CompanionInv, TriggerOK
    <2> QED BY Zenon, <2>2, <2>3, <2>4, <2>10
  <1> QED BY <1>1, CompanionInvariant, PTL

\* When everything has settled the running statsd knows all that clients have
\* registered, although registrations, greetings and deaths overlap.
THEOREM AllEntriesKnown == Spec => []EntriesKnown
  <1>1. JInv => EntriesKnown
    <2> SUFFICES ASSUME JInv, Quiet, NEW k \in entries PROVE k \in statsd.regs
      BY Zenon DEF EntriesKnown
    <2>1. /\ CompanionInv /\ Connected /\ inbox = <<>> /\ client.at = "idle"
          /\ \A t \in DOMAIN hi : hi[t].at = "idle"
          /\ ~Greeting({"cancel", "ready"})
      BY Zenon, QuietIsConnected, StageSets
    <2>2. WillSend(k) \/ WillTell(k) \/ Reaches(k)
      BY Zenon, <2>1 DEF CompanionInv, EntriesTold
    <2>3. ~WillSend(k) /\ ~WillTell(k)
      BY Zenon, <2>1 DEF WillSend, WillCome, WillTell
    <2> QED BY <2>1, <2>2, <2>3 DEF Reaches
  <1> QED BY <1>1, CompanionInvariant, PTL

\* When everything has settled the uid map of the running statsd is the
\* package manager's, whatever the order in which the threads wrote to it.
THEOREM UidMapAlwaysFresh == Spec => []UidMapFresh
  <1>1. JInv => UidMapFresh
    <2> SUFFICES ASSUME JInv, Quiet PROVE statsd.uidMap = packages
      BY Zenon DEF UidMapFresh
    <2>1. /\ CompanionInv /\ Connected /\ inbox = <<>> /\ uidThreads = {} /\ ~broadcast
          /\ ~Greeting(Places)
      BY Zenon, QuietIsConnected, StageSets
    <2> QED BY <2>1 DEF CompanionInv, UidMapTold, UidMapComing, WillPost
  <1> QED BY <1>1, CompanionInvariant, PTL

-----------------------------------------------------------------------------
(* A native process.                                                       *)

\* The calls a native process makes.
NativeCalls == [op : {"register", "unregister"}, entry : {Native(tag) : tag \in Tags}]

NativeThreads == [at : {"get", "call", "done"}, op : {"register", "unregister"}, tag : Tags,
                  statsd : Nat]

Deaths == [at : {"forget", "get", "copy", "call"}, of : Nat, statsd : Nat, todo : SUBSET Tags]

Statsds == [n : Nat, up : BOOLEAN, greet : BOOLEAN, companion : {FALSE}, armed : {FALSE},
            regs : SUBSET {Native(tag) : tag \in Tags}, remaining : {Signals}, inits : {0}, uidMap : {0}]

NativeTypeOK ==
    /\ statsd \in Statsds /\ (statsd.up => statsd.n # 0)
    /\ inbox \in Seq(NativeCalls)
    /\ nStatsd \in Nat /\ nPullers \in SUBSET Tags /\ threads \in Seq(NativeThreads)
    /\ dying \in SUBSET Deaths /\ nLinked \in SUBSET Nat /\ cleared \in SUBSET Tags
    /\ gaveUp \in BOOLEAN

\* The statsd the process refers to is one whose death it is told, and when
\* it has died a binderDied is about to drop the reference.
ReferenceOK ==
    nStatsd # 0 => /\ nStatsd \in nLinked /\ nStatsd <= statsd.n
                   /\ Alive(nStatsd) \/ \E d \in dying : d.at = "forget"

\* Only atoms that were cleared are unregistered.
UnregisterOK ==
    /\ \A i \in DOMAIN threads : threads[i].op = "unregister" => threads[i].tag \in cleared
    /\ \A i \in DOMAIN inbox : inbox[i].op = "unregister" =>
          \E tag \in cleared : inbox[i].entry = Native(tag)

\* A thread will get statsd, to register the atom or everything.
WillGet(tag) ==
    \/ \E i \in DOMAIN threads : threads[i].at = "get" /\ threads[i].op = "register" /\ threads[i].tag = tag
    \/ \E d \in dying : d.at \in {"forget", "get"}

\* The registration is with the running statsd or on its way to it.
WillReach(tag) ==
    /\ statsd.up /\ statsd.n \in nLinked
    /\ \/ Native(tag) \in statsd.regs
       \/ \E i \in DOMAIN inbox : inbox[i].op = "register" /\ inbox[i].entry = Native(tag)
       \/ \E i \in DOMAIN threads : /\ threads[i].at = "call" /\ threads[i].op = "register"
                                    /\ threads[i].tag = tag /\ threads[i].statsd = statsd.n
       \/ \E d \in dying : d.at = "copy" /\ d.statsd = statsd.n
       \/ \E d \in dying : d.at = "call" /\ d.statsd = statsd.n /\ tag \in d.todo

Underway == ~gaveUp => \A tag \in nPullers \ cleared : WillGet(tag) \/ WillReach(tag)

NativeInv == NativeTypeOK /\ ReferenceOK /\ UnregisterOK /\ Underway

IInv == IF world.side = "native" THEN NativeInv ELSE nPullers = {}

-----------------------------------------------------------------------------
(* What the running statsd and the calls to it do.                         *)

\* A statsd that starts knows nothing; who will get it still will.
LEMMA StartStep ==
    ASSUME NativeInv, StatsdStarts, UNCHANGED clientVars PROVE NativeInv'
  <1>1. ~statsd.up /\ statsd.n \in Nat /\ statsd' = Started(statsd.n + 1)
    BY Zenon DEF StatsdStarts, NativeInv, NativeTypeOK, Statsds
  <1>2. statsd'.up /\ statsd'.n = statsd.n + 1 /\ statsd' \in Statsds
    BY <1>1 DEF Started, Statsds
  <1>3. NativeTypeOK'
    BY <1>1, <1>2 DEF NativeInv, NativeTypeOK, StatsdStarts, clientVars
  <1>4. ReferenceOK'
    BY <1>1, <1>2 DEF NativeInv, NativeTypeOK, ReferenceOK, Alive, clientVars
  <1>5. UnregisterOK'
    BY Zenon DEF NativeInv, UnregisterOK, StatsdStarts, clientVars
  <1>6. Underway'
    BY <1>1 DEF NativeInv, Underway, WillGet, WillReach, clientVars
  <1> QED BY Zenon, <1>3, <1>4, <1>5, <1>6 DEF NativeInv

\* Whoever was on the way to a statsd that dies had its death linked.
LEMMA DeathStep ==
    ASSUME NativeInv, NativeStatsdDies PROVE NativeInv'
  <1> DEFINE death == [at |-> "forget", of |-> statsd.n, statsd |-> 0, todo |-> {}]
  <1>1. statsd.up /\ statsd \in Statsds /\ statsd.n \in Nat /\ statsd' = [statsd EXCEPT !.up = FALSE]
    BY Zenon DEF NativeStatsdDies, NativeInv, NativeTypeOK, Statsds
  <1>2. ~statsd'.up /\ statsd'.n = statsd.n /\ statsd' \in Statsds
    BY Zenon, <1>1 DEF Statsds
  <1>3. /\ dying \subseteq dying' /\ (statsd.n \in nLinked => death \in dying')
        /\ dying' \subseteq dying \cup {death} /\ death.at = "forget" /\ death \in Deaths
    BY Zenon, <1>1 DEF NativeStatsdDies, Deaths
  <1>4. inbox' = <<>> /\ UNCHANGED <<nStatsd, nPullers, threads, nLinked, cleared, gaveUp>>
    BY Zenon DEF NativeStatsdDies
  <1> HIDE DEF death
  <1>5. NativeTypeOK'
    BY <1>2, <1>3, <1>4 DEF NativeInv, NativeTypeOK
  <1>6. ReferenceOK'
    BY Zenon, <1>1, <1>2, <1>3, <1>4 DEF NativeInv, NativeTypeOK, ReferenceOK, Alive
  <1>7. UnregisterOK'
    BY <1>4 DEF NativeInv, UnregisterOK
  <1>8. Underway'
    BY <1>3, <1>4 DEF NativeInv, Underway, WillGet, WillReach
  <1> QED BY Zenon, <1>5, <1>6, <1>7, <1>8 DEF NativeInv

\* Handling a call makes a registration or withdraws a cleared one.
LEMMA HandleStep ==
    ASSUME NativeInv, StatsdHandles, UNCHANGED clientVars PROVE NativeInv'
  <1>1. /\ statsd.up /\ statsd \in Statsds /\ inbox \in Seq(NativeCalls) /\ inbox # <<>>
        /\ inbox' = Tail(inbox) /\ statsd' = Handled(statsd, Head(inbox))
    BY Zenon DEF StatsdHandles, NativeInv, NativeTypeOK
  <1>2. PICK call \in NativeCalls : call = Head(inbox) /\ call = inbox[1] /\ 1 \in DOMAIN inbox
    BY <1>1
  <1>3. PICK regs \in SUBSET {Native(tag) : tag \in Tags} :
           /\ statsd' = [statsd EXCEPT !.regs = regs]
           /\ call.op = "register" => regs = statsd.regs \cup {call.entry}
           /\ call.op # "register" => regs = statsd.regs \ {call.entry}
    <2>1. statsd.regs \in SUBSET {Native(tag) : tag \in Tags} /\ call.entry \in {Native(tag) : tag \in Tags}
      BY Zenon, <1>1 DEF Statsds, NativeCalls
    <2>2. statsd' = Handled(statsd, call)
      BY Zenon, <1>1, <1>2
    <2>3. CASE call.op = "register"
      <3>1. statsd' = [statsd EXCEPT !.regs = statsd.regs \cup {call.entry}]
        BY Zenon, <2>2, <2>3 DEF Handled
      <3>2. statsd.regs \cup {call.entry} \in SUBSET {Native(tag) : tag \in Tags}
        BY Zenon, <2>1
      <3> QED BY Zenon, <2>3, <3>1, <3>2
    <2>4. CASE call.op = "unregister"
      <3>1. statsd' = [statsd EXCEPT !.regs = statsd.regs \ {call.entry}]
        BY Zenon, <2>2, <2>4 DEF Handled
      <3>2. statsd.regs \ {call.entry} \in SUBSET {Native(tag) : tag \in Tags}
        BY Zenon, <2>1
      <3> QED BY Zenon, <2>4, <3>1, <3>2
    <2> QED BY Zenon, <2>3, <2>4 DEF NativeCalls
  <1>4. /\ statsd' \in Statsds /\ statsd'.n = statsd.n /\ statsd'.up = statsd.up
        /\ call.op = "register" => statsd'.regs = statsd.regs \cup {call.entry}
        /\ call.op # "register" => statsd'.regs = statsd.regs \ {call.entry}
    BY Zenon, <1>1, <1>3 DEF Statsds
  <1>5. /\ inbox' \in Seq(NativeCalls)
        /\ \A i \in DOMAIN inbox' : i + 1 \in DOMAIN inbox /\ inbox'[i] = inbox[i + 1]
        /\ \A i \in DOMAIN inbox : i = 1 \/ (i - 1 \in DOMAIN inbox' /\ inbox'[i - 1] = inbox[i])
    BY <1>1
  <1>6. NativeTypeOK'
    BY Zenon, <1>4, <1>5 DEF NativeInv, NativeTypeOK, clientVars
  <1>7. ReferenceOK'
    BY Zenon, <1>4 DEF NativeInv, ReferenceOK, Alive, clientVars
  <1>8. UnregisterOK'
    BY <1>5 DEF NativeInv, UnregisterOK, clientVars
  <1>9. ASSUME ~gaveUp', NEW tag \in nPullers' \ cleared' PROVE WillGet(tag)' \/ WillReach(tag)'
    <2>1. WillGet(tag) \/ WillReach(tag)
      BY Zenon, <1>9 DEF NativeInv, Underway, clientVars
    <2>2. CASE WillGet(tag)
      BY Zenon, <2>2 DEF WillGet, clientVars
    <2>3. CASE WillReach(tag)
      <3>1. CASE Native(tag) \in statsd.regs
        <4>1. call.op # "register" => call.entry # Native(tag)
          BY <1>2, <1>9 DEF NativeInv, UnregisterOK, NativeCalls, Native, clientVars
        <4>2. Native(tag) \in statsd'.regs
          BY Zenon, <3>1, <4>1, <1>4
        <4> QED BY Zenon, <4>2, <2>3, <1>4 DEF WillReach, clientVars
      <3>2. CASE \E i \in DOMAIN inbox : inbox[i].op = "register" /\ inbox[i].entry = Native(tag)
        <4>1. PICK i \in DOMAIN inbox : inbox[i].op = "register" /\ inbox[i].entry = Native(tag)
          BY Zenon, <3>2
        <4>2. CASE i = 1
          <5>1. Native(tag) \in statsd'.regs
            BY Zenon, <4>1, <4>2, <1>2, <1>4
          <5> QED BY Zenon, <5>1, <2>3, <1>4 DEF WillReach, clientVars
        <4>3. CASE i # 1
          <5>1. \E j \in DOMAIN inbox' : inbox'[j].op = "register" /\ inbox'[j].entry = Native(tag)
            BY Zenon, <4>1, <4>3, <1>5
          <5> QED BY Zenon, <5>1, <2>3, <1>4 DEF WillReach, clientVars
        <4> QED BY Zenon, <4>2, <4>3
      <3> QED BY Zenon, <3>1, <3>2, <2>3, <1>4 DEF WillReach, clientVars
    <2> QED BY Zenon, <2>1, <2>2, <2>3
  <1> QED BY Zenon, <1>6, <1>7, <1>8, <1>9 DEF NativeInv, Underway

-----------------------------------------------------------------------------
(* The steps of the process.                                               *)

\* getStatsService that does not give up returns the running statsd, whose
\* death is now linked, or one whose binderDied will drop the reference.
LEMMA GetStep ==
    ASSUME NativeInv, GetStatsService, UNCHANGED statsd,
           \A d \in dying : d.at = "forget" => d \in dying'
    PROVE  /\ nStatsd' \in Nat /\ nLinked' \in SUBSET Nat /\ gaveUp' \in BOOLEAN
           /\ nLinked \subseteq nLinked' /\ (gaveUp => gaveUp')
           /\ ReferenceOK'
           /\ ~gaveUp' => \/ nStatsd' # 0 /\ nStatsd' = statsd.n /\ statsd.up /\ statsd.n \in nLinked'
                          \/ \E d \in dying : d.at = "forget"
  <1>1. /\ statsd.n \in Nat /\ statsd.up \in BOOLEAN /\ (statsd.up => statsd.n # 0)
        /\ nStatsd \in Nat /\ nLinked \in SUBSET Nat /\ gaveUp \in BOOLEAN /\ ReferenceOK
    BY Zenon DEF NativeInv, NativeTypeOK, Statsds
  <1>2. CASE nStatsd # 0
    <2>1. nStatsd' = nStatsd /\ nLinked' = nLinked /\ gaveUp' = gaveUp
      BY Zenon, <1>1, <1>2 DEF GetStatsService
    <2> QED BY Zenon, <1>1, <1>2, <2>1 DEF ReferenceOK, Alive
  <1>3. CASE nStatsd = 0 /\ statsd.up
    <2>1. nStatsd' = statsd.n /\ nLinked' = nLinked \cup {statsd.n} /\ gaveUp' = gaveUp
      BY Zenon, <1>1, <1>3 DEF GetStatsService, Lookup
    <2>2. statsd.n # 0 /\ statsd' = statsd
      BY Zenon, <1>1, <1>3
    <2>3. Alive(nStatsd)'
      BY Zenon, <1>3, <2>1, <2>2 DEF Alive
    <2>4. ReferenceOK'
      BY <1>1, <2>1, <2>2, <2>3 DEF ReferenceOK
    <2> QED BY Zenon, <1>1, <1>3, <2>1, <2>2, <2>4
  <1>4. CASE nStatsd = 0 /\ ~statsd.up
    <2>1. nStatsd' = 0 /\ nLinked' = nLinked /\ gaveUp' = TRUE
      BY Zenon, <1>1, <1>4 DEF GetStatsService, Lookup
    <2> QED BY Zenon, <1>1, <2>1 DEF ReferenceOK
  <1> QED BY Zenon, <1>1, <1>2, <1>3, <1>4

LEMMA SetStep ==
    ASSUME NativeInv, AStatsManager_setPullAtomCallback PROVE NativeInv'
  <1>1. PICK new \in Tags :
           /\ nPullers' = nPullers \cup {new}
           /\ threads' = Append(threads, [at |-> "get", op |-> "register", tag |-> new, statsd |-> 0])
    BY Zenon DEF AStatsManager_setPullAtomCallback
  <1>2. UNCHANGED <<statsd, inbox, nStatsd, dying, nLinked, cleared, gaveUp>>
    BY Zenon DEF AStatsManager_setPullAtomCallback, processVars
  <1>3. /\ threads' \in Seq(NativeThreads)
        /\ \A i \in DOMAIN threads : i \in DOMAIN threads' /\ threads'[i] = threads[i]
        /\ \A i \in DOMAIN threads' : i \in DOMAIN threads \/ threads'[i].op = "register"
        /\ \E i \in DOMAIN threads' : threads'[i].at = "get" /\ threads'[i].op = "register" /\ threads'[i].tag = new
    <2>1. threads \in Seq(NativeThreads)
      BY Zenon DEF NativeInv, NativeTypeOK
    <2>2. [at |-> "get", op |-> "register", tag |-> new, statsd |-> 0] \in NativeThreads
      BY Zenon DEF NativeThreads
    <2>3. threads'[Len(threads) + 1] = [at |-> "get", op |-> "register", tag |-> new, statsd |-> 0]
      BY <1>1, <2>1, <2>2
    <2> QED BY <1>1, <2>1, <2>2, <2>3
  <1>4. NativeTypeOK'
    BY Zenon, <1>1, <1>2, <1>3 DEF NativeInv, NativeTypeOK
  <1>5. ReferenceOK'
    BY Zenon, <1>2 DEF NativeInv, ReferenceOK, Alive
  <1>6. UnregisterOK'
    BY Zenon, <1>2, <1>3 DEF NativeInv, UnregisterOK
  <1>7. ASSUME ~gaveUp', NEW tag \in nPullers' \ cleared' PROVE WillGet(tag)' \/ WillReach(tag)'
    <2>1. CASE tag = new
      BY Zenon, <2>1, <1>3 DEF WillGet
    <2>2. CASE tag # new
      <3>1. WillGet(tag) \/ WillReach(tag)
        BY Zenon, <2>2, <1>1, <1>2, <1>7 DEF NativeInv, Underway
      <3>2. WillGet(tag) => WillGet(tag)'
        BY Zenon, <1>2, <1>3 DEF WillGet
      <3>3. WillReach(tag) => WillReach(tag)'
        BY <1>2, <1>3 DEF WillReach
      <3> QED BY Zenon, <3>1, <3>2, <3>3
    <2> QED BY Zenon, <2>1, <2>2
  <1> QED BY Zenon, <1>4, <1>5, <1>6, <1>7 DEF NativeInv, Underway

LEMMA ClearStep ==
    ASSUME NativeInv, AStatsManager_clearPullAtomCallback PROVE NativeInv'
  <1>1. PICK old \in nPullers :
           /\ nPullers' = nPullers \ {old} /\ cleared' = cleared \cup {old}
           /\ threads' = Append(threads, [at |-> "get", op |-> "unregister", tag |-> old, statsd |-> 0])
    BY Zenon DEF AStatsManager_clearPullAtomCallback
  <1>2. UNCHANGED <<statsd, inbox, nStatsd, dying, nLinked, gaveUp>> /\ old \in Tags
    BY Zenon DEF AStatsManager_clearPullAtomCallback, processVars, NativeInv, NativeTypeOK
  <1>3. /\ threads' \in Seq(NativeThreads)
        /\ \A i \in DOMAIN threads : i \in DOMAIN threads' /\ threads'[i] = threads[i]
        /\ \A i \in DOMAIN threads' : i \in DOMAIN threads \/ threads'[i].tag = old
    <2>1. threads \in Seq(NativeThreads)
      BY Zenon DEF NativeInv, NativeTypeOK
    <2>2. [at |-> "get", op |-> "unregister", tag |-> old, statsd |-> 0] \in NativeThreads
      BY Zenon, <1>2 DEF NativeThreads
    <2>3. threads'[Len(threads) + 1] = [at |-> "get", op |-> "unregister", tag |-> old, statsd |-> 0]
      BY <1>1, <2>1, <2>2
    <2> QED BY <1>1, <2>1, <2>2, <2>3
  <1>4. NativeTypeOK'
    BY Zenon, <1>1, <1>2, <1>3 DEF NativeInv, NativeTypeOK
  <1>5. ReferenceOK'
    BY Zenon, <1>2 DEF NativeInv, ReferenceOK, Alive
  <1>6. UnregisterOK'
    BY Zenon, <1>1, <1>2, <1>3 DEF NativeInv, UnregisterOK
  <1>7. ASSUME ~gaveUp', NEW tag \in nPullers' \ cleared' PROVE WillGet(tag)' \/ WillReach(tag)'
    <2>1. WillGet(tag) \/ WillReach(tag)
      BY Zenon, <1>1, <1>2, <1>7 DEF NativeInv, Underway
    <2>2. WillGet(tag) => WillGet(tag)'
      BY Zenon, <1>2, <1>3 DEF WillGet
    <2>3. WillReach(tag) => WillReach(tag)'
      BY <1>2, <1>3 DEF WillReach
    <2> QED BY Zenon, <2>1, <2>2, <2>3
  <1> QED BY Zenon, <1>4, <1>5, <1>6, <1>7 DEF NativeInv, Underway

\* A thread that gets statsd gets the running one, or a binderDied follows.
LEMMA ThreadGetsStep ==
    ASSUME NativeInv, ThreadGets PROVE NativeInv'
  <1>1. PICK i \in DOMAIN threads :
           /\ threads[i].at = "get" /\ GetStatsService
           /\ threads' = [threads EXCEPT ![i].at = IF nStatsd' = 0 THEN "done" ELSE "call",
                                         ![i].statsd = nStatsd']
    BY Zenon DEF ThreadGets
  <1>2. UNCHANGED <<statsd, inbox, nPullers, dying, cleared>>
    BY Zenon DEF ThreadGets, processVars
  <1>3. /\ nStatsd' \in Nat /\ nLinked' \in SUBSET Nat /\ gaveUp' \in BOOLEAN
        /\ nLinked \subseteq nLinked' /\ (gaveUp => gaveUp') /\ ReferenceOK'
        /\ ~gaveUp' => \/ nStatsd' # 0 /\ nStatsd' = statsd.n /\ statsd.up /\ statsd.n \in nLinked'
                       \/ \E d \in dying : d.at = "forget"
    BY Zenon, <1>1, <1>2, GetStep
  <1>4. /\ threads' \in Seq(NativeThreads) /\ DOMAIN threads' = DOMAIN threads
        /\ \A j \in DOMAIN threads : /\ threads'[j].op = threads[j].op /\ threads'[j].tag = threads[j].tag
                                     /\ j # i => threads'[j] = threads[j]
        /\ threads'[i].statsd = nStatsd' /\ (nStatsd' # 0 => threads'[i].at = "call")
    <2>1. threads \in Seq(NativeThreads)
      BY Zenon DEF NativeInv, NativeTypeOK
    <2>2. PICK place \in {"call", "done"} : place = (IF nStatsd' = 0 THEN "done" ELSE "call")
      BY Zenon
    <2>3. threads[i] \in NativeThreads
      BY <2>1
    <2>4. PICK new : new = [threads[i] EXCEPT !.at = place, !.statsd = nStatsd']
      BY Zenon
    <2>5. /\ new \in NativeThreads /\ new.op = threads[i].op /\ new.tag = threads[i].tag
          /\ new.statsd = nStatsd' /\ new.at = place
      BY Zenon, <2>3, <2>4, <1>3 DEF NativeThreads
    <2>6. threads' = [threads EXCEPT ![i] = new]
      BY Zenon, <1>1, <2>2, <2>4
    <2>7. /\ threads' \in Seq(NativeThreads) /\ DOMAIN threads' = DOMAIN threads /\ threads'[i] = new
          /\ \A j \in DOMAIN threads : j # i => threads'[j] = threads[j]
      BY <2>1, <2>5, <2>6
    <2> QED BY Zenon, <2>2, <2>5, <2>7
  <1>5. NativeTypeOK'
    BY Zenon, <1>2, <1>3, <1>4 DEF NativeInv, NativeTypeOK
  <1>6. UnregisterOK'
    BY Zenon, <1>2, <1>4 DEF NativeInv, UnregisterOK
  <1>7. ASSUME ~gaveUp', NEW tag \in nPullers' \ cleared' PROVE WillGet(tag)' \/ WillReach(tag)'
    <2>1. WillGet(tag) \/ WillReach(tag)
      BY Zenon, <1>2, <1>3, <1>7 DEF NativeInv, Underway
    <2>2. CASE WillReach(tag)
      <3>1. statsd.n \in nLinked'
        BY Zenon, <2>2, <1>3 DEF WillReach
      <3> QED BY Zenon, <2>2, <3>1, <1>1, <1>2, <1>4 DEF WillReach
    <2>3. CASE WillGet(tag)
      <3>1. CASE \E d \in dying : d.at \in {"forget", "get"}
        BY Zenon, <3>1, <1>2 DEF WillGet
      <3>2. CASE \E j \in DOMAIN threads : threads[j].at = "get" /\ threads[j].op = "register" /\ threads[j].tag = tag
        <4>1. PICK j \in DOMAIN threads : threads[j].at = "get" /\ threads[j].op = "register" /\ threads[j].tag = tag
          BY Zenon, <3>2
        <4>2. CASE j # i
          BY Zenon, <4>1, <4>2, <1>4 DEF WillGet
        <4>3. CASE j = i /\ \E d \in dying : d.at = "forget"
          BY Zenon, <4>3, <1>2 DEF WillGet
        <4>4. CASE j = i /\ ~ \E d \in dying : d.at = "forget"
          <5>1. nStatsd' # 0 /\ nStatsd' = statsd.n /\ statsd.up /\ statsd.n \in nLinked'
            BY Zenon, <4>4, <1>3, <1>7
          <5>2. /\ i \in DOMAIN threads' /\ threads'[i].at = "call" /\ threads'[i].op = "register"
                /\ threads'[i].tag = tag /\ threads'[i].statsd = statsd.n
            BY Zenon, <5>1, <4>1, <4>4, <1>4
          <5> QED BY Zenon, <5>1, <5>2, <1>2 DEF WillReach
        <4> QED BY Zenon, <4>2, <4>3, <4>4
      <3> QED BY Zenon, <2>3, <3>1, <3>2 DEF WillGet
    <2> QED BY Zenon, <2>1, <2>2, <2>3
  <1> QED BY Zenon, <1>3, <1>5, <1>6, <1>7 DEF NativeInv, Underway

\* What one call adds to the inbox of a statsd that is alive.
LEMMA InboxStep ==
    ASSUME inbox \in Seq(NativeCalls), NEW call \in NativeCalls, NEW alive \in BOOLEAN,
           inbox' = IF alive THEN Append(inbox, call) ELSE inbox
    PROVE  /\ inbox' \in Seq(NativeCalls)
           /\ \A i \in DOMAIN inbox : i \in DOMAIN inbox' /\ inbox'[i] = inbox[i]
           /\ \A i \in DOMAIN inbox' : i \in DOMAIN inbox \/ inbox'[i] = call
           /\ alive => \E i \in DOMAIN inbox' : inbox'[i] = call
  <1>1. CASE alive
    <2>1. inbox' = Append(inbox, call) /\ Len(inbox) + 1 \in DOMAIN inbox' /\ inbox'[Len(inbox) + 1] = call
      BY <1>1
    <2> QED BY <2>1
  <1>2. CASE ~alive
    BY Zenon, <1>2
  <1> QED BY Zenon, <1>1, <1>2

LEMMA ThreadCallsStep ==
    ASSUME NativeInv, ThreadCalls PROVE NativeInv'
  <1>1. PICK i \in DOMAIN threads :
           /\ threads[i].at = "call"
           /\ inbox' = IF Alive(threads[i].statsd)
                       THEN Append(inbox, [op |-> threads[i].op, entry |-> Native(threads[i].tag)]) ELSE inbox
           /\ threads' = [threads EXCEPT ![i].at = "done"]
    BY Zenon DEF ThreadCalls
  <1>2. UNCHANGED <<statsd, nStatsd, nPullers, dying, nLinked, cleared, gaveUp>>
    BY Zenon DEF ThreadCalls
  <1>3. threads \in Seq(NativeThreads) /\ threads[i] \in NativeThreads /\ inbox \in Seq(NativeCalls)
    BY DEF NativeInv, NativeTypeOK
  <1>4. PICK call : call = [op |-> threads[i].op, entry |-> Native(threads[i].tag)]
    BY Zenon
  <1>5. call \in NativeCalls /\ call.op = threads[i].op /\ call.entry = Native(threads[i].tag)
    BY Zenon, <1>3, <1>4 DEF NativeCalls, NativeThreads
  <1>6. /\ inbox' \in Seq(NativeCalls)
        /\ \A j \in DOMAIN inbox : j \in DOMAIN inbox' /\ inbox'[j] = inbox[j]
        /\ \A j \in DOMAIN inbox' : j \in DOMAIN inbox \/ inbox'[j] = call
        /\ Alive(threads[i].statsd) => \E j \in DOMAIN inbox' : inbox'[j] = call
    <2>1. PICK alive \in BOOLEAN : alive <=> Alive(threads[i].statsd)
      BY Zenon DEF Alive
    <2>2. inbox' = IF alive THEN Append(inbox, call) ELSE inbox
      BY Zenon, <2>1, <1>1, <1>4
    <2> QED BY Zenon, <2>1, <2>2, <1>3, <1>5, InboxStep
  <1>7. /\ threads' \in Seq(NativeThreads) /\ DOMAIN threads' = DOMAIN threads
        /\ \A j \in DOMAIN threads : threads'[j].op = threads[j].op /\ threads'[j].tag = threads[j].tag
        /\ \A j \in DOMAIN threads : j # i => threads'[j] = threads[j]
    <2>1. PICK new : new = [threads[i] EXCEPT !.at = "done"]
      BY Zenon
    <2>2. new \in NativeThreads /\ new.op = threads[i].op /\ new.tag = threads[i].tag
      BY Zenon, <2>1, <1>3 DEF NativeThreads
    <2>3. threads' = [threads EXCEPT ![i] = new]
      BY Zenon, <1>1, <2>1
    <2> QED BY <1>3, <2>2, <2>3
  <1>8. NativeTypeOK'
    BY Zenon, <1>2, <1>6, <1>7 DEF NativeInv, NativeTypeOK
  <1>9. ReferenceOK'
    BY Zenon, <1>2 DEF NativeInv, ReferenceOK, Alive
  <1>10. UnregisterOK'
    <2>1. \A j \in DOMAIN threads' : threads'[j].op = "unregister" => threads'[j].tag \in cleared'
      BY Zenon, <1>2, <1>7 DEF NativeInv, UnregisterOK
    <2>2. call.op = "unregister" => \E tag \in cleared : call.entry = Native(tag)
      BY Zenon, <1>5 DEF NativeInv, UnregisterOK
    <2>3. \A j \in DOMAIN inbox' : inbox'[j].op = "unregister" =>
             \E tag \in cleared' : inbox'[j].entry = Native(tag)
      BY Zenon, <2>2, <1>2, <1>6 DEF NativeInv, UnregisterOK
    <2> QED BY Zenon, <2>1, <2>3 DEF UnregisterOK
  <1>11. ASSUME ~gaveUp', NEW tag \in nPullers' \ cleared' PROVE WillGet(tag)' \/ WillReach(tag)'
    <2>1. WillGet(tag) \/ WillReach(tag)
      BY Zenon, <1>2, <1>11 DEF NativeInv, Underway
    <2>2. CASE WillGet(tag)
      BY Zenon, <2>2, <1>1, <1>2, <1>7 DEF WillGet
    <2>3. CASE WillReach(tag)
      <3>1. CASE /\ threads[i].op = "register" /\ threads[i].tag = tag /\ threads[i].statsd = statsd.n
        <4>1. Alive(threads[i].statsd)
          BY Zenon, <2>3, <3>1 DEF Alive, WillReach, NativeInv, NativeTypeOK
        <4>2. \E j \in DOMAIN inbox' : inbox'[j].op = "register" /\ inbox'[j].entry = Native(tag)
          BY Zenon, <4>1, <3>1, <1>5, <1>6
        <4> QED BY Zenon, <4>2, <2>3, <1>2 DEF WillReach
      <3>2. CASE ~(threads[i].op = "register" /\ threads[i].tag = tag /\ threads[i].statsd = statsd.n)
        BY <2>3, <3>2, <1>2, <1>6, <1>7 DEF WillReach
      <3> QED BY Zenon, <3>1, <3>2
    <2> QED BY Zenon, <2>1, <2>2, <2>3
  <1> QED BY Zenon, <1>8, <1>9, <1>10, <1>11 DEF NativeInv, Underway

\* binderDied drops the reference, and is still to get statsd.
LEMMA DiedForgetsStep ==
    ASSUME NativeInv, DiedForgets PROVE NativeInv'
  <1>1. PICK d \in dying : d.at = "forget" /\ dying' = (dying \ {d}) \cup {[d EXCEPT !.at = "get"]}
    BY Zenon DEF DiedForgets
  <1>2. nStatsd' = 0 /\ UNCHANGED <<statsd, inbox, nPullers, threads, nLinked, cleared, gaveUp>>
    BY Zenon DEF DiedForgets, Forget, processVars
  <1>3. PICK new \in Deaths : new.at = "get" /\ dying' = (dying \ {d}) \cup {new}
    BY Zenon, <1>1 DEF NativeInv, NativeTypeOK, Deaths
  <1>4. NativeTypeOK'
    BY Zenon, <1>2, <1>3 DEF NativeInv, NativeTypeOK
  <1>5. ReferenceOK'
    BY Zenon, <1>2 DEF ReferenceOK
  <1>6. UnregisterOK'
    BY Zenon, <1>2 DEF NativeInv, UnregisterOK
  <1>7. Underway'
    BY Zenon, <1>3 DEF Underway, WillGet
  <1> QED BY Zenon, <1>4, <1>5, <1>6, <1>7 DEF NativeInv

LEMMA DiedGetsStep ==
    ASSUME NativeInv, DiedGets PROVE NativeInv'
  <1>1. PICK d \in dying :
           /\ d.at = "get" /\ GetStatsService
           /\ dying' = (dying \ {d}) \cup
                       (IF nStatsd' = 0 THEN {} ELSE {[d EXCEPT !.at = "copy", !.statsd = nStatsd']})
    BY Zenon DEF DiedGets
  <1>2. UNCHANGED <<statsd, inbox, nPullers, threads, cleared>> /\ d \in Deaths /\ dying \in SUBSET Deaths
    BY Zenon DEF DiedGets, processVars, NativeInv, NativeTypeOK
  <1>3. /\ nStatsd' \in Nat /\ nLinked' \in SUBSET Nat /\ gaveUp' \in BOOLEAN
        /\ nLinked \subseteq nLinked' /\ (gaveUp => gaveUp') /\ ReferenceOK'
        /\ ~gaveUp' => \/ nStatsd' # 0 /\ nStatsd' = statsd.n /\ statsd.up /\ statsd.n \in nLinked'
                       \/ \E e \in dying : e.at = "forget"
    <2>1. \A e \in dying : e.at = "forget" => e \in dying'
      BY Zenon, <1>1
    <2> QED BY Zenon, <1>1, <1>2, <2>1, GetStep
  <1>4. PICK new : new = [d EXCEPT !.at = "copy", !.statsd = nStatsd']
    BY Zenon
  <1>5. new \in Deaths /\ new.at = "copy" /\ new.statsd = nStatsd'
    BY Zenon, <1>2, <1>3, <1>4 DEF Deaths
  <1>6. /\ dying' \in SUBSET Deaths /\ (nStatsd' # 0 => new \in dying')
        /\ \A e \in dying : e = d \/ e \in dying'
    BY Zenon, <1>1, <1>2, <1>4, <1>5
  <1>7. NativeTypeOK'
    BY Zenon, <1>2, <1>3, <1>6 DEF NativeInv, NativeTypeOK
  <1>8. UnregisterOK'
    BY Zenon, <1>2 DEF NativeInv, UnregisterOK
  <1>9. ASSUME ~gaveUp', NEW tag \in nPullers' \ cleared' PROVE WillGet(tag)' \/ WillReach(tag)'
    <2>1. CASE \E e \in dying : e.at = "forget"
      BY Zenon, <2>1, <1>1, <1>6 DEF WillGet
    <2>2. CASE nStatsd' # 0 /\ nStatsd' = statsd.n /\ statsd.up /\ statsd.n \in nLinked'
      BY Zenon, <2>2, <1>2, <1>5, <1>6 DEF WillReach
    <2> QED BY Zenon, <2>1, <2>2, <1>3, <1>9
  <1> QED BY Zenon, <1>3, <1>7, <1>8, <1>9 DEF NativeInv, Underway

LEMMA DiedCopiesStep ==
    ASSUME NativeInv, DiedCopies PROVE NativeInv'
  <1>1. PICK d \in dying :
           d.at = "copy" /\ dying' = (dying \ {d}) \cup {[d EXCEPT !.at = "call", !.todo = nPullers]}
    BY Zenon DEF DiedCopies
  <1>2. /\ UNCHANGED <<statsd, inbox, nStatsd, nPullers, threads, nLinked, cleared, gaveUp>>
        /\ d \in Deaths /\ nPullers \in SUBSET Tags
    BY Zenon DEF DiedCopies, processVars, NativeInv, NativeTypeOK
  <1>3. PICK new : new = [d EXCEPT !.at = "call", !.todo = nPullers]
    BY Zenon
  <1>4. new \in Deaths /\ new.at = "call" /\ new.todo = nPullers /\ new.statsd = d.statsd
    BY Zenon, <1>2, <1>3 DEF Deaths
  <1>5. dying' = (dying \ {d}) \cup {new}
    BY Zenon, <1>1, <1>3
  <1>6. NativeTypeOK'
    BY Zenon, <1>2, <1>4, <1>5 DEF NativeInv, NativeTypeOK
  <1>7. ReferenceOK'
    BY Zenon, <1>1, <1>2, <1>5 DEF NativeInv, ReferenceOK, Alive
  <1>8. UnregisterOK'
    BY Zenon, <1>2 DEF NativeInv, UnregisterOK
  <1>9. ASSUME ~gaveUp', NEW tag \in nPullers' \ cleared' PROVE WillGet(tag)' \/ WillReach(tag)'
    <2>1. WillGet(tag) \/ WillReach(tag)
      BY Zenon, <1>2, <1>9 DEF NativeInv, Underway
    <2>2. CASE WillGet(tag)
      BY Zenon, <2>2, <1>1, <1>2, <1>5 DEF WillGet
    <2>3. CASE WillReach(tag)
      <3>1. CASE d.statsd = statsd.n
        BY Zenon, <2>3, <3>1, <1>2, <1>4, <1>5, <1>9 DEF WillReach
      <3>2. CASE d.statsd # statsd.n
        BY Zenon, <2>3, <3>2, <1>1, <1>2, <1>5 DEF WillReach
      <3> QED BY Zenon, <3>1, <3>2
    <2> QED BY Zenon, <2>1, <2>2, <2>3
  <1> QED BY Zenon, <1>6, <1>7, <1>8, <1>9 DEF NativeInv, Underway

\* binderDied that has registered everything.
LEMMA DiedEndsStep ==
    ASSUME NativeInv, NEW d \in dying, d.at = "call", d.todo = {}, dying' = dying \ {d},
           UNCHANGED <<statsd, inbox, nStatsd, nPullers, threads, nLinked, cleared, gaveUp>>
    PROVE  NativeInv'
  <1>1. NativeTypeOK' /\ ReferenceOK' /\ UnregisterOK'
    BY Zenon DEF NativeInv, NativeTypeOK, ReferenceOK, Alive, UnregisterOK
  <1>2. \A tag : (WillGet(tag) => WillGet(tag)') /\ (WillReach(tag) => WillReach(tag)')
    BY Zenon DEF WillGet, WillReach
  <1> QED BY Zenon, <1>1, <1>2 DEF NativeInv, Underway

\* binderDied registers one more atom with the statsd it got.
LEMMA DiedCallsStep ==
    ASSUME NativeInv, NEW d \in dying, d.at = "call", NEW atom \in d.todo,
           dying' = (dying \ {d}) \cup {[d EXCEPT !.todo = @ \ {atom}]},
           inbox' = IF Alive(d.statsd) THEN Append(inbox, [op |-> "register", entry |-> Native(atom)]) ELSE inbox,
           UNCHANGED <<statsd, nStatsd, nPullers, threads, nLinked, cleared, gaveUp>>
    PROVE  NativeInv'
  <1>1. d \in Deaths /\ inbox \in Seq(NativeCalls) /\ atom \in Tags
    BY Zenon DEF NativeInv, NativeTypeOK, Deaths
  <1>2. PICK call : call = [op |-> "register", entry |-> Native(atom)]
    BY Zenon
  <1>3. call \in NativeCalls /\ call.op = "register" /\ call.entry = Native(atom)
    BY Zenon, <1>1, <1>2 DEF NativeCalls
  <1>4. /\ inbox' \in Seq(NativeCalls)
        /\ \A j \in DOMAIN inbox : j \in DOMAIN inbox' /\ inbox'[j] = inbox[j]
        /\ \A j \in DOMAIN inbox' : j \in DOMAIN inbox \/ inbox'[j] = call
        /\ Alive(d.statsd) => \E j \in DOMAIN inbox' : inbox'[j] = call
    <2>1. PICK alive \in BOOLEAN : alive <=> Alive(d.statsd)
      BY Zenon DEF Alive
    <2>2. inbox' = IF alive THEN Append(inbox, call) ELSE inbox
      BY Zenon, <2>1, <1>2
    <2> QED BY Zenon, <2>1, <2>2, <1>1, <1>3, InboxStep
  <1>5. PICK new : new = [d EXCEPT !.todo = d.todo \ {atom}]
    BY Zenon
  <1>6. new \in Deaths /\ new.at = "call" /\ new.todo = d.todo \ {atom} /\ new.statsd = d.statsd
    BY Zenon, <1>1, <1>5 DEF Deaths
  <1>7. dying' = (dying \ {d}) \cup {new}
    BY Zenon, <1>5
  <1>8. NativeTypeOK'
    BY Zenon, <1>4, <1>6, <1>7 DEF NativeInv, NativeTypeOK
  <1>9. ReferenceOK'
    BY Zenon, <1>7 DEF NativeInv, ReferenceOK, Alive
  <1>10. UnregisterOK'
    BY <1>3, <1>4 DEF NativeInv, UnregisterOK
  <1>11. ASSUME ~gaveUp', NEW tag \in nPullers' \ cleared' PROVE WillGet(tag)' \/ WillReach(tag)'
    <2>1. WillGet(tag) \/ WillReach(tag)
      BY Zenon, <1>11 DEF NativeInv, Underway
    <2>2. CASE WillGet(tag)
      BY Zenon, <2>2, <1>7 DEF WillGet
    <2>3. CASE WillReach(tag) /\ atom = tag /\ d.statsd = statsd.n
      <3>1. Alive(d.statsd)
        BY Zenon, <2>3 DEF Alive, WillReach, NativeInv, NativeTypeOK
      <3>2. \E j \in DOMAIN inbox' : inbox'[j].op = "register" /\ inbox'[j].entry = Native(tag)
        BY <3>1, <2>3, <1>3, <1>4
      <3> QED BY Zenon, <3>2, <2>3 DEF WillReach
    <2>4. CASE WillReach(tag) /\ ~(atom = tag /\ d.statsd = statsd.n)
      <3>1. CASE \E e \in dying : e.at = "call" /\ e.statsd = statsd.n /\ tag \in e.todo
        <4>1. PICK e \in dying : e.at = "call" /\ e.statsd = statsd.n /\ tag \in e.todo
          BY Zenon, <3>1
        <4>2. \E f \in dying' : f.at = "call" /\ f.statsd = statsd.n /\ tag \in f.todo
          BY Zenon, <4>1, <2>4, <1>6, <1>7
        <4> QED BY Zenon, <4>2, <2>4 DEF WillReach
      <3>2. CASE ~ \E e \in dying : e.at = "call" /\ e.statsd = statsd.n /\ tag \in e.todo
        BY <3>2, <2>4, <1>4, <1>7 DEF WillReach
      <3> QED BY Zenon, <3>1, <3>2
    <2> QED BY Zenon, <2>1, <2>2, <2>3, <2>4
  <1> QED BY Zenon, <1>8, <1>9, <1>10, <1>11 DEF NativeInv, Underway

-----------------------------------------------------------------------------
(* The whole.                                                              *)

LEMMA NativeStep ==
    ASSUME NativeInv, NativeSide PROVE NativeInv'
  <1>1. CASE ClientNext
    <2>1. CASE DiedRegisters
      <3>1. PICK d \in dying :
               /\ d.at = "call"
               /\ IF d.todo = {}
                  THEN dying' = dying \ {d} /\ UNCHANGED inbox
                  ELSE \E tag \in d.todo :
                       /\ dying' = (dying \ {d}) \cup {[d EXCEPT !.todo = @ \ {tag}]}
                       /\ inbox' = IF Alive(d.statsd)
                                   THEN Append(inbox, [op |-> "register", entry |-> Native(tag)]) ELSE inbox
        BY Zenon, <2>1 DEF DiedRegisters
      <3>2. UNCHANGED <<statsd, nStatsd, nPullers, threads, nLinked, cleared, gaveUp>>
        BY Zenon, <2>1 DEF DiedRegisters
      <3>3. CASE d.todo = {}
        BY Zenon, <3>1, <3>2, <3>3, DiedEndsStep
      <3>4. CASE d.todo # {}
        <4>1. PICK tag \in d.todo :
                 /\ dying' = (dying \ {d}) \cup {[d EXCEPT !.todo = @ \ {tag}]}
                 /\ inbox' = IF Alive(d.statsd)
                             THEN Append(inbox, [op |-> "register", entry |-> Native(tag)]) ELSE inbox
          BY Zenon, <3>1, <3>4
        <4> QED BY Zenon, <3>1, <3>2, <4>1, DiedCallsStep
      <3> QED BY Zenon, <3>3, <3>4
    <2> QED BY Zenon, <1>1, <2>1, SetStep, ClearStep, ThreadGetsStep, ThreadCallsStep, DiedForgetsStep,
               DiedGetsStep, DiedCopiesStep DEF ClientNext
  <1>2. CASE (StatsdStarts \/ StatsdHandles) /\ UNCHANGED clientVars
    BY Zenon, <1>2, StartStep, HandleStep
  <1>3. CASE NativeStatsdDies
    BY Zenon, <1>3, DeathStep
  <1> QED BY Zenon, <1>1, <1>2, <1>3 DEF NativeSide

\* The system server's side does not change which side is explored.
LEMMA JavaKeepsWorld ==
    ASSUME Java PROVE world' = world /\ nPullers' = nPullers
  <1>1. nPullers' = nPullers
    BY Zenon DEF Java, clientVars
  <1>2. ASSUME CompanionNext PROVE world' = world
    <2>1. CASE Publish \/ systemReady \/ CompanionHandles \/ PostUids \/ WriteUids
      BY Zenon, <2>1 DEF Publish, systemReady, CompanionHandles, PostUids, WriteUids, companionVars
    <2>2. CASE \E t \in DOMAIN hi : Hi(t)
      <3>1. PICK t \in DOMAIN hi : Hi(t)
        BY Zenon, <2>2
      <3> QED BY Zenon, <3>1 DEF Hi, FetchStatsd, CancelAlarms, ManagerReady, CopyEntries, SendEntries,
                          IterationThrows, CallCompanionReady, RegisterReceivers, LinkToDeath, TellBootAndUids
    <2>3. CASE binderDied \/ DayPasses \/ bootCompleted \/ TellBoot \/ PackageChanges \/ AppUpdate
      BY Zenon, <2>3 DEF binderDied, DayPasses, bootCompleted, TellBoot, PackageChanges, AppUpdate
    <2>4. CASE ClientCalls \/ ClientCaches \/ ClientReadsStatsd \/ ClientTells
      BY Zenon, <2>4 DEF ClientCalls, ClientCaches, ClientReadsStatsd, ClientTells
    <2> QED BY Zenon, <1>2, <2>1, <2>2, <2>3, <2>4 DEF CompanionNext
  <1>3. ASSUME UNCHANGED companionVars PROVE world' = world
    BY Zenon, <1>3 DEF companionVars
  <1>4. ASSUME StatsdDies PROVE world' = world
    BY Zenon, <1>4 DEF StatsdDies
  <1> QED BY Zenon, <1>1, <1>2, <1>3, <1>4 DEF Java

LEMMA NativeInitially ==
    ASSUME Init PROVE IInv
  <1>1. statsd \in Statsds /\ ~statsd.up
    <2>1. Started(0) \in Statsds
      BY Zenon DEF Started, Statsds
    <2>2. statsd = [Started(0) EXCEPT !.up = FALSE, !.greet = FALSE]
      BY Zenon DEF Init, ProcessInit, NotStarted
    <2> QED BY Zenon, <2>1, <2>2 DEF Statsds
  <1>2. NativeTypeOK
    <2>1. inbox = <<>> /\ threads = <<>>
      BY Zenon DEF Init, ProcessInit, ClientInit
    <2>2. inbox \in Seq(NativeCalls) /\ threads \in Seq(NativeThreads)
      BY <2>1
    <2> QED BY Zenon, <1>1, <2>2 DEF Init, ClientInit, NativeTypeOK
  <1>3. ReferenceOK /\ UnregisterOK /\ Underway /\ nPullers = {}
    BY DEF Init, ProcessInit, ClientInit, ReferenceOK, UnregisterOK, Underway
  <1> QED BY Zenon, <1>2, <1>3 DEF IInv, NativeInv

LEMMA NativeNext ==
    ASSUME IInv, [Next]_clientsVars PROVE IInv'
  <1>1. CASE Java
    <2>1. world.side # "native" /\ nPullers = {}
      BY Zenon, <1>1 DEF Java, IInv
    <2> QED BY Zenon, <1>1, <2>1, JavaKeepsWorld DEF IInv
  <1>2. CASE NativeSide
    <2>1. world.side = "native" /\ NativeInv /\ world' = world
      BY Zenon, <1>2 DEF NativeSide, IInv, companionVars
    <2>2. NativeInv'
      BY Zenon, <1>2, <2>1, NativeStep
    <2> QED BY Zenon, <2>1, <2>2 DEF IInv
  <1>3. CASE UNCHANGED clientsVars
    <2>1. /\ world' = world
          /\ UNCHANGED <<statsd, inbox, nStatsd, nPullers, threads, dying, nLinked, cleared, gaveUp>>
      BY Zenon, <1>3 DEF clientsVars, processVars, companionVars, clientVars
    <2>2. NativeTypeOK = NativeTypeOK' /\ ReferenceOK = ReferenceOK' /\ UnregisterOK = UnregisterOK'
      BY Zenon, <2>1, Zenon DEF NativeTypeOK, ReferenceOK, UnregisterOK, Alive
    <2>3. ASSUME NEW tag PROVE (WillGet(tag) => WillGet(tag)') /\ (WillReach(tag) => WillReach(tag)')
      BY Zenon, <2>1 DEF WillGet, WillReach
    <2>4. Underway => Underway'
      BY Zenon, <2>1, <2>3 DEF Underway
    <2> QED BY Zenon, <2>1, <2>2, <2>4 DEF IInv, NativeInv
  <1> QED BY Zenon, <1>1, <1>2, <1>3 DEF Next

\* A registration that is under way when nothing is under way has arrived.
LEMMA NativeArrived ==
    ASSUME IInv PROVE NativeKept
  <1> SUFFICES ASSUME ~gaveUp, inbox = <<>>, dying = {}, \A i \in DOMAIN threads : threads[i].at = "done",
                      NEW tag \in nPullers \ cleared
               PROVE  Native(tag) \in statsd.regs
    BY Zenon DEF NativeKept
  <1>1. ~WillGet(tag) /\ (WillGet(tag) \/ WillReach(tag))
    BY Zenon DEF IInv, NativeInv, Underway, WillGet
  <1> QED BY <1>1 DEF WillReach

\* An atom that a native process has offered and never withdrawn is, once
\* nothing is under way, registered with the statsd that runs: set and clear
\* calls, getStatsService and binderDied of stats_pull_atom_callback.cpp, for
\* any atoms, any number of threads and any number of deaths of statsd.
THEOREM NativeRegistrationsKept == Spec => []NativeKept
  <1>1. Init => IInv
    BY Zenon, NativeInitially
  <1>2. IInv /\ [Next]_clientsVars => IInv'
    BY Zenon, NativeNext
  <1>3. IInv => NativeKept
    BY Zenon, NativeArrived
  <1> QED BY <1>1, <1>2, <1>3, PTL DEF Spec
=============================================================================
