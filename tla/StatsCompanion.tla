--------------------------- MODULE StatsCompanion ---------------------------
(***************************************************************************)
(* The system server's side of statsd: StatsCompanionService, which greets *)
(* every statsd that starts, keeps its alarms and forwards what happens to *)
(* packages, and StatsManagerService, which keeps what the clients have    *)
(* registered and registers it again.                                      *)
(*                                                                         *)
(* sayHiToStatsd runs in the thread of systemReady or in the binder thread *)
(* of statsdReady, mostly without a lock; statsd may die at any point of   *)
(* it.  What is under sStatsdLock or mLock is one step.                    *)
(***************************************************************************)
EXTENDS StatsdProcess

CONSTANTS Kinds,       \* what clients register, in the order in which
                       \* sayHiToStatsd registers it again
          MILLIS_IN_A_DAY, DEATH_THRESHOLD,
          Worlds       \* bounds, in different combinations: the processes
                       \* on one side of statsd, starts of statsd (the first
                       \* `calm' die when no call is under way), calls of
                       \* clients, changes of packages, whether the boot
                       \* completes, whether statsd sets alarms, days

\* registerAllPullers is among what sayHiToStatsd does.
ASSUME CompanionAssumption ==
    /\ None \notin Nat
    /\ Kinds \in Seq(STRING) /\ \E i \in DOMAIN Kinds : Kinds[i] = "puller"

VARIABLES hi,          \* the two threads that may run sayHiToStatsd
          sStatsd,     \* StatsCompanionService.sStatsd
          mStatsd,     \* StatsManagerService.mStatsd
          entries,     \* mPullers, mDataFetchPirMap, mActiveConfigsPirMap and
                       \* mBroadcastSubscriberPirMap: the kinds registered
          client,      \* a client's call in StatsManagerService
          alarm,       \* who set the alarm that AlarmManager holds, 0: none
          receivers,   \* broadcast receivers, by the statsd they are for
          linked,      \* incarnations whose death is watched
          died,        \* incarnations whose binderDied is to be called
          mBootCompleted, boot,  \* flag, and the thread that sets it
          uidThreads,  \* background threads of informAllUids
          packages, broadcast,   \* version of the packages, broadcast under way
          calls,       \* bound: client calls so far
          deaths,      \* what binderDied remembers of earlier deaths, the clock,
                       \* and how many config files statsd has
          leaked,      \* history: incarnations whose binderDied threw
          mishaps,     \* history: the rare events after which the two sides
                       \* are not connected, see the properties
          world        \* the one of Worlds explored

companionVars == <<hi, sStatsd, mStatsd, entries, client, alarm, receivers, linked, died,
                   mBootCompleted, boot, uidThreads, packages, broadcast, calls, mishaps, world,
                   deaths, leaked>>

Resting == [at |-> "idle"]

CompanionInit ==
    /\ hi = [main |-> [at |-> "unborn"], binder |-> Resting]
    /\ sStatsd = 0 /\ mStatsd = 0 /\ entries = {} /\ client = Resting
    /\ alarm = 0 /\ receivers = {} /\ linked = {} /\ died = {}
    /\ mBootCompleted = FALSE /\ boot = Resting
    /\ uidThreads = {} /\ packages = 1 /\ broadcast = FALSE /\ calls = 0 /\ mishaps = {}
    /\ deaths = [mDeathTimeMillis |-> {}, mDeletedFiles |-> {}, elapsed |-> 0, configs |-> 2]
    /\ leaked = {}
    /\ world \in Worlds

\* The service is published when it is created, before systemReady.
Publish == /\ ~published /\ published' = TRUE
           /\ UNCHANGED <<statsd, inbox, toCompanion, companionVars>>

systemReady ==
    /\ published /\ hi["main"].at = "unborn"
    /\ hi' = [hi EXCEPT !["main"] = [at |-> "fetch"]]
    /\ UNCHANGED <<processVars, sStatsd, mStatsd, entries, client, alarm, receivers, linked, died,
                   mBootCompleted, boot, uidThreads, packages, broadcast, calls, mishaps, world, deaths, leaked>>

\* One-way calls from statsd, handled in order.
CompanionHandles ==
    /\ toCompanion # <<>> /\ hi["binder"] = Resting
    /\ toCompanion' = Tail(toCompanion)
    /\ IF Head(toCompanion).op = "setAlarm"
       THEN alarm' = Head(toCompanion).by /\ hi' = hi
       ELSE alarm' = alarm /\ hi' = [hi EXCEPT !["binder"] = [at |-> "fetch"]]
    /\ UNCHANGED <<statsd, inbox, published, sStatsd, mStatsd, entries, client, receivers, linked,
                   died, mBootCompleted, boot, uidThreads, packages, broadcast, calls, mishaps, world, deaths, leaked>>

-----------------------------------------------------------------------------
(* sayHiToStatsd, step by step.                                            *)

Goes(t, place) == hi' = [hi EXCEPT ![t].at = place]

Greets(t) == hi[t].at \notin {"unborn", "idle", "fetch"}

\* The locked part: nothing to do for a statsd that is known and alive.
FetchStatsd(t) ==
    /\ hi[t].at = "fetch"
    /\ sStatsd' = IF Alive(sStatsd) THEN sStatsd ELSE Lookup
    /\ hi' = [hi EXCEPT ![t] = IF Alive(sStatsd) \/ Lookup = 0 THEN Resting
                               ELSE [at |-> "cancel", statsd |-> Lookup, kind |-> 1, todo |-> FALSE]]
    /\ mishaps' = IF Greets(t)' /\ \E u \in DOMAIN hi \ {t} : Greets(u)
                  THEN mishaps \cup {"twoGreetings"} ELSE mishaps
    /\ UNCHANGED <<processVars, mStatsd, entries, client, alarm, receivers, linked, died,
                   mBootCompleted, boot, uidThreads, packages, broadcast, calls, world, deaths, leaked>>

\* cancelAnomalyAlarm, cancelPullingAlarm, cancelAlarmForSubscriberTriggering.
CancelAlarms(t) ==
    /\ hi[t].at = "cancel"
    /\ alarm' = 0
    /\ Goes(t, "ready")
    /\ UNCHANGED <<processVars, sStatsd, mStatsd, entries, client, receivers, linked, died,
                   mBootCompleted, boot, uidThreads, packages, broadcast, calls, mishaps, world, deaths, leaked>>

\* StatsManagerService.statsdReady.
ManagerReady(t) ==
    /\ hi[t].at = "ready"
    /\ mStatsd' = hi[t].statsd
    /\ Goes(t, "copy")
    /\ UNCHANGED <<processVars, sStatsd, entries, client, alarm, receivers, linked, died,
                   mBootCompleted, boot, uidThreads, packages, broadcast, calls, mishaps, world, deaths, leaked>>

\* registerAllPullers and the three that follow: a copy of the map is made
\* with the lock held.
CopyEntries(t) ==
    /\ hi[t].at = "copy"
    /\ hi' = [hi EXCEPT ![t].at = "send", ![t].todo = Kinds[hi[t].kind] \in entries]
    /\ UNCHANGED <<processVars, sStatsd, mStatsd, entries, client, alarm, receivers, linked, died,
                   mBootCompleted, boot, uidThreads, packages, broadcast, calls, mishaps, world, deaths, leaked>>

\* registerAllBroadcastSubscribers makes the copy too, but then iterates over
\* the map itself without the lock.
SendsCopy(k) == k # "subscriber"

\* A registration call: pullers by one-way calls, the rest by two-way calls.
OneWay(k) == k = "puller"
Tell(op, k) ==
    IF OneWay(k) THEN inbox' = Append(inbox, [op |-> op, entry |-> k]) /\ UNCHANGED statsd
    ELSE statsd' = Handled(statsd, [op |-> op, entry |-> k]) /\ UNCHANGED inbox

\* The calls for one kind.  Pullers are followed by
\* allPullersFromBootRegistered.  When statsd has died the call throws and
\* the remaining kinds are skipped.
SendEntries(t) ==
    LET k == Kinds[hi[t].kind]
        send == IF SendsCopy(k) THEN hi[t].todo ELSE k \in entries
        last == hi[t].kind = Len(Kinds)
    IN /\ hi[t].at = "send"
       /\ IF (send \/ k = "puller") /\ ~Alive(hi[t].statsd)
          THEN Goes(t, "companionReady") /\ UNCHANGED <<statsd, inbox>>
          ELSE /\ hi' = [hi EXCEPT ![t].at = IF last THEN "companionReady" ELSE "copy",
                                   ![t].kind = @ + 1]
               /\ IF k = "puller"
                  THEN /\ inbox' = inbox \o (IF send THEN <<[op |-> "register", entry |-> k]>> ELSE <<>>)
                                         \o <<[op |-> "allPullersFromBootRegistered"]>>
                       /\ UNCHANGED statsd
                  ELSE IF send THEN Tell("register", k) ELSE UNCHANGED <<statsd, inbox>>
       /\ UNCHANGED <<toCompanion, published, sStatsd, mStatsd, entries, client, alarm, receivers,
                      linked, died, mBootCompleted, boot, uidThreads, packages, broadcast, calls, mishaps, world, deaths, leaked>>

\* A map that another thread changes while it is iterated over may throw,
\* and nobody on the way catches that: the greeting ends here.
IterationThrows(t) ==
    /\ hi[t].at = "send" /\ ~SendsCopy(Kinds[hi[t].kind])
    /\ hi[t].todo # (Kinds[hi[t].kind] \in entries)
    /\ hi' = [hi EXCEPT ![t] = Resting]
    /\ mishaps' = mishaps \cup {"iterationThrew"}
    /\ UNCHANGED <<processVars, sStatsd, mStatsd, entries, client, alarm, receivers, linked, died,
                   mBootCompleted, boot, uidThreads, packages, broadcast, calls, world, deaths, leaked>>

\* statsd.statsCompanionReady(), a two-way call, which throws if statsd died.
CallCompanionReady(t) ==
    /\ hi[t].at = "companionReady"
    /\ IF Alive(hi[t].statsd)
       THEN statsd' = [statsd EXCEPT !.companion = TRUE] /\ Goes(t, "receivers")
       ELSE UNCHANGED statsd /\ hi' = [hi EXCEPT ![t] = Resting]
    /\ UNCHANGED <<inbox, toCompanion, published, sStatsd, mStatsd, entries, client, alarm, receivers,
                   linked, died, mBootCompleted, boot, uidThreads, packages, broadcast, calls, mishaps, world, deaths, leaked>>

\* The broadcast receivers of this greeting, registered before the packages
\* are read.
RegisterReceivers(t) ==
    /\ hi[t].at = "receivers"
    /\ receivers' = receivers \cup {hi[t].statsd}
    /\ Goes(t, "link")
    /\ UNCHANGED <<processVars, sStatsd, mStatsd, entries, client, alarm, linked, died,
                   mBootCompleted, boot, uidThreads, packages, broadcast, calls, mishaps, world, deaths, leaked>>

\* What statsdNotReadyLocked leaves, if statsd s is the one known.
NotReady(s) == /\ sStatsd' = IF sStatsd = s THEN 0 ELSE sStatsd
               /\ mStatsd' = IF sStatsd = s THEN 0 ELSE mStatsd

\* registerStatsdDeathRecipient: too late for a statsd that is dead already.
LinkToDeath(t) ==
    /\ hi[t].at = "link"
    /\ IF Alive(hi[t].statsd)
       THEN linked' = linked \cup {hi[t].statsd} /\ UNCHANGED <<receivers, sStatsd, mStatsd>>
       ELSE receivers' = receivers \ {hi[t].statsd} /\ NotReady(hi[t].statsd) /\ UNCHANGED linked
    /\ Goes(t, "boot")
    /\ UNCHANGED <<processVars, entries, client, alarm, died, mBootCompleted, boot, uidThreads,
                   packages, broadcast, calls, mishaps, world, deaths, leaked>>

\* bootCompleted is passed on if it has happened, then informAllUids starts
\* its thread.
TellBootAndUids(t) ==
    /\ hi[t].at = "boot"
    /\ IF mBootCompleted /\ ~Alive(hi[t].statsd)
       THEN UNCHANGED <<inbox, uidThreads>>
       ELSE /\ inbox' = IF mBootCompleted THEN Append(inbox, [op |-> "bootCompleted"]) ELSE inbox
            /\ uidThreads' = uidThreads \cup {[at |-> "post", for |-> hi[t].statsd, seen |-> packages]}
    /\ hi' = [hi EXCEPT ![t] = Resting]
    /\ UNCHANGED <<statsd, toCompanion, published, sStatsd, mStatsd, entries, client, alarm,
                   receivers, linked, died, mBootCompleted, boot, packages, broadcast, calls, mishaps, world, deaths, leaked>>

\* Faulty: the packages are read before the thread is started.
PackagesRead_Early(u) == u.seen

\* getInstalledPackagesAsUser, in the thread.
PackagesRead(u) == packages

\* informAllUids: the statsd known now gets a pipe, the packages are written
\* to it afterwards.
PostUids ==
    \E u \in uidThreads :
    /\ u.at = "post"
    /\ IF Alive(sStatsd)
       THEN /\ inbox' = Append(inbox, [op |-> "informAllUidData", packages |-> None, for |-> u.for])
            /\ uidThreads' = (uidThreads \ {u}) \cup {[u EXCEPT !.at = "write"]}
       ELSE uidThreads' = uidThreads \ {u} /\ UNCHANGED inbox
    /\ UNCHANGED <<statsd, toCompanion, published, hi, sStatsd, mStatsd, entries, client, alarm,
                   receivers, linked, died, mBootCompleted, boot, packages, broadcast, calls, mishaps, world, deaths, leaked>>

WriteUids ==
    \E u \in uidThreads :
    /\ u.at = "write"
    /\ inbox' = [i \in DOMAIN inbox |->
                   IF inbox[i].op = "informAllUidData" /\ inbox[i].for = u.for
                   THEN [inbox[i] EXCEPT !.packages = PackagesRead(u)] ELSE inbox[i]]
    /\ uidThreads' = uidThreads \ {u}
    /\ UNCHANGED <<statsd, toCompanion, published, hi, sStatsd, mStatsd, entries, client, alarm,
                   receivers, linked, died, mBootCompleted, boot, packages, broadcast, calls, mishaps, world, deaths, leaked>>

-----------------------------------------------------------------------------
(* The other events of the system server.                                  *)

\* Times older than `limit' are removed from a set in a loop over that set: the
\* first removal makes the loop throw, unless it was at the last element of an
\* order nobody knows.  What is left, and whether it threw.
Pruned(times, limit) ==
    LET old == {x \in times : deaths.elapsed - x.at > limit} IN
    IF old = {} THEN {[left |-> times, threw |-> FALSE]}
    ELSE {[left |-> times \ {x}, threw |-> TRUE] : x \in {y \in old : times # {y}}}
           \cup {[left |-> times \ {x}, threw |-> FALSE] : x \in {y \in old : old = {y}}}

\* The death of s is noted; when there were DEATH_THRESHOLD of them within a day
\* a config file is deleted, in case it is the reason, if that works.
Noted(s, d) ==
    LET death == [of |-> s, at |-> d.elapsed]
        times == d.mDeathTimeMillis \cup {death} IN
    IF Cardinality(times) < DEATH_THRESHOLD THEN {[d EXCEPT !.mDeathTimeMillis = times]}
    ELSE {[d EXCEPT !.mDeathTimeMillis = {}]}
           \cup {[d EXCEPT !.mDeathTimeMillis = {}, !.mDeletedFiles = @ \cup {death}, !.configs = @ - 1] :
                   x \in {d.configs} \ {0}}

\* StatsdDeathRecipient.binderDied.  When one of its loops throws, binder logs
\* that and goes on (external), and the rest of the method is not done.
binderDied ==
    \E s \in died :
    /\ died' = died \ {s}
    /\ \E a \in Pruned(deaths.mDeathTimeMillis, MILLIS_IN_A_DAY),
          b \in Pruned(deaths.mDeletedFiles, 7 * MILLIS_IN_A_DAY) :
         LET d == [deaths EXCEPT !.mDeathTimeMillis = a.left,
                                 !.mDeletedFiles = IF a.threw THEN @ ELSE b.left] IN
         IF a.threw \/ b.threw
         THEN /\ deaths' = d /\ leaked' = leaked \cup {s}
              /\ UNCHANGED <<receivers, sStatsd, mStatsd>>
         ELSE /\ deaths' \in Noted(s, d) /\ UNCHANGED leaked
              /\ receivers' = receivers \ {s}
              /\ NotReady(s)
    /\ UNCHANGED <<processVars, hi, entries, client, alarm, linked, mBootCompleted, boot, uidThreads,
                   packages, broadcast, calls, mishaps, world>>

\* No call is under way.
Calm == /\ \A t \in DOMAIN hi : ~Greets(t)
        /\ inbox = <<>> /\ toCompanion = <<>> /\ uidThreads = {} /\ client = Resting /\ boot = Resting

\* No call takes a day.
DayPasses ==
    /\ Calm /\ deaths.elapsed < world.days * MILLIS_IN_A_DAY
    /\ deaths' = [deaths EXCEPT !.elapsed = @ + MILLIS_IN_A_DAY]
    /\ UNCHANGED <<processVars, hi, sStatsd, mStatsd, entries, client, alarm, receivers, linked, died,
                   mBootCompleted, boot, uidThreads, packages, broadcast, calls, mishaps, world, leaked>>

\* StatsCompanionService.bootCompleted sets the flag, then reads sStatsd.
bootCompleted ==
    /\ published /\ ~mBootCompleted /\ world.boots
    /\ mBootCompleted' = TRUE /\ boot' = [at |-> "tell"]
    /\ UNCHANGED <<processVars, hi, sStatsd, mStatsd, entries, client, alarm, receivers, linked,
                   died, uidThreads, packages, broadcast, calls, mishaps, world, deaths, leaked>>

TellBoot ==
    /\ boot.at = "tell"
    /\ boot' = Resting
    /\ inbox' = IF Alive(sStatsd) THEN Append(inbox, [op |-> "bootCompleted"]) ELSE inbox
    /\ UNCHANGED <<statsd, toCompanion, published, hi, sStatsd, mStatsd, entries, client, alarm,
                   receivers, linked, died, mBootCompleted, uidThreads, packages, broadcast, calls, mishaps, world, deaths, leaked>>

PackageChanges ==
    /\ packages <= world.packages /\ ~broadcast
    /\ packages' = packages + 1 /\ broadcast' = TRUE
    /\ UNCHANGED <<processVars, hi, sStatsd, mStatsd, entries, client, alarm, receivers, linked,
                   died, mBootCompleted, boot, uidThreads, calls, mishaps, world, deaths, leaked>>

\* AppUpdateReceiver.onReceive asks the package manager and tells statsd.
AppUpdate ==
    /\ broadcast
    /\ broadcast' = FALSE
    /\ inbox' = IF receivers # {} /\ Alive(sStatsd)
                THEN Append(inbox, [op |-> "informOnePackage", packages |-> packages]) ELSE inbox
    /\ UNCHANGED <<statsd, toCompanion, published, hi, sStatsd, mStatsd, entries, client, alarm,
                   receivers, linked, died, mBootCompleted, boot, uidThreads, packages, calls, mishaps, world, deaths, leaked>>

\* Faulty: statsd is looked up before the registration is cached.
ClientReads_Early(s) == client.statsd

\* getStatsdNonblocking, after the map has been changed.
ClientReads(s) == s

\* A client registers or unregisters something: the cache is changed first.
ClientCalls ==
    /\ client = Resting /\ calls < world.calls
    /\ \E i \in DOMAIN Kinds, op \in {"register", "unregister"} :
          /\ op = "unregister" => Kinds[i] \in entries
          /\ client' = [at |-> "cache", op |-> op, kind |-> Kinds[i], statsd |-> mStatsd]
    /\ calls' = calls + 1
    /\ UNCHANGED <<processVars, hi, sStatsd, mStatsd, entries, alarm, receivers, linked, died,
                   mBootCompleted, boot, uidThreads, packages, broadcast, mishaps, world, deaths, leaked>>

ClientCaches ==
    /\ client.at = "cache"
    /\ entries' = IF client.op = "register" THEN entries \cup {client.kind} ELSE entries \ {client.kind}
    /\ client' = [client EXCEPT !.at = "read"]
    /\ UNCHANGED <<processVars, hi, sStatsd, mStatsd, alarm, receivers, linked, died, mBootCompleted,
                   boot, uidThreads, packages, broadcast, calls, mishaps, world, deaths, leaked>>

ClientReadsStatsd ==
    /\ client.at = "read"
    /\ client' = [client EXCEPT !.at = "tell", !.statsd = ClientReads(mStatsd)]
    /\ UNCHANGED <<processVars, hi, sStatsd, mStatsd, entries, alarm, receivers, linked, died,
                   mBootCompleted, boot, uidThreads, packages, broadcast, calls, mishaps, world, deaths, leaked>>

ClientTells ==
    /\ client.at = "tell"
    /\ client' = Resting
    /\ IF Alive(client.statsd) THEN Tell(client.op, client.kind) ELSE UNCHANGED <<statsd, inbox>>
    /\ UNCHANGED <<toCompanion, published, hi, sStatsd, mStatsd, entries, alarm, receivers, linked,
                   died, mBootCompleted, boot, uidThreads, packages, broadcast, calls, mishaps, world, deaths, leaked>>

Hi(t) == \/ FetchStatsd(t) \/ CancelAlarms(t) \/ ManagerReady(t) \/ CopyEntries(t) \/ SendEntries(t)
         \/ IterationThrows(t) \/ CallCompanionReady(t) \/ RegisterReceivers(t) \/ LinkToDeath(t) \/ TellBootAndUids(t)

CompanionNext ==
    \/ Publish \/ systemReady \/ CompanionHandles \/ PostUids \/ WriteUids
    \/ \E t \in DOMAIN hi : Hi(t)
    \/ binderDied \/ DayPasses \/ bootCompleted \/ TellBoot \/ PackageChanges \/ AppUpdate
    \/ ClientCalls \/ ClientCaches \/ ClientReadsStatsd \/ ClientTells

\* A statsd that dies: one-way calls not handled are lost.
StatsdDies ==
    /\ statsd.up
    /\ statsd' = [statsd EXCEPT !.up = FALSE]
    /\ inbox' = <<>>
    /\ died' = died \cup ({statsd.n} \cap linked)
    /\ UNCHANGED <<toCompanion, published, hi, sStatsd, mStatsd, entries, client, alarm, receivers,
                   linked, mBootCompleted, boot, uidThreads, packages, broadcast, calls, mishaps, world, deaths, leaked>>

-----------------------------------------------------------------------------
(* Properties.                                                             *)

\* Nothing is under way in statsd, the system server or between them, and
\* none of the rare events has happened: a client changed the broadcast
\* subscribers while they were iterated over, or statsd died while one thread
\* greeted it and the other thread went on to greet the next statsd.
Quiet == /\ mishaps = {} /\ statsd.up /\ ~statsd.greet /\ inbox = <<>> /\ toCompanion = <<>>
         /\ \A t \in DOMAIN hi : hi[t] = Resting
         /\ client = Resting /\ boot = Resting /\ died = {} /\ uidThreads = {} /\ ~broadcast

\* However often statsd dies, and whenever its death is noticed, in the end
\* the system server is connected to the statsd that runs, and it to the
\* system server: both references name it, its broadcast receivers are
\* registered, the alarm that it has set is not cancelled or replaced by one
\* of an earlier statsd, and the init trigger has run once if booting is over.
\* A binderDied that throws costs nothing but this: the receivers of that
\* statsd stay registered.  Those of every other one are gone.
Reconnected ==
    Quiet => /\ sStatsd = statsd.n /\ mStatsd = statsd.n /\ statsd.companion
             /\ statsd.n \in receivers /\ receivers \subseteq {statsd.n} \cup leaked
             /\ statsd.armed => alarm = statsd.n
             /\ statsd.inits = IF mBootCompleted THEN 1 ELSE 0

\* Everything that clients have registered and not unregistered is known to
\* the statsd that runs, whether it was there when they registered or not.
EntriesKnown == Quiet => entries \subseteq statsd.regs

\* The uid map of the running statsd is the package manager's, although the
\* list of all packages and the news of single ones come from different
\* threads.
UidMapFresh == Quiet => statsd.uidMap = packages
=============================================================================
