------------------------ MODULE StatsCompanionProofs ------------------------
(***************************************************************************)
(* The invariant of the system server's side, and that a thread which      *)
(* greets statsd (sayHiToStatsd) preserves it, whatever happens between    *)
(* two of its steps.  The steps of the others and the theorems are in      *)
(* StatsdClientsProofs.                                                    *)
(*                                                                         *)
(* Reconnected, EntriesKnown and UidMapFresh speak of the moment at which  *)
(* nothing is under way.  What is inductive says, for each stage of a      *)
(* greeting, what the statsd that runs has been told already and who will  *)
(* tell it the rest: the greeting itself, a client, a thread that writes   *)
(* the packages, or a call on its way.                                     *)
(***************************************************************************)
EXTENDS StatsdClients, TLAPS

USE SMTT(30), Zenon

KindSet == {Kinds[i] : i \in DOMAIN Kinds}

\* Where a greeting may be, and the part of it up to statsCompanionReady.
Early == {"cancel", "ready", "copy", "send", "companionReady"}
Places == Early \cup {"receivers", "link", "boot"}

Greetings == [at : Places, statsd : Nat, kind : Nat, todo : BOOLEAN]

\* What is called on statsd one-way, on the companion, and by a client.
InboxCalls == [op : {"register", "unregister"}, entry : {"puller"}]
              \cup [op : {"allPullersFromBootRegistered", "bootCompleted"}]
              \cup [op : {"informAllUidData"}, packages : Nat \cup {None}, for : Nat]
              \cup [op : {"informOnePackage"}, packages : Nat]
CompanionCalls == [op : {"statsdReady"}] \cup [op : {"setAlarm"}, by : Nat]
ClientCall == [at : {"cache", "read", "tell"}, op : {"register", "unregister"}, kind : KindSet, statsd : Nat]

JavaStatsds == [n : Nat, up : BOOLEAN, greet : BOOLEAN, companion : BOOLEAN, armed : BOOLEAN,
                regs : SUBSET KindSet, remaining : SUBSET Signals, inits : Nat, uidMap : Nat]

CompanionTypeOK ==
    /\ statsd \in JavaStatsds /\ (statsd.up => statsd.n # 0)
    /\ inbox \in Seq(InboxCalls) /\ toCompanion \in Seq(CompanionCalls) /\ published \in BOOLEAN
    /\ hi \in [{"main", "binder"} -> {[at |-> "unborn"], Resting, [at |-> "fetch"]} \cup Greetings]
    /\ sStatsd \in Nat /\ mStatsd \in Nat /\ entries \in SUBSET KindSet
    /\ client \in {Resting} \cup ClientCall
    /\ alarm \in Nat /\ receivers \in SUBSET Nat /\ linked \in SUBSET Nat /\ died \in SUBSET Nat
    /\ mBootCompleted \in BOOLEAN /\ boot \in {Resting, [at |-> "tell"]}
    /\ boot.at = "tell" => mBootCompleted
    /\ uidThreads \in SUBSET [at : {"post", "write"}, for : Nat, seen : Nat]
    /\ packages \in Nat /\ broadcast \in BOOLEAN

\* Nobody knows a statsd that has not started, and who greets one goes
\* through the kinds in order.
KnownOK ==
    /\ sStatsd <= statsd.n
    /\ \A s \in died : s <= statsd.n /\ ~Alive(s)
    /\ \A t \in DOMAIN hi : Greets(t) =>
          /\ hi[t].statsd # 0 /\ hi[t].statsd <= statsd.n
          /\ hi[t].at \in {"cancel", "ready"} => hi[t].kind = 1
          /\ hi[t].at \in {"copy", "send"} => hi[t].kind \in DOMAIN Kinds

\* At most one greeting is under way, of the statsd the companion knows.
OneGreeting ==
    mishaps = {} => \A t \in DOMAIN hi : Greets(t) =>
                       /\ \A u \in DOMAIN hi : Greets(u) => u = t
                       /\ sStatsd = hi[t].statsd \/ (sStatsd = 0 /\ ~Alive(hi[t].statsd))

Greeting(places) == \E t \in DOMAIN hi : hi[t].at \in places

\* A statsd that has a companion has been greeted, and so its alarm is not
\* cancelled; nor is it replaced by one that an earlier statsd has set.
AlarmComing ==
    \/ alarm = statsd.n /\ \A i \in DOMAIN toCompanion : toCompanion[i].op # "setAlarm"
    \/ \E i \in DOMAIN toCompanion :
          /\ toCompanion[i] = [op |-> "setAlarm", by |-> statsd.n]
          /\ \A j \in DOMAIN toCompanion : j > i => toCompanion[j].op # "setAlarm"
AlarmKept ==
    mishaps = {} /\ statsd.up =>
       /\ statsd.companion => sStatsd = statsd.n /\ ~Greeting(Early)
       /\ statsd.armed => statsd.companion /\ AlarmComing

\* The receivers of a statsd that is dead are about to be unregistered, unless
\* its binderDied threw.
ReceiversOK ==
    \A s \in receivers : \/ s \in leaked
                         \/ s \in linked /\ (Alive(s) \/ s \in died)
                         \/ \E t \in DOMAIN hi : hi[t].at = "link" /\ hi[t].statsd = s

\* A statsd that has announced itself has been noticed or is about to be.
Noticed ==
    /\ ~published => hi["main"].at = "unborn"
    /\ statsd.up /\ ~statsd.greet =>
         \/ sStatsd = statsd.n
         \/ hi["main"].at \in {"unborn", "fetch"} \/ hi["binder"].at = "fetch"
         \/ \E i \in DOMAIN toCompanion : toCompanion[i].op = "statsdReady"

Posted(op) == \E i \in DOMAIN inbox : inbox[i].op = op

TriggerOK ==
    /\ statsd.inits = IF statsd.remaining = {} THEN 1 ELSE 0
    /\ "BOOT_COMPLETE" \notin statsd.remaining \/ Posted("bootCompleted") => mBootCompleted

-----------------------------------------------------------------------------
(* What a statsd has been told at each stage of its greeting.              *)

Connected == mishaps = {} /\ statsd.up /\ sStatsd = statsd.n

ManagerConnected == Connected => Greeting({"cancel", "ready"}) \/ mStatsd = statsd.n

CompanionTold == Connected => Greeting(Early) \/ statsd.companion

ReceiversTold == Connected => Greeting(Early \cup {"receivers"}) \/ statsd.n \in receivers

\* The greeting has yet to come to a kind.
WillCome(i) == \E t \in DOMAIN hi : \/ hi[t].at = "copy" /\ i >= hi[t].kind
                                    \/ hi[t].at = "send" /\ i > hi[t].kind
IsAt(i) == \E t \in DOMAIN hi : hi[t].at = "send" /\ hi[t].kind = i

PullersTold ==
    Connected => \/ Greeting({"cancel", "ready"})
                 \/ \E i \in DOMAIN Kinds : Kinds[i] = "puller" /\ (WillCome(i) \/ IsAt(i))
                 \/ "PULLERS_REGISTERED" \notin statsd.remaining
                 \/ Posted("allPullersFromBootRegistered")

BootTold ==
    Connected /\ ~Greeting(Places) /\ mBootCompleted =>
       "BOOT_COMPLETE" \notin statsd.remaining \/ Posted("bootCompleted") \/ boot.at = "tell"

WillPost == \E u \in uidThreads : u.for = statsd.n /\ u.at = "post"

UidsTold ==
    Connected /\ ~Greeting(Places) =>
       "UID_MAP" \notin statsd.remaining \/ Posted("informAllUidData") \/ WillPost

\* The last call that changes the uid map brings the packages there are now,
\* or those there will be when they are written.
CarriesUids(call) == call.op \in {"informAllUidData", "informOnePackage"}
UpToDate(call) == \/ call.packages = packages
                  \/ /\ call.op = "informAllUidData" /\ call.packages = None
                     /\ \E u \in uidThreads : u.at = "write" /\ u.for = call.for
UidMapComing ==
    \/ broadcast \/ WillPost
    \/ \E i \in DOMAIN inbox : /\ CarriesUids(inbox[i]) /\ UpToDate(inbox[i])
                               /\ \A j \in DOMAIN inbox : j > i => ~CarriesUids(inbox[j])
    \/ statsd.uidMap = packages /\ \A i \in DOMAIN inbox : ~CarriesUids(inbox[i])
UidMapTold == Connected /\ ~Greeting(Places) => UidMapComing

\* Who will tell the running statsd of a kind: the greeting, a client, or a
\* call under way, if it does not know it already.
WillSend(k) ==
    \E i \in DOMAIN Kinds : /\ Kinds[i] = k
                            /\ \/ WillCome(i)
                               \/ \E t \in DOMAIN hi : /\ hi[t].at = "send" /\ hi[t].kind = i
                                                       /\ hi[t].todo \/ ~SendsCopy(k)
WillTell(k) ==
    /\ client.at \in {"read", "tell"}
    /\ client.op = "register" /\ client.kind = k
    /\ statsd.n = IF client.at = "read" THEN mStatsd ELSE client.statsd
Withdrawn(i, k) == inbox[i] = [op |-> "unregister", entry |-> k]
Reaches(k) ==
    \/ k \in statsd.regs /\ \A j \in DOMAIN inbox : ~Withdrawn(j, k)
    \/ \E i \in DOMAIN inbox : /\ inbox[i] = [op |-> "register", entry |-> k]
                               /\ \A j \in DOMAIN inbox : j > i => ~Withdrawn(j, k)
EntriesTold ==
    Connected => \/ Greeting({"cancel", "ready"})
                 \/ \A k \in entries : WillSend(k) \/ WillTell(k) \/ Reaches(k)

\* A client that has yet to tell of an unregistration has made it.
ClientOK == client.at \in {"read", "tell"} /\ client.op = "unregister" => client.kind \notin entries

CompanionInv ==
    /\ CompanionTypeOK /\ KnownOK /\ OneGreeting /\ AlarmKept /\ ReceiversOK /\ Noticed
    /\ TriggerOK /\ ClientOK /\ ManagerConnected /\ CompanionTold /\ ReceiversTold
    /\ PullersTold /\ BootTold /\ UidsTold /\ UidMapTold /\ EntriesTold

JInv == IF world.side = "native" THEN "main" \in DOMAIN hi /\ hi["main"].at = "unborn" ELSE CompanionInv

-----------------------------------------------------------------------------
(* What each part of the invariant depends on.                             *)

\* The threads that greet go on doing so, at the same place.
SameGreetings ==
    /\ DOMAIN hi' = DOMAIN hi
    /\ \A t \in DOMAIN hi : (Greets(t)' <=> Greets(t)) /\ (Greets(t) => hi'[t] = hi[t])

SameConnection ==
    /\ statsd'.n = statsd.n /\ statsd'.up = statsd.up
    /\ SameGreetings /\ UNCHANGED <<sStatsd, mishaps>>

LEMMA ConnectionFrame ==
    ASSUME SameConnection
    PROVE  /\ Connected' <=> Connected
           /\ Greeting({"cancel", "ready"})' <=> Greeting({"cancel", "ready"})
           /\ Greeting(Early)' <=> Greeting(Early)
           /\ Greeting(Early \cup {"receivers"})' <=> Greeting(Early \cup {"receivers"})
           /\ Greeting(Places)' <=> Greeting(Places)
           /\ \A i : (WillCome(i)' <=> WillCome(i)) /\ (IsAt(i)' <=> IsAt(i))
           /\ \A s : Alive(s)' <=> Alive(s)
  <1>1. ASSUME NEW S \in SUBSET Places PROVE Greeting(S)' <=> Greeting(S)
    BY Zenon DEF SameConnection, SameGreetings, Greeting, Greets, Places, Early
  <1>2. {"cancel", "ready"} \in SUBSET Places /\ Early \in SUBSET Places /\ Places \in SUBSET Places
        /\ Early \cup {"receivers"} \in SUBSET Places
    BY Zenon DEF Places, Early
  <1>3. \A i : (WillCome(i)' <=> WillCome(i)) /\ (IsAt(i)' <=> IsAt(i))
    BY Zenon DEF SameConnection, SameGreetings, Greets, WillCome, IsAt
  <1>4. (Connected' <=> Connected) /\ \A s : Alive(s)' <=> Alive(s)
    BY Zenon DEF SameConnection, Connected, Alive
  <1> QED BY Zenon, <1>1, <1>2, <1>3, <1>4

\* Where a greeting and statsd are as before, so is what does not depend on
\* the calls to it.
LEMMA RestFrame ==
    ASSUME CompanionInv, SameConnection
    PROVE  /\ OneGreeting'
           /\ statsd'.companion = statsd.companion => CompanionTold'
           /\ UNCHANGED mStatsd => ManagerConnected'
           /\ UNCHANGED receivers => ReceiversTold'
           /\ UNCHANGED <<alarm, toCompanion>> /\ statsd'.companion = statsd.companion
                 /\ statsd'.armed = statsd.armed => AlarmKept'
           /\ died' \subseteq died => KnownOK'
           /\ UNCHANGED <<receivers, linked, died, leaked>> => ReceiversOK'
           /\ UNCHANGED <<hi, published, toCompanion>> /\ statsd'.greet = statsd.greet => Noticed'
           /\ UNCHANGED <<client, entries>> => ClientOK'
  <1>1. /\ statsd'.companion = statsd.companion => CompanionTold'
        /\ UNCHANGED mStatsd => ManagerConnected'
        /\ UNCHANGED receivers => ReceiversTold'
    BY ConnectionFrame DEF CompanionInv, SameConnection, CompanionTold, ManagerConnected, ReceiversTold
  <1>2. UNCHANGED <<alarm, toCompanion>> /\ statsd'.companion = statsd.companion
           /\ statsd'.armed = statsd.armed => AlarmKept'
    BY Zenon, ConnectionFrame DEF CompanionInv, SameConnection, AlarmKept, AlarmComing
  <1>3. OneGreeting' /\ (died' \subseteq died => KnownOK')
    BY DEF CompanionInv, OneGreeting, KnownOK, SameConnection, SameGreetings, Alive, Greets
  <1>4. UNCHANGED <<receivers, linked, died, leaked>> => ReceiversOK'
    BY DEF CompanionInv, ReceiversOK, SameConnection, SameGreetings, Alive, Greets
  <1>5. /\ UNCHANGED <<hi, published, toCompanion>> /\ statsd'.greet = statsd.greet => Noticed'
        /\ UNCHANGED <<client, entries>> => ClientOK'
    BY DEF CompanionInv, SameConnection, Noticed, ClientOK
  <1> QED BY Zenon, <1>1, <1>2, <1>3, <1>4, <1>5

LEMMA TriggerFrame ==
    ASSUME TriggerOK, UNCHANGED mBootCompleted, Posted("bootCompleted")' => Posted("bootCompleted"),
           statsd'.remaining = statsd.remaining, statsd'.inits = statsd.inits
    PROVE  TriggerOK'
  BY Zenon DEF TriggerOK

LEMMA PullersFrame ==
    ASSUME PullersTold, SameConnection, statsd'.remaining = statsd.remaining,
           Posted("allPullersFromBootRegistered") => Posted("allPullersFromBootRegistered")'
    PROVE  PullersTold'
  BY Zenon, ConnectionFrame DEF PullersTold

LEMMA BootFrame ==
    ASSUME BootTold, SameConnection, UNCHANGED <<mBootCompleted, boot>>,
           statsd'.remaining = statsd.remaining, Posted("bootCompleted") => Posted("bootCompleted")'
    PROVE  BootTold'
  BY Zenon, ConnectionFrame DEF BootTold

LEMMA UidsFrame ==
    ASSUME UidsTold, SameConnection, UNCHANGED uidThreads,
           statsd'.remaining = statsd.remaining, Posted("informAllUidData") => Posted("informAllUidData")'
    PROVE  UidsTold'
  BY Zenon, ConnectionFrame DEF UidsTold, WillPost, SameConnection

LEMMA UidMapFrame ==
    ASSUME UidMapTold, SameConnection, UidMapComing => UidMapComing' PROVE UidMapTold'
  BY Zenon, ConnectionFrame DEF UidMapTold

LEMMA UidMapUnchanged ==
    ASSUME UidMapComing, UNCHANGED <<inbox, uidThreads, packages, broadcast>>,
           statsd'.n = statsd.n, statsd'.uidMap = statsd.uidMap
    PROVE  UidMapComing'
  BY DEF UidMapComing, WillPost, CarriesUids, UpToDate

LEMMA WillSendFrame ==
    ASSUME SameConnection, NEW k, WillSend(k) PROVE WillSend(k)'
  <1>1. PICK i \in DOMAIN Kinds : /\ Kinds[i] = k
                                  /\ \/ WillCome(i)
                                     \/ \E t \in DOMAIN hi : /\ hi[t].at = "send" /\ hi[t].kind = i
                                                             /\ hi[t].todo \/ ~SendsCopy(k)
    BY Zenon DEF WillSend
  <1>2. CASE WillCome(i)
    BY Zenon, <1>1, <1>2, ConnectionFrame DEF WillSend
  <1>3. CASE \E t \in DOMAIN hi : hi[t].at = "send" /\ hi[t].kind = i /\ (hi[t].todo \/ ~SendsCopy(k))
    BY Zenon, <1>1, <1>3 DEF WillSend, SameConnection, SameGreetings, Greets
  <1> QED BY Zenon, <1>1, <1>2, <1>3

LEMMA EntriesFrame ==
    ASSUME EntriesTold, SameConnection, UNCHANGED entries,
           \A k \in entries : WillTell(k) \/ Reaches(k) => WillTell(k)' \/ Reaches(k)'
    PROVE  EntriesTold'
  BY Zenon, ConnectionFrame, WillSendFrame DEF EntriesTold

LEMMA ReachesUnchanged ==
    ASSUME NEW k, Reaches(k), UNCHANGED inbox, statsd'.regs = statsd.regs PROVE Reaches(k)'
  BY Zenon DEF Reaches, Withdrawn

LEMMA WillTellUnchanged ==
    ASSUME NEW k, WillTell(k), UNCHANGED <<client, mStatsd>>, statsd'.n = statsd.n PROVE WillTell(k)'
  BY Zenon DEF WillTell

\* Where statsd and the calls to it are as before, what was told still was.
LEMMA ToldFrame ==
    ASSUME CompanionInv, SameConnection, UNCHANGED <<statsd, inbox>>
    PROVE  /\ PullersTold'
           /\ UNCHANGED mBootCompleted => TriggerOK'
           /\ UNCHANGED <<mBootCompleted, boot>> => BootTold'
           /\ UNCHANGED uidThreads => UidsTold'
           /\ UNCHANGED <<uidThreads, packages, broadcast>> => UidMapTold'
           /\ UNCHANGED <<entries, client, mStatsd>> => EntriesTold'
  <1>1. \A op : Posted(op)' <=> Posted(op)
    BY Zenon DEF Posted
  <1>2. UNCHANGED <<uidThreads, packages, broadcast>> => UidMapTold'
    BY Zenon, UidMapFrame, UidMapUnchanged DEF CompanionInv
  <1>3. UNCHANGED <<entries, client, mStatsd>> => EntriesTold'
    BY Zenon, EntriesFrame, ReachesUnchanged, WillTellUnchanged DEF CompanionInv
  <1>4. /\ PullersTold'
        /\ UNCHANGED mBootCompleted => TriggerOK'
        /\ UNCHANGED <<mBootCompleted, boot>> => BootTold'
        /\ UNCHANGED uidThreads => UidsTold'
    BY Zenon, <1>1, PullersFrame, TriggerFrame, BootFrame, UidsFrame DEF CompanionInv
  <1> QED BY Zenon, <1>2, <1>3, <1>4

LEMMA SameByUnchanged ==
    ASSUME UNCHANGED <<statsd, hi, sStatsd, mishaps>> PROVE SameConnection
  BY Zenon DEF SameConnection, SameGreetings, Greets

\* Nothing has been told to a statsd the companion does not know.
LEMMA NotConnected ==
    ASSUME ~Connected'
    PROVE  /\ ManagerConnected' /\ CompanionTold' /\ ReceiversTold' /\ PullersTold' /\ BootTold'
           /\ UidsTold' /\ UidMapTold' /\ EntriesTold'
  BY Zenon DEF ManagerConnected, CompanionTold, ReceiversTold, PullersTold, BootTold, UidsTold, UidMapTold,
         EntriesTold

-----------------------------------------------------------------------------
(* One-way and two-way calls to statsd.                                    *)

LEMMA AppendedCall ==
    ASSUME CompanionTypeOK, NEW call \in InboxCalls, inbox' = Append(inbox, call)
    PROVE  /\ inbox' \in Seq(InboxCalls)
           /\ \A i \in DOMAIN inbox : i \in DOMAIN inbox' /\ inbox'[i] = inbox[i] /\ Len(inbox) + 1 > i
           /\ Len(inbox) + 1 \in DOMAIN inbox' /\ inbox'[Len(inbox) + 1] = call
           /\ \A i \in DOMAIN inbox' : i \in DOMAIN inbox \/ i = Len(inbox) + 1
  BY DEF CompanionTypeOK

LEMMA AppendPosts ==
    ASSUME CompanionTypeOK, NEW call \in InboxCalls, inbox' = Append(inbox, call), NEW op
    PROVE  Posted(op)' <=> Posted(op) \/ call.op = op
  BY Zenon, AppendedCall DEF Posted

LEMMA AppendReaches ==
    ASSUME CompanionTypeOK, NEW call \in InboxCalls, inbox' = Append(inbox, call), NEW k,
           statsd'.regs = statsd.regs
    PROVE  /\ call = [op |-> "register", entry |-> k] => Reaches(k)'
           /\ Reaches(k) /\ call # [op |-> "unregister", entry |-> k] => Reaches(k)'
  <1>1. CASE call = [op |-> "register", entry |-> k]
    <2> DEFINE i == Len(inbox) + 1
    <2>1. i \in DOMAIN inbox' /\ inbox'[i] = [op |-> "register", entry |-> k]
      BY Zenon, <1>1, AppendedCall
    <2>2. \A j \in DOMAIN inbox' : ~(j > i)
      BY AppendedCall DEF CompanionTypeOK
    <2> QED BY Zenon, <2>1, <2>2 DEF Reaches
  <1>2. CASE Reaches(k) /\ call # [op |-> "unregister", entry |-> k]
    <2>1. \A j \in DOMAIN inbox' : Withdrawn(j, k)' => j \in DOMAIN inbox /\ Withdrawn(j, k)
      BY Zenon, <1>2, AppendedCall DEF Withdrawn
    <2> QED BY Zenon, <1>2, <2>1, AppendedCall DEF Reaches
  <1> QED BY Zenon, <1>1, <1>2

\* A two-way call changes nothing but what is registered.
LEMMA RegisteredAtOnce ==
    ASSUME CompanionInv, NEW k \in KindSet, k # "puller", NEW op \in {"register", "unregister"},
           statsd' = Handled(statsd, [op |-> op, entry |-> k]), UNCHANGED inbox
    PROVE  /\ statsd' \in JavaStatsds /\ (statsd'.up => statsd'.n # 0)
           /\ statsd'.n = statsd.n /\ statsd'.up = statsd.up /\ statsd'.greet = statsd.greet
           /\ statsd'.companion = statsd.companion /\ statsd'.armed = statsd.armed
           /\ statsd'.remaining = statsd.remaining /\ statsd'.inits = statsd.inits
           /\ statsd'.uidMap = statsd.uidMap
           /\ op = "register" => Reaches(k)'
           /\ \A j : Reaches(j) /\ (op = "unregister" => j # k) => Reaches(j)'
  <1>1. statsd \in JavaStatsds /\ (statsd.up => statsd.n # 0) /\ inbox \in Seq(InboxCalls)
    BY Zenon DEF CompanionInv, CompanionTypeOK
  <1>2. PICK regs \in SUBSET KindSet : /\ statsd' = [statsd EXCEPT !.regs = regs]
                                       /\ op = "register" => regs = statsd.regs \cup {k}
                                       /\ op = "unregister" => regs = statsd.regs \ {k}
    <2>1. statsd.regs \in SUBSET KindSet
      BY Zenon, <1>1 DEF JavaStatsds
    <2>2. CASE op = "register"
      <3>1. statsd' = [statsd EXCEPT !.regs = statsd.regs \cup {k}]
        BY Zenon, <2>2 DEF Handled
      <3>2. statsd.regs \cup {k} \in SUBSET KindSet
        BY Zenon, <2>1
      <3> QED BY Zenon, <2>2, <3>1, <3>2
    <2>3. CASE op = "unregister"
      <3>1. statsd' = [statsd EXCEPT !.regs = statsd.regs \ {k}]
        BY Zenon, <2>3 DEF Handled
      <3>2. statsd.regs \ {k} \in SUBSET KindSet
        BY Zenon, <2>1
      <3> QED BY Zenon, <2>3, <3>1, <3>2
    <2> QED BY Zenon, <2>2, <2>3
  <1>3. /\ statsd' \in JavaStatsds /\ statsd'.n = statsd.n /\ statsd'.up = statsd.up
        /\ statsd'.greet = statsd.greet /\ statsd'.companion = statsd.companion
        /\ statsd'.armed = statsd.armed /\ statsd'.remaining = statsd.remaining
        /\ statsd'.inits = statsd.inits /\ statsd'.uidMap = statsd.uidMap /\ statsd'.regs = regs
    BY Zenon, <1>1, <1>2 DEF JavaStatsds
  <1>4. \A j \in DOMAIN inbox : ~Withdrawn(j, k)
    <2>1. SUFFICES ASSUME NEW j \in DOMAIN inbox, inbox[j] = [op |-> "unregister", entry |-> k] PROVE FALSE
      BY Zenon DEF Withdrawn
    <2>2. inbox[j] \in InboxCalls /\ inbox[j].op = "unregister" /\ inbox[j].entry = k
      BY <1>1, <2>1
    <2> QED BY Zenon, <2>2 DEF InboxCalls
  <1>5. op = "register" => Reaches(k)'
    BY Zenon, <1>2, <1>3, <1>4 DEF Reaches, Withdrawn
  <1>6. ASSUME NEW j, Reaches(j), op = "unregister" => j # k PROVE Reaches(j)'
    BY Zenon, <1>2, <1>3, <1>6 DEF Reaches, Withdrawn
  <1> QED BY Zenon, <1>1, <1>3, <1>5, <1>6

-----------------------------------------------------------------------------
(* sayHiToStatsd.                                                          *)

Threads == {[at |-> "unborn"], Resting, [at |-> "fetch"]} \cup Greetings

MovesTo(t, g) == hi' = [hi EXCEPT ![t] = g]

RegisterPuller == [op |-> "register", entry |-> "puller"]
AllPullers == [op |-> "allPullersFromBootRegistered"]

\* A thread goes on with its greeting, or ends it.
LEMMA Advanced ==
    ASSUME CompanionInv, NEW t \in DOMAIN hi, Greets(t), NEW g \in Greetings \cup {Resting},
           MovesTo(t, g)
    PROVE  /\ hi' \in [{"main", "binder"} -> Threads] /\ DOMAIN hi' = DOMAIN hi
           /\ hi[t] \in Greetings /\ hi[t].at \in Places
           /\ hi'[t] = g /\ \A u \in DOMAIN hi : u # t => hi'[u] = hi[u]
           /\ g \in Greetings => g.at \in Places /\ Greets(t)'
           /\ g = Resting => ~Greets(t)' /\ g.at = "idle"
           /\ \A u \in DOMAIN hi : u # t => (Greets(u)' <=> Greets(u))
           /\ t \in {"main", "binder"}
  <1>1. hi \in [{"main", "binder"} -> Threads]
    BY Zenon DEF CompanionInv, CompanionTypeOK, Threads
  <1>2. hi[t] \in Greetings /\ hi[t].at \in Places
    BY <1>1 DEF Greets, Threads, Greetings, Resting
  <1>3. /\ g \in Greetings => g.at \in Places /\ g.at \notin {"unborn", "idle", "fetch"}
        /\ g = Resting => g.at = "idle"
    BY DEF Greetings, Places, Early, Resting
  <1> QED BY Zenon, <1>1, <1>2, <1>3 DEF Threads, Greets, MovesTo

\* What does not depend on the place of the greeting.
LEMMA AdvancedFrame ==
    ASSUME CompanionInv, NEW t \in DOMAIN hi, Greets(t), NEW g \in Greetings \cup {Resting},
           MovesTo(t, g), g \in Greetings => g.statsd = hi[t].statsd,
           statsd'.n = statsd.n, statsd'.up = statsd.up, statsd'.greet = statsd.greet,
           UNCHANGED <<toCompanion, published>>
    PROVE  /\ UNCHANGED <<sStatsd, mishaps>> => OneGreeting'
           /\ UNCHANGED sStatsd => Noticed'
           /\ /\ UNCHANGED <<sStatsd, died>>
              /\ g \in Greetings => /\ g.at \in {"cancel", "ready"} => g.kind = 1
                                    /\ g.at \in {"copy", "send"} => g.kind \in DOMAIN Kinds
              => KnownOK'
           /\ hi[t].at # "link" /\ UNCHANGED <<receivers, linked, died, leaked>> => ReceiversOK'
           /\ /\ UNCHANGED <<sStatsd, mishaps, alarm>>
              /\ statsd'.companion = statsd.companion /\ statsd'.armed = statsd.armed
              /\ g.at \in Early => hi[t].at \in Early
              => AlarmKept'
  <1>1. /\ DOMAIN hi' = DOMAIN hi /\ hi[t].at \in Places
        /\ hi'[t] = g /\ \A u \in DOMAIN hi : u # t => hi'[u] = hi[u]
        /\ g \in Greetings => g.at \in Places /\ Greets(t)'
        /\ g = Resting => ~Greets(t)' /\ g.at = "idle"
        /\ \A u \in DOMAIN hi : u # t => (Greets(u)' <=> Greets(u))
        /\ t \in {"main", "binder"}
    BY Zenon, Advanced
  <1>2. \A s : Alive(s)' <=> Alive(s)
    BY Zenon DEF Alive
  <1>3. UNCHANGED <<sStatsd, mishaps>> => OneGreeting'
    BY Zenon, <1>1, <1>2 DEF CompanionInv, OneGreeting
  <1>4. UNCHANGED sStatsd => Noticed'
    <2>1. \A u \in {"main", "binder"} : hi[u].at \in {"unborn", "fetch"} => u # t /\ hi'[u] = hi[u]
      <3>1. DOMAIN hi = {"main", "binder"}
        BY Zenon DEF CompanionInv, CompanionTypeOK
      <3> QED BY Zenon, <1>1, <3>1 DEF Greets
    <2> QED BY Zenon, <2>1 DEF CompanionInv, Noticed
  <1>5. ASSUME UNCHANGED <<sStatsd, died>>,
               g \in Greetings => /\ g.at \in {"cancel", "ready"} => g.kind = 1
                                  /\ g.at \in {"copy", "send"} => g.kind \in DOMAIN Kinds
        PROVE  KnownOK'
    <2>1. sStatsd' <= statsd'.n /\ \A s \in died' : s <= statsd'.n /\ ~Alive(s)'
      BY Zenon, <1>2, <1>5 DEF CompanionInv, KnownOK
    <2>2. \A u \in DOMAIN hi' : Greets(u)' =>
          /\ hi'[u].statsd # 0 /\ hi'[u].statsd <= statsd'.n
          /\ hi'[u].at \in {"cancel", "ready"} => hi'[u].kind = 1
          /\ hi'[u].at \in {"copy", "send"} => hi'[u].kind \in DOMAIN Kinds
      BY <1>1, <1>5 DEF CompanionInv, KnownOK
    <2> QED BY Zenon, <2>1, <2>2 DEF KnownOK
  <1>6. hi[t].at # "link" /\ UNCHANGED <<receivers, linked, died, leaked>> => ReceiversOK'
    BY <1>1, <1>2 DEF CompanionInv, ReceiversOK
  <1>7. ASSUME UNCHANGED <<sStatsd, mishaps, alarm>>,
               statsd'.companion = statsd.companion, statsd'.armed = statsd.armed,
               g.at \in Early => hi[t].at \in Early
        PROVE  AlarmKept'
    <2>1. Greeting(Early)' => Greeting(Early)
      BY Zenon, <1>1, <1>7 DEF Greeting
    <2>2. AlarmComing => AlarmComing'
      BY <1>7 DEF AlarmComing
    <2> QED BY Zenon, <1>7, <2>1, <2>2 DEF CompanionInv, AlarmKept
  <1> QED BY Zenon, <1>3, <1>4, <1>5, <1>6, <1>7

\* Who greets while the companion is connected greets the running statsd,
\* and is alone in that.
LEMMA Sole ==
    ASSUME CompanionInv, Connected, NEW t \in DOMAIN hi, Greets(t)
    PROVE  /\ hi[t].statsd = statsd.n /\ Alive(hi[t].statsd)
           /\ \A u \in DOMAIN hi : Greets(u) => u = t
           /\ \A S \in SUBSET Places : Greeting(S) <=> hi[t].at \in S
  <1>1. statsd.up /\ sStatsd = statsd.n /\ statsd.n # 0 /\ mishaps = {}
    BY Zenon DEF Connected, CompanionInv, CompanionTypeOK
  <1>2. hi[t].statsd = statsd.n /\ \A u \in DOMAIN hi : Greets(u) => u = t
    BY Zenon, <1>1 DEF CompanionInv, OneGreeting
  <1>3. \A S \in SUBSET Places : Greeting(S) <=> hi[t].at \in S
    BY Zenon, <1>2 DEF Greeting, Greets, Places, Early
  <1> QED BY Zenon, <1>1, <1>2, <1>3 DEF Alive

\* While somebody greets, the rest is still to be told.
LEMMA StillGreeting ==
    ASSUME CompanionInv, NEW t \in DOMAIN hi, Greets(t), NEW g \in Greetings, MovesTo(t, g)
    PROVE  BootTold' /\ UidsTold' /\ UidMapTold'
  <1>1. t \in DOMAIN hi' /\ hi'[t].at \in Places
    BY Zenon, Advanced
  <1> QED BY Zenon, <1>1 DEF Greeting, BootTold, UidsTold, UidMapTold

LEMMA StageSets == /\ {"cancel", "ready"} \in SUBSET Places /\ Early \in SUBSET Places
                   /\ Early \cup {"receivers"} \in SUBSET Places /\ Places \in SUBSET Places
  BY Zenon DEF Places, Early

\* The place a greeting goes to, as a record.
LEMMA GoesTo ==
    ASSUME CompanionInv, NEW t \in DOMAIN hi, Greets(t), NEW place \in Places, Goes(t, place)
    PROVE  \E g \in Greetings : /\ MovesTo(t, g) /\ g.at = place
                                /\ g.statsd = hi[t].statsd /\ g.kind = hi[t].kind /\ g.todo = hi[t].todo
  <1>1. hi \in [{"main", "binder"} -> Threads]
    BY Zenon DEF CompanionInv, CompanionTypeOK, Threads
  <1>2. hi[t] \in Greetings
    BY <1>1 DEF Greets, Threads, Resting
  <1>3. /\ [hi[t] EXCEPT !.at = place] \in Greetings /\ [hi[t] EXCEPT !.at = place].at = place
        /\ [hi[t] EXCEPT !.at = place].statsd = hi[t].statsd
        /\ [hi[t] EXCEPT !.at = place].kind = hi[t].kind /\ [hi[t] EXCEPT !.at = place].todo = hi[t].todo
    BY Zenon, <1>2 DEF Greetings
  <1>4. MovesTo(t, [hi[t] EXCEPT !.at = place])
    BY Zenon DEF Goes, MovesTo
  <1> QED BY Zenon, <1>3, <1>4

\* After statsCompanionReady nothing more is registered by the greeting.
LEMMA LateStep ==
    ASSUME CompanionInv, NEW t \in DOMAIN hi, Greets(t), NEW g \in Greetings \cup {Resting},
           MovesTo(t, g), hi[t].at \notin {"cancel", "ready", "copy", "send"},
           statsd'.n = statsd.n, statsd'.up = statsd.up, statsd'.remaining = statsd.remaining,
           UNCHANGED <<sStatsd, mishaps, entries>>,
           UNCHANGED mStatsd \/ ~Connected,
           Posted("allPullersFromBootRegistered") => Posted("allPullersFromBootRegistered")',
           \A k \in entries : WillTell(k) \/ Reaches(k) => WillTell(k)' \/ Reaches(k)'
    PROVE  PullersTold' /\ EntriesTold' /\ ManagerConnected'
  <1> SUFFICES ASSUME Connected' PROVE PullersTold' /\ EntriesTold' /\ ManagerConnected'
    BY Zenon, NotConnected
  <1>1. Connected
    BY Zenon DEF Connected
  <1>2. ~Greeting({"cancel", "ready"})
    BY Zenon, <1>1, Sole, StageSets
  <1>3. \A i : ~WillCome(i) /\ ~IsAt(i)
    BY Zenon, <1>1, Sole DEF WillCome, IsAt, Greets
  <1>4. \A k : ~WillSend(k)
    BY Zenon, <1>3 DEF WillSend, IsAt
  <1>5. mStatsd = statsd.n
    BY Zenon, <1>1, <1>2 DEF CompanionInv, ManagerConnected
  <1>6. "PULLERS_REGISTERED" \notin statsd.remaining \/ Posted("allPullersFromBootRegistered")
    BY Zenon, <1>1, <1>2, <1>3 DEF CompanionInv, PullersTold
  <1>7. \A k \in entries : WillTell(k) \/ Reaches(k)
    BY Zenon, <1>1, <1>2, <1>4 DEF CompanionInv, EntriesTold
  <1> QED BY Zenon, <1>1, <1>5, <1>6, <1>7 DEF PullersTold, EntriesTold, ManagerConnected

LEMMA RestingIsNoGreeting == Resting \notin Greetings /\ Resting.at = "idle"
  BY Zenon DEF Resting, Greetings, Places, Early

\* Until the entries are sent.
LEMMA GreetingBegins ==
    CompanionInv /\ (\E t \in DOMAIN hi : FetchStatsd(t) \/ CancelAlarms(t) \/ ManagerReady(t) \/ CopyEntries(t)) => CompanionInv'
  \* A statsd that is found and was not known is greeted; it had no companion.
  <1>FetchStep. ASSUME CompanionInv, NEW t \in DOMAIN hi, FetchStatsd(t) PROVE CompanionInv'
    <2> USE <1>FetchStep
    <2>1. /\ hi[t].at = "fetch" /\ ~Greets(t)
          /\ UNCHANGED <<statsd, inbox, toCompanion, published, mStatsd, entries, client, alarm, receivers,
                     linked, died, mBootCompleted, boot, uidThreads, packages, broadcast, calls, world, leaked>>
      BY Zenon DEF FetchStatsd, Greets, processVars
    <2>2. /\ DOMAIN hi = {"main", "binder"} /\ hi \in [{"main", "binder"} -> Threads]
          /\ statsd.n \in Nat /\ (statsd.up => statsd.n # 0) /\ statsd.up \in BOOLEAN
          /\ t = "main" => published
      BY Zenon, <2>1 DEF CompanionInv, CompanionTypeOK, Threads, JavaStatsds, Noticed
    <2>3. ASSUME NEW g \in Threads, MovesTo(t, g)
          PROVE  /\ hi' \in [{"main", "binder"} -> Threads] /\ DOMAIN hi' = DOMAIN hi
                 /\ hi'[t] = g /\ \A u \in DOMAIN hi : u # t => hi'[u] = hi[u] /\ (Greets(u)' <=> Greets(u))
      BY Zenon, <2>2, <2>3 DEF Greets, MovesTo
    <2>4. TriggerOK' /\ ClientOK' /\ \A s : Alive(s)' <=> Alive(s)
      BY Zenon, <2>1 DEF CompanionInv, TriggerOK, Posted, ClientOK, Alive
    <2>5. CASE Alive(sStatsd) \/ Lookup = 0
      <3>1. MovesTo(t, Resting) /\ Resting \in Threads
        BY Zenon, <2>5 DEF FetchStatsd, Threads, MovesTo
      <3>2. hi'[t] = Resting /\ ~Greets(t)'
        BY <2>3, <3>1 DEF Greets, Resting
      <3>3. UNCHANGED mishaps
        BY Zenon, <3>2 DEF FetchStatsd
      <3>4. SameGreetings
        BY Zenon, <2>1, <2>3, <3>1, <3>2 DEF SameGreetings
      <3>5. CASE Alive(sStatsd)
        <4>1. UNCHANGED sStatsd
          BY Zenon, <3>5 DEF FetchStatsd
        <4>2. SameConnection
          BY Zenon, <2>1, <3>3, <3>4, <4>1 DEF SameConnection
        <4>3. CompanionTypeOK'
          BY Zenon, <2>1, <2>3, <3>1, <4>1 DEF CompanionInv, CompanionTypeOK, Threads
        <4>4. Noticed'
          BY Zenon, <2>1, <2>2, <2>3, <3>1, <3>5, <4>1 DEF CompanionInv, Noticed, Alive
        <4> QED BY Zenon, <2>1, <2>4, <4>2, <4>3, <4>4, ToldFrame, RestFrame DEF CompanionInv
      <3>6. CASE ~Alive(sStatsd)
        <4>1. sStatsd' = 0 /\ ~statsd.up
          BY Zenon, <2>2, <2>5, <3>6 DEF FetchStatsd, Lookup
        <4>2. CompanionTypeOK'
          BY Zenon, <2>1, <2>3, <3>1, <4>1 DEF CompanionInv, CompanionTypeOK, Threads
        <4>3. KnownOK'
          BY <2>1, <2>2, <2>4, <3>4, <4>1 DEF CompanionInv, KnownOK, SameGreetings
        <4>4. OneGreeting'
          BY Zenon, <2>1, <3>3, <3>4, <4>1 DEF CompanionInv, OneGreeting, SameGreetings, Alive
        <4>5. ReceiversOK'
          BY <2>1, <2>3, <2>4, <3>1 DEF CompanionInv, ReceiversOK
        <4>6. AlarmKept' /\ ~Connected'
          BY Zenon, <2>1, <4>1 DEF AlarmKept, Connected
        <4>7. Noticed'
          BY Zenon, <2>1, <2>2, <2>3, <3>1, <4>1 DEF CompanionInv, Noticed
        <4> QED BY Zenon, <2>4, <4>2, <4>3, <4>4, <4>5, <4>6, <4>7, NotConnected DEF CompanionInv
      <3> QED BY Zenon, <3>5, <3>6
    <2>6. CASE ~(Alive(sStatsd) \/ Lookup = 0)
      <3>1. sStatsd' = statsd.n /\ statsd.up /\ Lookup = statsd.n /\ sStatsd # statsd.n
        BY Zenon, <2>2, <2>6 DEF FetchStatsd, Lookup, Alive
      <3>2. PICK g \in Greetings : /\ MovesTo(t, g)
                                   /\ g.at = "cancel" /\ g.statsd = statsd.n /\ g.kind = 1
        <4> DEFINE r == [at |-> "cancel", statsd |-> Lookup, kind |-> 1, todo |-> FALSE]
        <4>1. MovesTo(t, r)
          BY Zenon, <2>6 DEF FetchStatsd, MovesTo
        <4>2. r \in Greetings /\ r.at = "cancel" /\ r.statsd = statsd.n /\ r.kind = 1
          BY Zenon, <2>2, <3>1 DEF Greetings, Places, Early
        <4> HIDE DEF r
        <4> QED BY Zenon, <4>1, <4>2
      <3>3. /\ hi' \in [{"main", "binder"} -> Threads] /\ DOMAIN hi' = DOMAIN hi
            /\ hi'[t] = g /\ \A u \in DOMAIN hi : u # t => hi'[u] = hi[u] /\ (Greets(u)' <=> Greets(u))
        <4>1. g \in Threads
          BY Zenon DEF Threads
        <4> QED BY Zenon, <2>3, <3>2, <4>1
      <3>4. Greets(t)'
        BY Zenon, <3>2, <3>3 DEF Greets
      <3>5. mishaps' = {} => mishaps = {} /\ \A u \in DOMAIN hi : Greets(u)' => u = t
        BY Zenon, <3>3, <3>4 DEF FetchStatsd
      <3>6. CompanionTypeOK'
        BY Zenon, <2>1, <2>2, <3>1, <3>3 DEF CompanionInv, CompanionTypeOK, Threads
      <3>7. KnownOK'
        <4>1. sStatsd' <= statsd'.n /\ \A s \in died' : s <= statsd'.n /\ ~Alive(s)'
          BY <2>1, <2>2, <2>4, <3>1 DEF CompanionInv, KnownOK
        <4>2. \A u \in DOMAIN hi' : Greets(u)' =>
              /\ hi'[u].statsd # 0 /\ hi'[u].statsd <= statsd'.n
              /\ hi'[u].at \in {"cancel", "ready"} => hi'[u].kind = 1
              /\ hi'[u].at \in {"copy", "send"} => hi'[u].kind \in DOMAIN Kinds
          BY <2>1, <2>2, <3>1, <3>2, <3>3 DEF CompanionInv, KnownOK
        <4> QED BY Zenon, <4>1, <4>2 DEF KnownOK
      <3>8. OneGreeting'
        BY Zenon, <3>1, <3>2, <3>3, <3>5 DEF OneGreeting
      <3>9. AlarmKept'
        BY Zenon, <2>1, <3>1, <3>5 DEF CompanionInv, AlarmKept
      <3>10. ReceiversOK'
        BY <2>1, <2>4, <3>3 DEF CompanionInv, ReceiversOK
      <3>11. Noticed'
        BY Zenon, <2>1, <2>2, <3>1, <3>3 DEF CompanionInv, Noticed
      <3>12. /\ Greeting({"cancel", "ready"})' /\ Greeting(Early)' /\ Greeting(Early \cup {"receivers"})'
             /\ Greeting(Places)'
        BY Zenon, <3>2, <3>3 DEF Greeting, Early, Places
      <3>13. /\ ManagerConnected' /\ CompanionTold' /\ ReceiversTold' /\ PullersTold' /\ BootTold'
             /\ UidsTold' /\ UidMapTold' /\ EntriesTold'
        BY Zenon, <3>12 DEF ManagerConnected, CompanionTold, ReceiversTold, PullersTold, BootTold, UidsTold,
                     UidMapTold, EntriesTold
      <3> QED BY Zenon, <2>4, <3>6, <3>7, <3>8, <3>9, <3>10, <3>11, <3>13 DEF CompanionInv
    <2> QED BY Zenon, <2>5, <2>6
  \* The alarms are cancelled before the statsd greeted can have set one.
  <1>CancelStep. ASSUME CompanionInv, NEW t \in DOMAIN hi, CancelAlarms(t) PROVE CompanionInv'
    <2> USE <1>CancelStep
    <2>1. /\ hi[t].at = "cancel" /\ Greets(t) /\ alarm' = 0 /\ Goes(t, "ready") /\ "ready" \in Places
          /\ UNCHANGED <<statsd, inbox, toCompanion, published, sStatsd, mStatsd, entries, client, receivers,
                     linked, died, mBootCompleted, boot, uidThreads, packages, broadcast, calls, mishaps, world, leaked>>
      BY Zenon DEF CancelAlarms, Greets, processVars, Places, Early
    <2>2. PICK g \in Greetings : /\ MovesTo(t, g) /\ g.at = "ready"
                                 /\ g.statsd = hi[t].statsd /\ g.kind = hi[t].kind /\ g.todo = hi[t].todo
      BY Zenon, <2>1, GoesTo
    <2>3. g.kind = 1
      BY Zenon, <2>1, <2>2 DEF CompanionInv, KnownOK
    <2>4. CompanionTypeOK'
      <3>1. hi' \in [{"main", "binder"} -> Threads]
        BY Zenon, <2>1, <2>2, Advanced
      <3> QED BY Zenon, <2>1, <2>2, <3>1 DEF CompanionInv, CompanionTypeOK, Threads
    <2>5. KnownOK' /\ OneGreeting' /\ Noticed' /\ ReceiversOK'
      BY Zenon, <2>1, <2>2, <2>3, AdvancedFrame
    <2>6. AlarmKept'
      <3>1. mishaps = {} /\ statsd.up => ~statsd.companion /\ ~statsd.armed
        BY Zenon, <2>1 DEF CompanionInv, AlarmKept, Greeting, Early
      <3> QED BY Zenon, <2>1, <3>1 DEF AlarmKept
    <2>7. TriggerOK' /\ ClientOK'
      BY Zenon, <2>1 DEF CompanionInv, TriggerOK, Posted, ClientOK
    <2>8. t \in DOMAIN hi' /\ hi'[t].at = "ready"
      BY <2>1, <2>2, Advanced
    <2>9. Greeting({"cancel", "ready"})' /\ Greeting(Early)' /\ Greeting(Early \cup {"receivers"})'
      BY Zenon, <2>8 DEF Greeting, Early
    <2>10. ManagerConnected' /\ CompanionTold' /\ ReceiversTold' /\ PullersTold' /\ EntriesTold'
      BY Zenon, <2>9 DEF ManagerConnected, CompanionTold, ReceiversTold, PullersTold, EntriesTold
    <2>11. BootTold' /\ UidsTold' /\ UidMapTold'
      BY Zenon, <2>1, <2>2, StillGreeting
    <2> QED BY Zenon, <2>4, <2>5, <2>6, <2>7, <2>10, <2>11 DEF CompanionInv
  \* From here on the manager knows statsd, and every entry will be copied.
  <1>ManagerReadyStep. ASSUME CompanionInv, NEW t \in DOMAIN hi, ManagerReady(t) PROVE CompanionInv'
    <2> USE <1>ManagerReadyStep
    <2>1. /\ hi[t].at = "ready" /\ Greets(t) /\ mStatsd' = hi[t].statsd /\ Goes(t, "copy") /\ "copy" \in Places
          /\ UNCHANGED <<statsd, inbox, toCompanion, published, sStatsd, entries, client, alarm, receivers,
                     linked, died, mBootCompleted, boot, uidThreads, packages, broadcast, calls, mishaps, world, leaked>>
      BY Zenon DEF ManagerReady, Greets, processVars, Places, Early
    <2>2. PICK g \in Greetings : /\ MovesTo(t, g) /\ g.at = "copy"
                                 /\ g.statsd = hi[t].statsd /\ g.kind = hi[t].kind /\ g.todo = hi[t].todo
      BY Zenon, <2>1, GoesTo
    <2>3. g.kind = 1 /\ 1 \in DOMAIN Kinds /\ DOMAIN Kinds \subseteq Nat \ {0}
      BY <2>1, <2>2, CompanionAssumption DEF CompanionInv, KnownOK
    <2>4. CompanionTypeOK'
      <3>1. hi' \in [{"main", "binder"} -> Threads]
        BY Zenon, <2>1, <2>2, Advanced
      <3>2. mStatsd' \in Nat
        BY Zenon, <2>1, <2>2, Advanced DEF Greetings
      <3> QED BY Zenon, <2>1, <3>1, <3>2 DEF CompanionInv, CompanionTypeOK, Threads
    <2>5. KnownOK' /\ OneGreeting' /\ Noticed' /\ ReceiversOK' /\ AlarmKept'
      BY Zenon, <2>1, <2>2, <2>3, AdvancedFrame DEF Early
    <2>6. TriggerOK' /\ ClientOK'
      BY Zenon, <2>1 DEF CompanionInv, TriggerOK, Posted, ClientOK
    <2>7. t \in DOMAIN hi' /\ hi'[t] = g
      BY Zenon, <2>1, <2>2, Advanced
    <2>8. Greeting(Early)' /\ Greeting(Early \cup {"receivers"})'
      BY Zenon, <2>2, <2>7 DEF Greeting, Early
    <2>9. \A i \in DOMAIN Kinds : WillCome(i)'
      BY <2>2, <2>3, <2>7 DEF WillCome
    <2>10. \A k \in KindSet : WillSend(k)'
      BY Zenon, <2>9 DEF KindSet, WillSend
    <2>11. PullersTold' /\ EntriesTold'
      <3>1. entries' \subseteq KindSet
        BY Zenon, <2>1 DEF CompanionInv, CompanionTypeOK
      <3> QED BY Zenon, <2>9, <2>10, <3>1, CompanionAssumption DEF PullersTold, EntriesTold
    <2>12. ManagerConnected'
      <3>1. Connected' => Connected
        BY Zenon, <2>1 DEF Connected
      <3> QED BY Zenon, <2>1, <3>1, Sole DEF ManagerConnected
    <2>13. CompanionTold' /\ ReceiversTold'
      BY Zenon, <2>8 DEF CompanionTold, ReceiversTold
    <2>14. BootTold' /\ UidsTold' /\ UidMapTold'
      BY Zenon, <2>1, <2>2, StillGreeting
    <2> QED BY Zenon, <2>4, <2>5, <2>6, <2>11, <2>12, <2>13, <2>14 DEF CompanionInv
  <1>TruthValue. ASSUME NEW x, NEW S PROVE \E b \in BOOLEAN : b = (x \in S)
    <2> USE <1>TruthValue
    <2>1. CASE x \in S
      <3>1. (x \in S) = TRUE
        BY Zenon, <2>1
      <3> QED BY Zenon, <3>1
    <2>2. CASE x \notin S
      <3>1. (x \in S) = FALSE
        BY <2>2
      <3> QED BY Zenon, <3>1
    <2> QED BY Zenon, <2>1, <2>2
  \* What is not copied is told by the client that registers it.
  <1>CopyStep. ASSUME CompanionInv, NEW t \in DOMAIN hi, CopyEntries(t) PROVE CompanionInv'
    <2> USE <1>CopyStep
    <2>1. /\ hi[t].at = "copy" /\ Greets(t)
          /\ hi' = [hi EXCEPT ![t].at = "send", ![t].todo = Kinds[hi[t].kind] \in entries]
          /\ UNCHANGED <<statsd, inbox, toCompanion, published, sStatsd, mStatsd, entries, client, alarm, receivers,
                     linked, died, mBootCompleted, boot, uidThreads, packages, broadcast, calls, mishaps, world, leaked>>
      BY Zenon DEF CopyEntries, Greets, processVars
    <2>2. PICK g \in Greetings : /\ MovesTo(t, g) /\ g.at = "send"
                                 /\ g.statsd = hi[t].statsd /\ g.kind = hi[t].kind
                                 /\ g.todo <=> Kinds[hi[t].kind] \in entries
      <3>0. PICK b \in BOOLEAN : b = (Kinds[hi[t].kind] \in entries)
        BY Zenon, <1>TruthValue
      <3> DEFINE r == [hi[t] EXCEPT !.at = "send", !.todo = b]
      <3>1. hi \in [{"main", "binder"} -> Threads]
        BY Zenon DEF CompanionInv, CompanionTypeOK, Threads
      <3>2. hi[t] \in Greetings
        BY <2>1, <3>1 DEF Greets, Threads, Resting
      <3>3. /\ r \in Greetings /\ r.at = "send" /\ r.statsd = hi[t].statsd
            /\ r.kind = hi[t].kind /\ r.todo = b
        BY Zenon, <3>2 DEF Greetings, Places, Early
      <3>4. MovesTo(t, r)
        BY Zenon, <2>1, <3>0, <3>1, <3>2 DEF MovesTo
      <3> HIDE DEF r
      <3> QED BY Zenon, <3>0, <3>3, <3>4
    <2>3. g.kind \in DOMAIN Kinds
      BY Zenon, <2>1, <2>2 DEF CompanionInv, KnownOK
    <2>4. CompanionTypeOK'
      <3>1. hi' \in [{"main", "binder"} -> Threads]
        BY Zenon, <2>1, <2>2, Advanced
      <3> QED BY Zenon, <2>1, <2>2, <3>1 DEF CompanionInv, CompanionTypeOK, Threads
    <2>5. KnownOK' /\ OneGreeting' /\ Noticed' /\ ReceiversOK' /\ AlarmKept'
      BY Zenon, <2>1, <2>2, <2>3, AdvancedFrame DEF Early
    <2>6. TriggerOK' /\ ClientOK'
      BY Zenon, <2>1 DEF CompanionInv, TriggerOK, Posted, ClientOK
    <2>7. t \in DOMAIN hi' /\ hi'[t] = g
      BY <2>1, <2>2, Advanced
    <2>8. Greeting(Early)' /\ Greeting(Early \cup {"receivers"})'
      BY Zenon, <2>2, <2>7 DEF Greeting, Early
    <2>9. CompanionTold' /\ ReceiversTold'
      BY Zenon, <2>8 DEF CompanionTold, ReceiversTold
    <2>10. BootTold' /\ UidsTold' /\ UidMapTold'
      BY Zenon, <2>1, <2>2, StillGreeting
    <2>11. ASSUME Connected' PROVE ManagerConnected' /\ PullersTold' /\ EntriesTold'
      <3>1. Connected
        BY Zenon, <2>1, <2>11 DEF Connected
      <3>2. ~Greeting({"cancel", "ready"})
        BY Zenon, <2>1, <3>1, Sole, StageSets
      <3>3. \A i \in DOMAIN Kinds : WillCome(i) \/ IsAt(i) => (i > g.kind => WillCome(i)') /\ (i = g.kind => IsAt(i)')
                                                          /\ i >= g.kind
        BY <2>1, <2>2, <2>3, <2>7, <3>1, Sole DEF WillCome, IsAt, Greets
      <3>4. \A i \in DOMAIN Kinds : WillCome(i) \/ IsAt(i) => WillCome(i)' \/ IsAt(i)'
        BY <3>3, <2>3, CompanionAssumption
      <3>5. ManagerConnected' /\ PullersTold'
        BY Zenon, <2>1, <3>1, <3>2, <3>4 DEF CompanionInv, ManagerConnected, PullersTold, Posted
      <3>6. ASSUME NEW k \in entries, WillSend(k) PROVE WillSend(k)'
        <4>1. PICK i \in DOMAIN Kinds : Kinds[i] = k /\ (WillCome(i) \/ IsAt(i))
          BY Zenon, <3>6 DEF WillSend, IsAt
        <4>2. CASE i > g.kind
          BY Zenon, <3>3, <4>1, <4>2 DEF WillSend
        <4>3. CASE i = g.kind
          BY Zenon, <2>2, <2>7, <3>6, <4>1, <4>3 DEF WillSend
        <4> QED BY <3>3, <4>1, <4>2, <4>3, <2>3, CompanionAssumption
      <3>7. \A k \in entries : WillTell(k) \/ Reaches(k) => WillTell(k)' \/ Reaches(k)'
        BY Zenon, <2>1, ReachesUnchanged, WillTellUnchanged
      <3>8. EntriesTold'
        BY Zenon, <2>1, <3>1, <3>2, <3>6, <3>7 DEF CompanionInv, EntriesTold
      <3> QED BY Zenon, <3>5, <3>8
    <2>12. ManagerConnected' /\ PullersTold' /\ EntriesTold'
      BY Zenon, <2>11, NotConnected
    <2> QED BY Zenon, <2>4, <2>5, <2>6, <2>9, <2>10, <2>12 DEF CompanionInv
  <1> QED BY Zenon, <1>FetchStep, <1>CancelStep, <1>ManagerReadyStep, <1>CopyStep

\* The entries are sent.
LEMMA GreetingSends ==
    CompanionInv /\ (\E t \in DOMAIN hi : SendEntries(t)) => CompanionInv'
  \* The calls for a kind have been made: what the greeting was to tell of it,
  \* statsd knows or will know.
  <1>SentStep. ASSUME CompanionInv, NEW t \in DOMAIN hi, hi[t].at = "send", NEW g \in Greetings,
                      MovesTo(t, g), g.statsd = hi[t].statsd, g.kind = hi[t].kind + 1,
                      g.at = IF hi[t].kind = Len(Kinds) THEN "companionReady" ELSE "copy",
                      statsd' \in JavaStatsds, statsd'.n = statsd.n, statsd'.up = statsd.up,
                      statsd'.greet = statsd.greet, statsd'.companion = statsd.companion,
                      statsd'.armed = statsd.armed, statsd'.remaining = statsd.remaining,
                      statsd'.inits = statsd.inits,
                      inbox' \in Seq(InboxCalls), Posted("bootCompleted")' => Posted("bootCompleted"),
                      NEW sent, sent = Kinds[hi[t].kind],
                      sent = "puller" \/ Posted("allPullersFromBootRegistered")
                         => Posted("allPullersFromBootRegistered")',
                      \A k \in entries : Reaches(k) => Reaches(k)',
                      sent \in entries /\ (hi[t].todo \/ ~SendsCopy(sent)) => Reaches(sent)',
                      UNCHANGED <<toCompanion, published, sStatsd, mStatsd, entries, client, alarm, receivers,
                                 linked, died, mBootCompleted, boot, uidThreads, packages, broadcast, mishaps, leaked>>
               PROVE  CompanionInv'
    <2> USE <1>SentStep
    <2>1. Greets(t) /\ hi[t].kind \in DOMAIN Kinds /\ DOMAIN Kinds = 1..Len(Kinds) /\ Len(Kinds) \in Nat
      BY CompanionAssumption DEF Greets, CompanionInv, KnownOK
    <2>2. g.at \in Early /\ (g.at \in {"copy", "send"} => g.kind \in DOMAIN Kinds)
      BY <2>1 DEF Early
    <2>3. CompanionTypeOK'
      <3>1. hi' \in [{"main", "binder"} -> Threads]
        BY Zenon, <2>1, Advanced
      <3> QED BY Zenon, <2>1, <3>1 DEF CompanionInv, CompanionTypeOK, Threads
    <2>4. KnownOK' /\ OneGreeting' /\ Noticed' /\ ReceiversOK' /\ AlarmKept'
      BY Zenon, <2>1, <2>2, AdvancedFrame DEF Early
    <2>5. TriggerOK' /\ ClientOK'
      BY Zenon, TriggerFrame DEF CompanionInv, ClientOK
    <2>6. t \in DOMAIN hi' /\ hi'[t] = g
      BY <2>1, Advanced
    <2>7. CompanionTold' /\ ReceiversTold'
      BY Zenon, <2>2, <2>6 DEF CompanionTold, ReceiversTold, Greeting
    <2>8. BootTold' /\ UidsTold' /\ UidMapTold'
      BY Zenon, <2>1, StillGreeting
    <2>9. ASSUME Connected' PROVE ManagerConnected' /\ PullersTold' /\ EntriesTold'
      <3>1. Connected
        BY Zenon, <2>9 DEF Connected
      <3>2. ~Greeting({"cancel", "ready"}) /\ \A u \in DOMAIN hi : Greets(u) => u = t
        BY Zenon, <2>1, <3>1, Sole, StageSets
      <3>3. \A i \in DOMAIN Kinds : WillCome(i) => WillCome(i)'
        <4> SUFFICES ASSUME NEW i \in DOMAIN Kinds, WillCome(i) PROVE WillCome(i)'
          BY Zenon
        <4>1. i > hi[t].kind
          BY Zenon, <3>2 DEF WillCome, Greets
        <4>2. g.at = "copy" /\ i >= g.kind
          BY <2>1, <4>1
        <4> QED BY Zenon, <2>6, <4>2 DEF WillCome
      <3>4. \A i \in DOMAIN Kinds : IsAt(i) => i = hi[t].kind
        BY Zenon, <3>2 DEF IsAt, Greets
      <3>5. ManagerConnected'
        BY Zenon, <3>1, <3>2 DEF CompanionInv, ManagerConnected
      <3>6. PullersTold'
        BY Zenon, <3>1, <3>2, <3>3, <3>4 DEF CompanionInv, PullersTold
      <3>7. ASSUME NEW k \in entries, WillSend(k) PROVE WillSend(k)' \/ Reaches(k)'
        <4>1. PICK i \in DOMAIN Kinds : /\ Kinds[i] = k
                              /\ \/ WillCome(i)
                                 \/ \E u \in DOMAIN hi : /\ hi[u].at = "send" /\ hi[u].kind = i
                                                         /\ hi[u].todo \/ ~SendsCopy(k)
          BY Zenon, <3>7 DEF WillSend
        <4>2. CASE WillCome(i)
          BY Zenon, <3>3, <4>1, <4>2 DEF WillSend
        <4>3. CASE \E u \in DOMAIN hi : /\ hi[u].at = "send" /\ hi[u].kind = i
                                        /\ hi[u].todo \/ ~SendsCopy(k)
          <5>1. hi[t].kind = i /\ (hi[t].todo \/ ~SendsCopy(k))
            BY Zenon, <3>2, <4>3 DEF Greets
          <5> QED BY Zenon, <4>1, <5>1
        <4> QED BY Zenon, <4>1, <4>2, <4>3
      <3>8. \A k \in entries : WillTell(k) => WillTell(k)'
        BY Zenon, WillTellUnchanged
      <3>9. EntriesTold'
        BY Zenon, <3>1, <3>2, <3>7, <3>8 DEF CompanionInv, EntriesTold
      <3> QED BY Zenon, <3>5, <3>6, <3>9
    <2>10. ManagerConnected' /\ PullersTold' /\ EntriesTold'
      BY Zenon, <2>9, NotConnected
    <2> QED BY Zenon, <2>3, <2>4, <2>5, <2>7, <2>8, <2>10 DEF CompanionInv
  <1>Appended. ASSUME NEW S, NEW s \in Seq(S), NEW x \in S
               PROVE  /\ Append(s, x) \in Seq(S) /\ Len(s) \in Nat /\ Len(Append(s, x)) = Len(s) + 1
                      /\ Append(s, x)[Len(s) + 1] = x /\ \A i \in 1..Len(s) : Append(s, x)[i] = s[i]
    OBVIOUS
  <1>PullerCalls. /\ RegisterPuller \in InboxCalls /\ RegisterPuller.op = "register"
                  /\ AllPullers \in InboxCalls /\ AllPullers.op = "allPullersFromBootRegistered"
                  /\ \A k : /\ RegisterPuller # [op |-> "unregister", entry |-> k]
                           /\ AllPullers # [op |-> "unregister", entry |-> k]
    BY Zenon DEF InboxCalls, RegisterPuller, AllPullers
  \* Two calls after the others.
  <1>AppendedTwo. ASSUME NEW S, NEW s \in Seq(S), NEW x \in S, NEW y \in S, NEW z, z = Append(Append(s, x), y)
                  PROVE  /\ z \in Seq(S) /\ Len(s) \in Nat /\ DOMAIN s = 1..Len(s) /\ DOMAIN z = 1..(Len(s) + 2)
                         /\ z[Len(s) + 1] = x /\ z[Len(s) + 2] = y /\ \A i \in 1..Len(s) : z[i] = s[i]
    <2> USE <1>AppendedTwo
    <2>1. PICK u \in Seq(S) : u = Append(s, x)
      BY Zenon, <1>Appended
    <2>2. /\ Len(s) \in Nat /\ Len(u) = Len(s) + 1 /\ u[Len(s) + 1] = x
          /\ \A i \in 1..Len(s) : u[i] = s[i]
      BY <2>1, <1>Appended
    <2>3. /\ z \in Seq(S) /\ Len(z) = Len(u) + 1 /\ z[Len(u) + 1] = y
          /\ \A i \in 1..Len(u) : z[i] = u[i]
      BY <2>1, <1>Appended
    <2>4. DOMAIN s = 1..Len(s) /\ DOMAIN z = 1..Len(z)
      BY <2>3
    <2> HIDE <2>1
    <2> QED BY <2>2, <2>3, <2>4
  \* The pullers, and that these are all, in one-way calls.
  <1>PullersPosted. ASSUME CompanionInv, NEW send \in BOOLEAN, UNCHANGED statsd,
                           inbox' = Append(IF send THEN Append(inbox, RegisterPuller) ELSE inbox, AllPullers)
                    PROVE  /\ inbox' \in Seq(InboxCalls)
                           /\ Posted("bootCompleted")' => Posted("bootCompleted")
                           /\ Posted("allPullersFromBootRegistered")'
                           /\ \A k \in entries : Reaches(k) => Reaches(k)'
                           /\ send => Reaches("puller")'
    <2> USE <1>PullersPosted
    <2>1. PICK reg, all \in InboxCalls : /\ reg = RegisterPuller /\ all = AllPullers /\ reg.op = "register"
                                        /\ all.op = "allPullersFromBootRegistered"
                                        /\ \A k : /\ reg # [op |-> "unregister", entry |-> k]
                                                 /\ all # [op |-> "unregister", entry |-> k]
      BY Zenon, <1>PullerCalls
    <2>2. inbox \in Seq(InboxCalls)
      BY Zenon DEF CompanionInv, CompanionTypeOK
    <2>4. /\ inbox' \in Seq(InboxCalls)
          /\ \A i \in DOMAIN inbox : i \in DOMAIN inbox' /\ inbox'[i] = inbox[i]
          /\ \A i \in DOMAIN inbox' : i \notin DOMAIN inbox => inbox'[i] \in {reg, all}
          /\ \E i \in DOMAIN inbox' : inbox'[i] = all
          /\ send => \E i \in DOMAIN inbox' : /\ inbox'[i] = reg
                                              /\ \A j \in DOMAIN inbox' : j > i => inbox'[j] = all
      <3>1. CASE send
        <4>1. inbox' = Append(Append(inbox, reg), all)
          BY Zenon, <2>1, <3>1
        <4>2. /\ inbox' \in Seq(InboxCalls) /\ Len(inbox) \in Nat
              /\ DOMAIN inbox = 1..Len(inbox) /\ DOMAIN inbox' = 1..(Len(inbox) + 2)
              /\ inbox'[Len(inbox) + 1] = reg /\ inbox'[Len(inbox) + 2] = all
              /\ \A i \in 1..Len(inbox) : inbox'[i] = inbox[i]
          BY <2>2, <4>1, <1>AppendedTwo
        <4>3. \A i \in 1..(Len(inbox) + 2) : i \in 1..Len(inbox) \/ i = Len(inbox) + 1 \/ i = Len(inbox) + 2
          BY <4>2
        <4>4. /\ Len(inbox) + 1 \in DOMAIN inbox' /\ Len(inbox) + 2 \in DOMAIN inbox'
              /\ \A j \in DOMAIN inbox' : j > Len(inbox) + 1 => j = Len(inbox) + 2
          BY <4>2
        <4> QED BY <4>2, <4>3, <4>4
      <3>2. CASE ~send
        <4>1. inbox' = Append(inbox, all)
          BY Zenon, <2>1, <3>2
        <4>2. /\ inbox' \in Seq(InboxCalls) /\ Len(inbox) \in Nat /\ Len(inbox') = Len(inbox) + 1
              /\ inbox'[Len(inbox) + 1] = all /\ \A i \in 1..Len(inbox) : inbox'[i] = inbox[i]
          BY <2>2, <4>1, <1>Appended
        <4>3. DOMAIN inbox = 1..Len(inbox) /\ DOMAIN inbox' = 1..(Len(inbox) + 1)
          BY <2>2, <4>2
        <4>4. Len(inbox) + 1 \in DOMAIN inbox'
          BY <4>2, <4>3
        <4> QED BY <3>2, <4>2, <4>3, <4>4
      <3> QED BY Zenon, <3>1, <3>2
    <2> USE <2>4
    <2>5. Posted("bootCompleted")' => Posted("bootCompleted")
      BY <2>1 DEF Posted
    <2>6. Posted("allPullersFromBootRegistered")'
      BY <2>1 DEF Posted
    <2>7. \A k, j : j \in DOMAIN inbox' /\ Withdrawn(j, k)' => j \in DOMAIN inbox /\ Withdrawn(j, k)
      BY <2>1 DEF Withdrawn
    <2>8. \A k \in entries : Reaches(k) => Reaches(k)'
      BY Zenon, <2>7 DEF Reaches
    <2>9. send => Reaches("puller")'
      <3> SUFFICES ASSUME send PROVE Reaches("puller")'
        BY Zenon
      <3>1. PICK i \in DOMAIN inbox' : /\ inbox'[i] = reg
                                       /\ \A j \in DOMAIN inbox' : j > i => inbox'[j] = all
        BY Zenon
      <3>2. \A j \in DOMAIN inbox' : j > i => ~Withdrawn(j, "puller")'
        BY <2>1, <3>1 DEF Withdrawn
      <3> QED BY Zenon, <2>1, <3>1, <3>2 DEF Reaches, RegisterPuller
    <2> QED BY Zenon, <2>5, <2>6, <2>8, <2>9
  \* What is copied, or still an entry, is sent.
  <1>SendStep. ASSUME CompanionInv, NEW t \in DOMAIN hi, SendEntries(t) PROVE CompanionInv'
    <2> USE <1>SendStep
    <2>1. /\ hi[t].at = "send" /\ Greets(t)
          /\ UNCHANGED <<toCompanion, published, sStatsd, mStatsd, entries, client, alarm, receivers,
                        linked, died, mBootCompleted, boot, uidThreads, packages, broadcast, calls, mishaps, world, leaked>>
      BY Zenon DEF SendEntries, Greets
    <2>2. /\ hi[t].kind \in DOMAIN Kinds /\ Kinds[hi[t].kind] \in KindSet /\ hi[t] \in Greetings
          /\ hi \in [{"main", "binder"} -> Threads] /\ hi[t].kind \in Nat
          /\ statsd \in JavaStatsds /\ inbox \in Seq(InboxCalls)
      <3>1. hi \in [{"main", "binder"} -> Threads]
        BY Zenon DEF CompanionInv, CompanionTypeOK, Threads
      <3>2. hi[t] \in Greetings
        BY <2>1, <3>1 DEF Threads, Greets, Resting
      <3>3. hi[t].kind \in DOMAIN Kinds
        BY Zenon, <2>1 DEF CompanionInv, KnownOK
      <3> QED BY Zenon, <3>1, <3>2, <3>3 DEF KindSet, Greetings, CompanionInv, CompanionTypeOK
    <2>3. PICK k \in KindSet : k = Kinds[hi[t].kind]
      BY Zenon, <2>2
    <2>4. PICK send \in BOOLEAN : send <=> (IF SendsCopy(k) THEN hi[t].todo ELSE k \in entries)
      BY Zenon
    <2>5. CASE (send \/ k = "puller") /\ ~Alive(hi[t].statsd)
      <3>1. Goes(t, "companionReady") /\ UNCHANGED <<statsd, inbox>> /\ "companionReady" \in Places
        BY Zenon, <2>3, <2>4, <2>5 DEF SendEntries, Places, Early
      <3> USE <3>1
      <3>2. PICK g \in Greetings : /\ MovesTo(t, g) /\ g.at = "companionReady"
                                   /\ g.statsd = hi[t].statsd /\ g.kind = hi[t].kind /\ g.todo = hi[t].todo
        BY Zenon, <2>1, GoesTo
      <3>3. CompanionTypeOK'
        <4>1. hi' \in [{"main", "binder"} -> Threads]
          BY Zenon, <2>1, <3>2, Advanced
        <4> QED BY Zenon, <2>1, <3>2, <4>1 DEF CompanionInv, CompanionTypeOK, Threads
      <3>4. KnownOK' /\ OneGreeting' /\ Noticed' /\ ReceiversOK' /\ AlarmKept'
        BY Zenon, <2>1, <3>2, AdvancedFrame DEF Early
      <3>5. TriggerOK' /\ ClientOK'
        BY Zenon, <2>1 DEF CompanionInv, TriggerOK, Posted, ClientOK
      <3>6. ~Connected
        BY Zenon, <2>1, <2>5, Sole
      <3>7. ~Connected'
        BY Zenon, <2>1, <3>6 DEF Connected
      <3> QED BY Zenon, <3>3, <3>4, <3>5, <3>7, NotConnected DEF CompanionInv
    <2>6. CASE ~((send \/ k = "puller") /\ ~Alive(hi[t].statsd))
      <3>1. hi' = [hi EXCEPT ![t].at = IF hi[t].kind = Len(Kinds) THEN "companionReady" ELSE "copy",
                             ![t].kind = @ + 1]
        BY Zenon, <2>3, <2>4, <2>6 DEF SendEntries
      <3>2. PICK g \in Greetings : /\ MovesTo(t, g) /\ g.statsd = hi[t].statsd
                                   /\ g.kind = hi[t].kind + 1
                                   /\ g.at = IF hi[t].kind = Len(Kinds) THEN "companionReady" ELSE "copy"
        <4>1. PICK place \in Places : place = IF hi[t].kind = Len(Kinds) THEN "companionReady" ELSE "copy"
          BY Zenon DEF Places, Early
        <4>2. PICK next \in Nat : next = hi[t].kind + 1
          BY <2>2
        <4> DEFINE r == [hi[t] EXCEPT !.at = place, !.kind = next]
        <4>3. r \in Greetings /\ r.at = place /\ r.statsd = hi[t].statsd /\ r.kind = next
          BY Zenon, <2>2 DEF Greetings
        <4>4. MovesTo(t, r)
          BY Zenon, <2>2, <3>1, <4>1, <4>2 DEF MovesTo
        <4> HIDE DEF r
        <4> QED BY Zenon, <4>1, <4>2, <4>3, <4>4
      <3>3. CASE k = "puller"
        <4>1. UNCHANGED statsd /\ inbox' = Append(IF send THEN Append(inbox, RegisterPuller) ELSE inbox, AllPullers)
          <5>1. /\ UNCHANGED statsd
                /\ inbox' = inbox \o (IF send THEN <<RegisterPuller>> ELSE <<>>) \o <<AllPullers>>
            BY Zenon, <2>3, <2>4, <2>6, <3>3 DEF SendEntries, RegisterPuller, AllPullers
          <5>2. \A r, a \in InboxCalls : inbox \o <<r>> \o <<a>> = Append(Append(inbox, r), a)
            BY <2>2
          <5>3. \A a \in InboxCalls : inbox \o <<>> \o <<a>> = Append(inbox, a)
            BY <2>2
          <5> QED BY Zenon, <5>1, <5>2, <5>3, <1>PullerCalls
        <4>2. /\ inbox' \in Seq(InboxCalls)
              /\ Posted("bootCompleted")' => Posted("bootCompleted")
              /\ Posted("allPullersFromBootRegistered")'
              /\ \A j \in entries : Reaches(j) => Reaches(j)'
              /\ send => Reaches("puller")'
          BY Zenon, <4>1, <1>PullersPosted
        <4>3. k \in entries /\ (hi[t].todo \/ ~SendsCopy(k)) => Reaches(k)'
          BY Zenon, <2>4, <3>3, <4>2
        <4> QED BY Zenon, <2>1, <2>2, <2>3, <3>2, <4>1, <4>2, <4>3, <1>SentStep
      <3>4. CASE k # "puller" /\ send
        <4>1. statsd' = Handled(statsd, [op |-> "register", entry |-> k]) /\ UNCHANGED inbox
          BY Zenon, <2>3, <2>4, <2>6, <3>4 DEF SendEntries, Tell, OneWay
        <4>2. /\ statsd' \in JavaStatsds
              /\ statsd'.n = statsd.n /\ statsd'.up = statsd.up /\ statsd'.greet = statsd.greet
              /\ statsd'.companion = statsd.companion /\ statsd'.armed = statsd.armed
              /\ statsd'.remaining = statsd.remaining /\ statsd'.inits = statsd.inits
              /\ Reaches(k)' /\ \A j \in entries : Reaches(j) => Reaches(j)'
          BY Zenon, <3>4, <4>1, RegisteredAtOnce
        <4>3. /\ inbox' \in Seq(InboxCalls) /\ (Posted("bootCompleted")' => Posted("bootCompleted"))
              /\ Posted("allPullersFromBootRegistered") => Posted("allPullersFromBootRegistered")'
          BY Zenon, <2>2, <4>1 DEF Posted
        <4>4. /\ k \in entries /\ (hi[t].todo \/ ~SendsCopy(k)) => Reaches(k)'
              /\ k = "puller" \/ Posted("allPullersFromBootRegistered")
                    => Posted("allPullersFromBootRegistered")'
          BY Zenon, <3>4, <4>2, <4>3
        <4> QED BY Zenon, <2>1, <2>3, <3>2, <4>2, <4>3, <4>4, <1>SentStep
      <3>5. CASE k # "puller" /\ ~send
        <4>1. UNCHANGED <<statsd, inbox>>
          BY Zenon, <2>3, <2>4, <2>6, <3>5 DEF SendEntries
        <4>2. /\ inbox' \in Seq(InboxCalls) /\ (Posted("bootCompleted")' => Posted("bootCompleted"))
              /\ Posted("allPullersFromBootRegistered") => Posted("allPullersFromBootRegistered")'
          BY Zenon, <2>2, <4>1 DEF Posted
        <4>3. \A j \in entries : Reaches(j) => Reaches(j)'
          BY Zenon, <4>1, ReachesUnchanged
        <4>4. /\ k \in entries /\ (hi[t].todo \/ ~SendsCopy(k)) => Reaches(k)'
              /\ k = "puller" \/ Posted("allPullersFromBootRegistered")
                    => Posted("allPullersFromBootRegistered")'
          BY Zenon, <2>4, <3>5, <4>2
        <4> QED BY Zenon, <2>1, <2>2, <2>3, <3>2, <4>1, <4>2, <4>3, <4>4, <1>SentStep
      <3> QED BY Zenon, <3>3, <3>4, <3>5
    <2> QED BY Zenon, <2>5, <2>6
  <1> QED BY Zenon, <1>SendStep

\* After the entries have been sent, or when the greeting is given up.
LEMMA GreetingEnds ==
    CompanionInv /\ (\E t \in DOMAIN hi : \/ IterationThrows(t) \/ CallCompanionReady(t) \/ RegisterReceivers(t)
                                          \/ LinkToDeath(t) \/ TellBootAndUids(t))
      => CompanionInv'
  \* A greeting that is given up because the map changed is one of the mishaps.
  <1>IterationThrowsStep. ASSUME CompanionInv, NEW t \in DOMAIN hi, IterationThrows(t) PROVE CompanionInv'
    <2> USE <1>IterationThrowsStep
    <2>1. /\ hi[t].at = "send" /\ Greets(t) /\ MovesTo(t, Resting) /\ mishaps' # {}
          /\ UNCHANGED <<statsd, inbox, toCompanion, published, sStatsd, mStatsd, entries, client, alarm, receivers,
                     linked, died, mBootCompleted, boot, uidThreads, packages, broadcast, calls, world, leaked>>
      BY Zenon DEF IterationThrows, Greets, processVars, MovesTo
    <2>2. CompanionTypeOK'
      <3>1. hi' \in [{"main", "binder"} -> Threads]
        BY Zenon, <2>1, Advanced
      <3> QED BY Zenon, <2>1, <3>1 DEF CompanionInv, CompanionTypeOK, Threads
    <2>3. KnownOK' /\ Noticed' /\ ReceiversOK'
      BY Zenon, <2>1, AdvancedFrame, RestingIsNoGreeting
    <2>4. OneGreeting' /\ AlarmKept'
      BY Zenon, <2>1 DEF OneGreeting, AlarmKept
    <2>5. TriggerOK' /\ ClientOK'
      BY Zenon, <2>1 DEF CompanionInv, TriggerOK, Posted, ClientOK
    <2>6. ~Connected'
      BY Zenon, <2>1 DEF Connected
    <2> QED BY Zenon, <2>2, <2>3, <2>4, <2>5, <2>6, NotConnected DEF CompanionInv
  <1>SoleNext. ASSUME CompanionInv, Connected, NEW t \in DOMAIN hi, Greets(t), NEW g \in Greetings \cup {Resting},
                      MovesTo(t, g)
               PROVE  \A S \in SUBSET Places : Greeting(S)' <=> g.at \in S
    <2> USE <1>SoleNext
    <2>1. /\ DOMAIN hi' = DOMAIN hi
          /\ hi'[t] = g /\ \A u \in DOMAIN hi : u # t => hi'[u] = hi[u]
      BY Zenon, Advanced
    <2>2. \A u \in DOMAIN hi : Greets(u) => u = t
      BY Zenon, Sole
    <2> QED BY Zenon, <2>1, <2>2 DEF Greeting, Greets, Places, Early
  \* statsd learns of its companion only when everything has been registered.
  <1>CompanionReadyStep. ASSUME CompanionInv, NEW t \in DOMAIN hi, CallCompanionReady(t) PROVE CompanionInv'
    <2> USE <1>CompanionReadyStep
    <2>1. /\ hi[t].at = "companionReady" /\ Greets(t)
          /\ UNCHANGED <<inbox, toCompanion, published, sStatsd, mStatsd, entries, client, alarm, receivers,
                     linked, died, mBootCompleted, boot, uidThreads, packages, broadcast, calls, mishaps, world, leaked>>
      BY Zenon DEF CallCompanionReady, Greets
    <2>2. CASE Alive(hi[t].statsd)
      <3>1. /\ statsd' = [statsd EXCEPT !.companion = TRUE] /\ Goes(t, "receivers") /\ "receivers" \in Places
            /\ statsd \in JavaStatsds
        BY Zenon, <2>2 DEF CallCompanionReady, Places, CompanionInv, CompanionTypeOK
      <3>2. /\ statsd' \in JavaStatsds /\ statsd'.n = statsd.n /\ statsd'.up = statsd.up
            /\ statsd'.greet = statsd.greet /\ statsd'.companion /\ statsd'.armed = statsd.armed
            /\ statsd'.remaining = statsd.remaining /\ statsd'.inits = statsd.inits
            /\ statsd'.uidMap = statsd.uidMap /\ statsd'.regs = statsd.regs
        BY Zenon, <3>1 DEF JavaStatsds
      <3>3. PICK g \in Greetings : /\ MovesTo(t, g) /\ g.at = "receivers"
                                   /\ g.statsd = hi[t].statsd /\ g.kind = hi[t].kind /\ g.todo = hi[t].todo
        BY Zenon, <2>1, <3>1, GoesTo
      <3>4. CompanionTypeOK'
        <4>1. hi' \in [{"main", "binder"} -> Threads]
          BY Zenon, <2>1, <3>2, <3>3, Advanced
        <4> QED BY Zenon, <2>1, <3>2, <3>3, <4>1 DEF CompanionInv, CompanionTypeOK, Threads
      <3>5. KnownOK' /\ OneGreeting' /\ Noticed' /\ ReceiversOK'
        BY Zenon, <2>1, <3>2, <3>3, AdvancedFrame
      <3>6. statsd.up /\ statsd.n = hi[t].statsd
        BY Zenon, <2>2 DEF Alive
      <3>7. AlarmKept'
        <4>1. mishaps = {} /\ statsd.up => ~statsd.companion /\ ~statsd.armed
          BY Zenon, <2>1 DEF CompanionInv, AlarmKept, Greeting, Early
        <4>2. mishaps = {} => sStatsd = statsd.n
          BY Zenon, <2>1, <2>2, <3>6 DEF CompanionInv, OneGreeting
        <4>3. mishaps = {} => Connected
          BY Zenon, <3>6, <4>2 DEF Connected
        <4>4. mishaps = {} => ~Greeting(Early)'
          BY Zenon, <2>1, <3>3, <4>3, <1>SoleNext, StageSets DEF Early
        <4> QED BY Zenon, <2>1, <3>2, <4>1, <4>2, <4>4 DEF AlarmKept
      <3>8. TriggerOK' /\ ClientOK'
        BY Zenon, <2>1, <3>2 DEF CompanionInv, TriggerOK, Posted, ClientOK
      <3>9. t \in DOMAIN hi' /\ hi'[t].at = "receivers"
        BY <2>1, <3>3, Advanced
      <3>10. CompanionTold' /\ ReceiversTold'
        BY Zenon, <3>2, <3>9 DEF CompanionTold, ReceiversTold, Greeting
      <3>11. BootTold' /\ UidsTold' /\ UidMapTold'
        BY Zenon, <2>1, <3>3, StillGreeting
      <3>12. \A k \in entries : WillTell(k) \/ Reaches(k) => WillTell(k)' \/ Reaches(k)'
        BY Zenon, <2>1, <3>2, ReachesUnchanged, WillTellUnchanged
      <3>13. PullersTold' /\ EntriesTold' /\ ManagerConnected'
        BY Zenon, <2>1, <3>2, <3>3, <3>12, LateStep DEF Posted
      <3> QED BY Zenon, <3>4, <3>5, <3>7, <3>8, <3>10, <3>11, <3>13 DEF CompanionInv
    <2>3. CASE ~Alive(hi[t].statsd)
      <3>1. UNCHANGED statsd /\ MovesTo(t, Resting)
        BY Zenon, <2>3 DEF CallCompanionReady, MovesTo
      <3>2. CompanionTypeOK'
        <4>1. hi' \in [{"main", "binder"} -> Threads]
          BY Zenon, <2>1, <3>1, Advanced
        <4> QED BY Zenon, <2>1, <3>1, <4>1 DEF CompanionInv, CompanionTypeOK, Threads
      <3>3. KnownOK' /\ OneGreeting' /\ Noticed' /\ ReceiversOK' /\ AlarmKept'
        BY Zenon, <2>1, <3>1, AdvancedFrame, RestingIsNoGreeting DEF Early
      <3>4. TriggerOK' /\ ClientOK'
        BY Zenon, <2>1, <3>1 DEF CompanionInv, TriggerOK, Posted, ClientOK
      <3>5. ~Connected
        BY Zenon, <2>1, <2>3, Sole
      <3>6. ~Connected'
        BY Zenon, <2>1, <3>1, <3>5 DEF Connected
      <3> QED BY Zenon, <3>2, <3>3, <3>4, <3>6, NotConnected DEF CompanionInv
    <2> QED BY Zenon, <2>2, <2>3
  <1>RegisterReceiversStep. ASSUME CompanionInv, NEW t \in DOMAIN hi, RegisterReceivers(t) PROVE CompanionInv'
    <2> USE <1>RegisterReceiversStep
    <2>1. /\ hi[t].at = "receivers" /\ Greets(t) /\ receivers' = receivers \cup {hi[t].statsd}
          /\ Goes(t, "link") /\ "link" \in Places
          /\ UNCHANGED <<statsd, inbox, toCompanion, published, sStatsd, mStatsd, entries, client, alarm,
                     linked, died, mBootCompleted, boot, uidThreads, packages, broadcast, calls, mishaps, world, leaked>>
      BY Zenon DEF RegisterReceivers, Greets, processVars, Places
    <2>2. PICK g \in Greetings : /\ MovesTo(t, g) /\ g.at = "link"
                                 /\ g.statsd = hi[t].statsd /\ g.kind = hi[t].kind /\ g.todo = hi[t].todo
      BY Zenon, <2>1, GoesTo
    <2>3. /\ t \in DOMAIN hi' /\ hi'[t] = g /\ DOMAIN hi' = DOMAIN hi
          /\ \A u \in DOMAIN hi : u # t => hi'[u] = hi[u]
      BY Zenon, <2>1, <2>2, Advanced
    <2>4. CompanionTypeOK'
      <3>1. receivers' \in SUBSET Nat
        BY Zenon, <2>1, <2>2 DEF CompanionInv, CompanionTypeOK, Greetings
      <3>2. hi' \in [{"main", "binder"} -> Threads]
        BY Zenon, <2>1, <2>2, Advanced
      <3> QED BY Zenon, <2>1, <3>1, <3>2 DEF CompanionInv, CompanionTypeOK, Threads
    <2>5. KnownOK' /\ OneGreeting' /\ Noticed' /\ AlarmKept'
      BY Zenon, <2>1, <2>2, AdvancedFrame DEF Early
    <2>6. ReceiversOK'
      <3> SUFFICES ASSUME NEW s \in receivers' PROVE
              (\/ s \in leaked
               \/ s \in linked /\ (Alive(s) \/ s \in died)
               \/ \E u \in DOMAIN hi : hi[u].at = "link" /\ hi[u].statsd = s)'
        BY Zenon DEF ReceiversOK
      <3>1. CASE s = hi[t].statsd
        BY Zenon, <2>2, <2>3, <3>1
      <3>2. CASE s \in receivers
        BY <2>1, <2>3, <3>2 DEF CompanionInv, ReceiversOK, Alive
      <3> QED BY Zenon, <2>1, <3>1, <3>2
    <2>7. TriggerOK' /\ ClientOK'
      BY Zenon, <2>1 DEF CompanionInv, TriggerOK, Posted, ClientOK
    <2>8. BootTold' /\ UidsTold' /\ UidMapTold'
      BY Zenon, <2>1, <2>2, StillGreeting
    <2>9. \A k \in entries : WillTell(k) \/ Reaches(k) => WillTell(k)' \/ Reaches(k)'
      BY Zenon, <2>1, ReachesUnchanged, WillTellUnchanged
    <2>10. PullersTold' /\ EntriesTold' /\ ManagerConnected'
      BY Zenon, <2>1, <2>2, <2>9, LateStep DEF Posted
    <2>11. ASSUME Connected' PROVE CompanionTold' /\ ReceiversTold'
      <3>1. Connected
        BY Zenon, <2>1, <2>11 DEF Connected
      <3>2. hi[t].statsd = statsd.n /\ ~Greeting(Early)
        BY Zenon, <2>1, <3>1, Sole, StageSets DEF Early
      <3> QED BY Zenon, <2>1, <3>1, <3>2 DEF CompanionInv, CompanionTold, ReceiversTold
    <2>12. CompanionTold' /\ ReceiversTold'
      BY Zenon, <2>11, NotConnected
    <2> QED BY Zenon, <2>4, <2>5, <2>6, <2>7, <2>8, <2>10, <2>12 DEF CompanionInv
  \* A statsd that has died before it is watched is forgotten at once.
  <1>LinkStep. ASSUME CompanionInv, NEW t \in DOMAIN hi, LinkToDeath(t) PROVE CompanionInv'
    <2> USE <1>LinkStep
    <2>1. /\ hi[t].at = "link" /\ Greets(t) /\ Goes(t, "boot") /\ "boot" \in Places
          /\ UNCHANGED <<statsd, inbox, toCompanion, published, entries, client, alarm,
                     died, mBootCompleted, boot, uidThreads, packages, broadcast, calls, mishaps, world, leaked>>
      BY Zenon DEF LinkToDeath, Greets, processVars, Places
    <2>2. PICK g \in Greetings : /\ MovesTo(t, g) /\ g.at = "boot"
                                 /\ g.statsd = hi[t].statsd /\ g.kind = hi[t].kind /\ g.todo = hi[t].todo
      BY Zenon, <2>1, GoesTo
    <2>3. /\ t \in DOMAIN hi' /\ hi'[t] = g /\ DOMAIN hi' = DOMAIN hi
          /\ hi' \in [{"main", "binder"} -> Threads] /\ DOMAIN hi = {"main", "binder"}
          /\ \A u \in DOMAIN hi : u # t => hi'[u] = hi[u] /\ (Greets(u)' <=> Greets(u))
      <3>1. DOMAIN hi = {"main", "binder"}
        BY Zenon DEF CompanionInv, CompanionTypeOK
      <3> QED BY Zenon, <2>1, <2>2, <3>1, Advanced
    <2>4. /\ hi[t].statsd \in Nat /\ hi[t].statsd # 0 /\ sStatsd \in Nat /\ statsd.n \in Nat
          /\ statsd.up => statsd.n # 0
      BY Zenon, <2>1, <2>2 DEF CompanionInv, CompanionTypeOK, Greetings, KnownOK, JavaStatsds
    <2>5. TriggerOK' /\ ClientOK'
      BY Zenon, <2>1 DEF CompanionInv, TriggerOK, Posted, ClientOK
    <2>6. CASE Alive(hi[t].statsd)
      <3>1. linked' = linked \cup {hi[t].statsd} /\ UNCHANGED <<receivers, sStatsd, mStatsd>>
        BY Zenon, <2>6 DEF LinkToDeath
      <3>2. CompanionTypeOK'
        BY Zenon, <2>1, <2>3, <2>4, <3>1 DEF CompanionInv, CompanionTypeOK, Threads
      <3>3. KnownOK' /\ OneGreeting' /\ Noticed' /\ AlarmKept'
        BY Zenon, <2>1, <2>2, <3>1, AdvancedFrame DEF Early
      <3>4. ReceiversOK'
        <4> SUFFICES ASSUME NEW s \in receivers PROVE
              (\/ s \in leaked
               \/ s \in linked /\ (Alive(s) \/ s \in died)
               \/ \E u \in DOMAIN hi : hi[u].at = "link" /\ hi[u].statsd = s)'
          BY Zenon, <3>1 DEF ReceiversOK
        <4>1. CASE s = hi[t].statsd
          BY Zenon, <2>1, <2>6, <3>1, <4>1 DEF Alive
        <4>2. CASE s # hi[t].statsd
          BY <2>1, <2>3, <3>1, <4>2 DEF CompanionInv, ReceiversOK, Alive
        <4> QED BY Zenon, <4>1, <4>2
      <3>5. BootTold' /\ UidsTold' /\ UidMapTold'
        BY Zenon, <2>1, <2>2, StillGreeting
      <3>6. \A k \in entries : WillTell(k) \/ Reaches(k) => WillTell(k)' \/ Reaches(k)'
        BY Zenon, <2>1, <3>1, ReachesUnchanged, WillTellUnchanged
      <3>7. PullersTold' /\ EntriesTold' /\ ManagerConnected'
        BY Zenon, <2>1, <2>2, <3>1, <3>6, LateStep DEF Posted
      <3>8. ASSUME Connected' PROVE CompanionTold' /\ ReceiversTold'
        <4>1. Connected
          BY Zenon, <2>1, <3>1, <3>8 DEF Connected
        <4>2. ~Greeting(Early) /\ ~Greeting(Early \cup {"receivers"})
          BY Zenon, <2>1, <4>1, Sole, StageSets DEF Early
        <4> QED BY Zenon, <2>1, <3>1, <4>1, <4>2 DEF CompanionInv, CompanionTold, ReceiversTold
      <3>9. CompanionTold' /\ ReceiversTold'
        BY Zenon, <3>8, NotConnected
      <3> QED BY Zenon, <2>5, <3>2, <3>3, <3>4, <3>5, <3>7, <3>9 DEF CompanionInv
    <2>7. CASE ~Alive(hi[t].statsd)
      <3>1. /\ receivers' = receivers \ {hi[t].statsd} /\ UNCHANGED linked
            /\ sStatsd' = IF sStatsd = hi[t].statsd THEN 0 ELSE sStatsd
            /\ mStatsd' = IF sStatsd = hi[t].statsd THEN 0 ELSE mStatsd
        BY Zenon, <2>7 DEF LinkToDeath, NotReady
      <3>2. CompanionTypeOK'
        BY Zenon, <2>1, <2>3, <3>1 DEF CompanionInv, CompanionTypeOK, Threads
      <3>3. statsd.up /\ sStatsd = statsd.n => sStatsd' = sStatsd
        BY Zenon, <2>4, <2>7, <3>1 DEF Alive
      <3>4. ~Connected'
        <4>1. ~Connected
          BY Zenon, <2>1, <2>7, Sole
        <4> QED BY Zenon, <2>1, <2>4, <3>1, <4>1 DEF Connected
      <3>5. ReceiversOK'
        <4> SUFFICES ASSUME NEW s \in receivers, s # hi[t].statsd PROVE
              (\/ s \in leaked
               \/ s \in linked /\ (Alive(s) \/ s \in died)
               \/ \E u \in DOMAIN hi : hi[u].at = "link" /\ hi[u].statsd = s)'
          BY Zenon, <3>1 DEF ReceiversOK
        <4> QED BY <2>1, <2>3, <3>1 DEF CompanionInv, ReceiversOK, Alive
      <3>6. CASE sStatsd # hi[t].statsd
        <4>1. UNCHANGED sStatsd
          BY Zenon, <3>1, <3>6
        <4>2. KnownOK' /\ OneGreeting' /\ Noticed' /\ AlarmKept'
          BY Zenon, <2>1, <2>2, <4>1, AdvancedFrame DEF Early
        <4> QED BY Zenon, <2>5, <3>2, <3>4, <3>5, <4>2, NotConnected DEF CompanionInv
      <3>7. CASE sStatsd = hi[t].statsd
        <4>1. sStatsd' = 0 /\ ~(statsd.up /\ sStatsd = statsd.n)
          BY Zenon, <2>4, <3>1, <3>3, <3>7
        <4>2. \A s : Alive(s)' <=> Alive(s)
          BY Zenon, <2>1 DEF Alive
        <4>3. KnownOK'
          <5>1. sStatsd' <= statsd'.n /\ \A s \in died' : s <= statsd'.n /\ ~Alive(s)'
            BY <2>1, <2>4, <4>1, <4>2 DEF CompanionInv, KnownOK
          <5>2. \A u \in DOMAIN hi' : Greets(u)' =>
                /\ hi'[u].statsd # 0 /\ hi'[u].statsd <= statsd'.n
                /\ hi'[u].at \in {"cancel", "ready"} => hi'[u].kind = 1
                /\ hi'[u].at \in {"copy", "send"} => hi'[u].kind \in DOMAIN Kinds
            BY <2>1, <2>2, <2>3 DEF CompanionInv, KnownOK
          <5> QED BY Zenon, <5>1, <5>2 DEF KnownOK
        <4>4. OneGreeting'
          BY Zenon, <2>1, <2>2, <2>3, <2>7, <4>1, <4>2 DEF CompanionInv, OneGreeting
        <4>5. Noticed'
          <5>1. \A u \in {"main", "binder"} : hi[u].at \in {"unborn", "fetch"} => u # t /\ hi'[u] = hi[u]
            BY Zenon, <2>1, <2>3
          <5> QED BY Zenon, <2>1, <4>1, <5>1 DEF CompanionInv, Noticed
        <4>6. AlarmKept'
          BY Zenon, <2>1, <4>1 DEF CompanionInv, AlarmKept
        <4> QED BY Zenon, <2>5, <3>2, <3>4, <3>5, <4>3, <4>4, <4>5, <4>6, NotConnected DEF CompanionInv
      <3> QED BY Zenon, <3>6, <3>7
    <2> QED BY Zenon, <2>6, <2>7
  \* The greeting ends with the boot and the thread for the packages.
  <1>TellBootAndUidsStep. ASSUME CompanionInv, NEW t \in DOMAIN hi, TellBootAndUids(t) PROVE CompanionInv'
    <2> USE <1>TellBootAndUidsStep
    <2>1. /\ hi[t].at = "boot" /\ Greets(t) /\ MovesTo(t, Resting)
          /\ UNCHANGED <<statsd, toCompanion, published, sStatsd, mStatsd, entries, client, alarm,
                     receivers, linked, died, mBootCompleted, boot, packages, broadcast, calls, mishaps, world, leaked>>
      BY Zenon DEF TellBootAndUids, Greets, MovesTo
    <2>2. KnownOK' /\ OneGreeting' /\ Noticed' /\ ReceiversOK' /\ AlarmKept'
      BY Zenon, <2>1, AdvancedFrame, RestingIsNoGreeting DEF Early
    <2>3. ClientOK' /\ hi' \in [{"main", "binder"} -> Threads]
      BY Zenon, <2>1, Advanced DEF CompanionInv, ClientOK
    <2>4. CASE mBootCompleted /\ ~Alive(hi[t].statsd)
      <3>1. UNCHANGED <<inbox, uidThreads>>
        BY Zenon, <2>4 DEF TellBootAndUids
      <3>2. ~Connected /\ ~Connected'
        BY Zenon, <2>1, <2>4, Sole DEF Connected
      <3>3. CompanionTypeOK' /\ TriggerOK'
        BY Zenon, <2>1, <2>3, <3>1 DEF CompanionInv, CompanionTypeOK, Threads, TriggerOK, Posted
      <3> QED BY Zenon, <2>2, <2>3, <3>2, <3>3, NotConnected DEF CompanionInv
    <2>5. CASE ~(mBootCompleted /\ ~Alive(hi[t].statsd))
      <3> DEFINE thread == [at |-> "post", for |-> hi[t].statsd, seen |-> packages]
      <3>1. /\ inbox' = IF mBootCompleted THEN Append(inbox, [op |-> "bootCompleted"]) ELSE inbox
            /\ uidThreads' = uidThreads \cup {thread}
        BY Zenon, <2>5 DEF TellBootAndUids
      <3>2. thread \in [at : {"post", "write"}, for : Nat, seen : Nat] /\ thread.for = hi[t].statsd /\ thread.at = "post"
        <4>1. hi[t].statsd \in Nat
          BY Zenon, <2>1, Advanced DEF Greetings
        <4> QED BY Zenon, <4>1 DEF CompanionInv, CompanionTypeOK
      <3> HIDE DEF thread
      <3>3. /\ inbox' \in Seq(InboxCalls)
            /\ \A op : Posted(op) => Posted(op)'
            /\ mBootCompleted => Posted("bootCompleted")'
            /\ Posted("bootCompleted")' => Posted("bootCompleted") \/ mBootCompleted
            /\ \A k : Reaches(k) => Reaches(k)'
        <4>1. CASE mBootCompleted
          <5> DEFINE call == [op |-> "bootCompleted"]
          <5>1. call \in InboxCalls /\ inbox' = Append(inbox, call) /\ call.op = "bootCompleted"
            BY Zenon, <3>1, <4>1 DEF InboxCalls
          <5>2. \A k : call # [op |-> "unregister", entry |-> k]
            BY Zenon
          <5> HIDE DEF call
          <5>3. CompanionTypeOK
            BY Zenon DEF CompanionInv
          <5>4. \A k : Reaches(k) => Reaches(k)'
            BY Zenon, <2>1, <5>1, <5>2, <5>3, AppendReaches
          <5>5. \A op : Posted(op)' <=> Posted(op) \/ call.op = op
            BY Zenon, <5>1, <5>3, AppendPosts
          <5> QED BY Zenon, <4>1, <5>1, <5>3, <5>4, <5>5, AppendedCall
        <4>2. CASE ~mBootCompleted
          <5>1. UNCHANGED <<statsd, inbox>> /\ inbox \in Seq(InboxCalls)
            BY Zenon, <2>1, <3>1, <4>2 DEF CompanionInv, CompanionTypeOK
          <5>2. \A op : Posted(op)' <=> Posted(op)
            BY Zenon, <5>1 DEF Posted
          <5>3. \A k : Reaches(k) => Reaches(k)'
            BY Zenon, <5>1, ReachesUnchanged
          <5> QED BY Zenon, <4>2, <5>1, <5>2, <5>3
        <4> QED BY Zenon, <4>1, <4>2
      <3>4. CompanionTypeOK'
        <4>1. uidThreads' \in SUBSET [at : {"post", "write"}, for : Nat, seen : Nat]
          BY Zenon, <3>1, <3>2 DEF CompanionInv, CompanionTypeOK
        <4> QED BY Zenon, <2>1, <2>3, <3>3, <4>1 DEF CompanionInv, CompanionTypeOK, Threads
      <3>9. TriggerOK'
        BY Zenon, <2>1, <3>3 DEF CompanionInv, TriggerOK
      <3>5. \A k \in entries : WillTell(k) \/ Reaches(k) => WillTell(k)' \/ Reaches(k)'
        BY Zenon, <2>1, <3>3, WillTellUnchanged
      <3>6. PullersTold' /\ EntriesTold' /\ ManagerConnected'
        BY Zenon, <2>1, <3>3, <3>5, LateStep
      <3>7. ASSUME Connected' PROVE CompanionTold' /\ ReceiversTold' /\ BootTold' /\ UidsTold' /\ UidMapTold'
        <4>1. Connected
          BY Zenon, <2>1, <3>7 DEF Connected
        <4>2. ~Greeting(Early) /\ ~Greeting(Early \cup {"receivers"}) /\ hi[t].statsd = statsd.n
          BY Zenon, <2>1, <4>1, Sole, StageSets DEF Early
        <4>3. WillPost'
          BY Zenon, <2>1, <3>1, <3>2, <4>2 DEF WillPost
        <4>4. CompanionTold' /\ ReceiversTold'
          BY Zenon, <2>1, <4>1, <4>2 DEF CompanionInv, CompanionTold, ReceiversTold
        <4> QED BY Zenon, <2>1, <3>3, <4>3, <4>4 DEF BootTold, UidsTold, UidMapTold, UidMapComing
      <3>8. CompanionTold' /\ ReceiversTold' /\ BootTold' /\ UidsTold' /\ UidMapTold'
        BY Zenon, <3>7, NotConnected
      <3> QED BY Zenon, <2>2, <2>3, <3>4, <3>6, <3>8, <3>9 DEF CompanionInv
    <2> QED BY Zenon, <2>4, <2>5
  <1> QED BY Zenon, <1>IterationThrowsStep, <1>CompanionReadyStep, <1>RegisterReceiversStep, <1>LinkStep, <1>TellBootAndUidsStep

\* A thread that greets keeps the invariant, whatever the others do between
\* its steps.
LEMMA GreetingStep ==
    ASSUME CompanionInv, NEW t \in DOMAIN hi, Hi(t) PROVE CompanionInv' /\ UNCHANGED world
  <1>1. CompanionInv'
    BY Zenon, GreetingBegins, GreetingSends, GreetingEnds DEF Hi
  <1>2. UNCHANGED world
    BY Zenon DEF Hi, FetchStatsd, CancelAlarms, ManagerReady, CopyEntries, SendEntries, IterationThrows,
           CallCompanionReady, RegisterReceivers, LinkToDeath, TellBootAndUids
  <1> QED BY Zenon, <1>1, <1>2
=============================================================================
