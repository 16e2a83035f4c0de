--------------------------- MODULE StatsdProcess ---------------------------
(***************************************************************************)
(* The statsd process as its clients see it: it starts, is found by name,  *)
(* dies and is started again by init, each time with nothing but what it   *)
(* is told again.  main.cpp and the binder methods of StatsService.        *)
(*                                                                         *)
(* One-way binder calls to a process are handled one after the other in    *)
(* the order in which they were made; two-way calls are handled at once.   *)
(* A call to a process that has died fails.                                *)
(***************************************************************************)
EXTENDS Integers, Sequences, FiniteSets

CONSTANT None           \* nothing

VARIABLES statsd,      \* what the running statsd knows
          inbox,       \* one-way calls it has not handled yet
          toCompanion, \* one-way calls made to StatsCompanionService
          published    \* StatsCompanionService can be found by name

processVars == <<statsd, inbox, toCompanion, published>>

\* The three conditions of StatsService::mBootCompleteTrigger.
Signals == {"BOOT_COMPLETE", "UID_MAP", "PULLERS_REGISTERED"}

\* n-th incarnation; `greet': sayHiToStatsCompanion is still to come;
\* `regs': what clients have registered; `uidMap': version of the package
\* list it has; `inits': how often onStatsdInitCompleted was called.
Started(n) == [n |-> n, up |-> TRUE, greet |-> TRUE, companion |-> FALSE, armed |-> FALSE,
               regs |-> {}, remaining |-> Signals, inits |-> 0, uidMap |-> 0]

NotStarted == [Started(0) EXCEPT !.up = FALSE, !.greet = FALSE]

ProcessInit == statsd = NotStarted /\ inbox = <<>> /\ toCompanion = <<>> /\ published = FALSE

\* A binder object names an incarnation, 0 stands for null.
Alive(s) == s # 0 /\ s = statsd.n /\ statsd.up

\* AServiceManager_getService("stats"), and getStatsdServiceRegisterer.
Lookup == IF statsd.up THEN statsd.n ELSE 0

\* main(): the service is created and added to the service manager.
StatsdStarts ==
    /\ ~statsd.up
    /\ statsd' = Started(statsd.n + 1)
    /\ UNCHANGED <<inbox, toCompanion, published>>

\* main(): sayHiToStatsCompanion.
sayHiToStatsCompanion ==
    /\ statsd.up /\ statsd.greet
    /\ statsd' = [statsd EXCEPT !.greet = FALSE]
    /\ toCompanion' = IF published THEN Append(toCompanion, [op |-> "statsdReady"]) ELSE toCompanion
    /\ UNCHANGED <<inbox, published>>

\* A statsd that has a companion sets an alarm (setPullingAlarm and others).
StatsdSetsAlarm ==
    /\ statsd.up /\ statsd.companion /\ ~statsd.armed
    /\ statsd' = [statsd EXCEPT !.armed = TRUE]
    /\ toCompanion' = Append(toCompanion, [op |-> "setAlarm", by |-> statsd.n])
    /\ UNCHANGED <<inbox, published>>

\* Faulty: the trigger runs again for a signal that comes after the last.
markComplete_Again(s, signal) ==
    LET left == s.remaining \ {signal}
    IN [s EXCEPT !.remaining = left, !.inits = IF left = {} THEN @ + 1 ELSE @]

\* MultiConditionTrigger::markComplete.
markComplete(s, signal) ==
    LET left == s.remaining \ {signal}
    IN IF s.remaining = {} THEN s
       ELSE [s EXCEPT !.remaining = left, !.inits = IF left = {} THEN @ + 1 ELSE @]

\* The handlers of one-way calls.  A call that carries the package list is
\* read from a pipe and is complete when the writer has written it.
Handled(s, call) ==
    CASE call.op = "register" -> [s EXCEPT !.regs = @ \cup {call.entry}]
      [] call.op = "unregister" -> [s EXCEPT !.regs = @ \ {call.entry}]
      [] call.op = "allPullersFromBootRegistered" -> markComplete(s, "PULLERS_REGISTERED")
      [] call.op = "bootCompleted" -> markComplete(s, "BOOT_COMPLETE")
      [] call.op = "informAllUidData" -> markComplete([s EXCEPT !.uidMap = call.packages], "UID_MAP")
      [] call.op = "informOnePackage" -> [s EXCEPT !.uidMap = call.packages]

StatsdHandles ==
    /\ statsd.up /\ inbox # <<>>
    /\ Head(inbox).op = "informAllUidData" => Head(inbox).packages # None
    /\ statsd' = Handled(statsd, Head(inbox))
    /\ inbox' = Tail(inbox)
    /\ UNCHANGED <<toCompanion, published>>
=============================================================================
