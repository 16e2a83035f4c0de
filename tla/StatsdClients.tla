---------------------------- MODULE StatsdClients ----------------------------
(***************************************************************************)
(* statsd with the processes that depend on it: the system server, and a   *)
(* native process with pull callbacks.  The two do not know of each other; *)
(* an instance explores one of them.                                       *)
(***************************************************************************)
EXTENDS StatsCompanion, PullAtomClient

clientsVars == <<processVars, companionVars, clientVars>>

Init == ProcessInit /\ CompanionInit /\ ClientInit

\* Bound: a statsd that has been started often enough does not die.
MoreStarts == statsd.n < world.starts

Java ==
    /\ world.side = "java"
    /\ \/ CompanionNext
       \/ ((MoreStarts /\ StatsdStarts) \/ sayHiToStatsCompanion \/ StatsdHandles) /\ UNCHANGED companionVars
       \/ world.alarms /\ StatsdSetsAlarm /\ UNCHANGED companionVars
       \/ MoreStarts /\ (statsd.n <= world.calm => Calm) /\ StatsdDies
    /\ UNCHANGED clientVars

NativeSide ==
    /\ world.side = "native"
    /\ \/ ClientNext
       \/ ((MoreStarts /\ StatsdStarts) \/ StatsdHandles) /\ UNCHANGED clientVars
       \/ MoreStarts /\ NativeStatsdDies
    /\ UNCHANGED companionVars

Next == Java \/ NativeSide

Spec == Init /\ [][Next]_clientsVars
=============================================================================
