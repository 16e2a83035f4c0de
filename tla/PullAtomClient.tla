--------------------------- MODULE PullAtomClient ---------------------------
(***************************************************************************)
(* lib/libstatspull: a native process that offers atoms to statsd.  It     *)
(* remembers its callbacks, registers each from a thread of its own, and   *)
(* registers all of them again when statsd dies.                           *)
(*                                                                         *)
(* pullAtomMutex protects the map and the cached statsd, and is held while *)
(* statsd is looked up; calls to statsd are made without it.               *)
(***************************************************************************)
EXTENDS StatsdProcess

CONSTANTS Tags,        \* atoms the process offers
          MaxThreads   \* bound: calls of set and clear

VARIABLES nStatsd,     \* sStatsd
          nPullers,    \* mPullers: the atoms with a callback
          threads,     \* detached threads, by number
          dying,       \* the thread that runs binderDied, or more of them
          nLinked,     \* incarnations whose death the process is told
          cleared,     \* history: atoms that were ever cleared
          gaveUp       \* history: a lookup did not find statsd

clientVars == <<nStatsd, nPullers, threads, dying, nLinked, cleared, gaveUp>>

ClientInit == nStatsd = 0 /\ nPullers = {} /\ threads = <<>> /\ dying = {} /\ nLinked = {}
              /\ cleared = {} /\ gaveUp = FALSE

AStatsManager_setPullAtomCallback ==
    /\ Len(threads) < MaxThreads
    /\ \E tag \in Tags :
          /\ nPullers' = nPullers \cup {tag}
          /\ threads' = Append(threads, [at |-> "get", op |-> "register", tag |-> tag, statsd |-> 0])
    /\ UNCHANGED <<processVars, nStatsd, dying, nLinked, cleared, gaveUp>>

AStatsManager_clearPullAtomCallback ==
    /\ Len(threads) < MaxThreads
    /\ \E tag \in nPullers :
          /\ nPullers' = nPullers \ {tag}
          /\ cleared' = cleared \cup {tag}
          /\ threads' = Append(threads, [at |-> "get", op |-> "unregister", tag |-> tag, statsd |-> 0])
    /\ UNCHANGED <<processVars, nStatsd, dying, nLinked, gaveUp>>

\* getStatsService: a statsd not known is looked up and its death watched.
\* The lookup waits a few seconds for a statsd that is not there, then it
\* gives up.
GetStatsService ==
    LET found == IF nStatsd # 0 THEN nStatsd ELSE Lookup
    IN /\ gaveUp' = (gaveUp \/ found = 0)
       /\ nStatsd' = found
       /\ nLinked' = IF nStatsd = 0 /\ found # 0 THEN nLinked \cup {found} ELSE nLinked

ThreadGets ==
    \E i \in DOMAIN threads :
    /\ threads[i].at = "get"
    /\ GetStatsService
    /\ threads' = [threads EXCEPT ![i].at = IF nStatsd' = 0 THEN "done" ELSE "call", ![i].statsd = nStatsd']
    /\ UNCHANGED <<processVars, nPullers, dying, cleared>>

\* registerNativePullAtomCallback or unregisterNativePullAtomCallback.
Native(tag) == <<"native", tag>>
ThreadCalls ==
    \E i \in DOMAIN threads :
    /\ threads[i].at = "call"
    /\ inbox' = IF Alive(threads[i].statsd)
                THEN Append(inbox, [op |-> threads[i].op, entry |-> Native(threads[i].tag)]) ELSE inbox
    /\ threads' = [threads EXCEPT ![i].at = "done"]
    /\ UNCHANGED <<statsd, toCompanion, published, nStatsd, nPullers, dying, nLinked, cleared, gaveUp>>

\* Faulty: binderDied keeps the reference to the statsd that died.
Forget_Keep == nStatsd

Forget == 0

\* binderDied: forget statsd, get it again, copy the map, register it all.
DiedForgets ==
    \E d \in dying :
    /\ d.at = "forget"
    /\ nStatsd' = Forget
    /\ dying' = (dying \ {d}) \cup {[d EXCEPT !.at = "get"]}
    /\ UNCHANGED <<processVars, nPullers, threads, nLinked, cleared, gaveUp>>

DiedGets ==
    \E d \in dying :
    /\ d.at = "get"
    /\ GetStatsService
    /\ dying' = (dying \ {d}) \cup
                (IF nStatsd' = 0 THEN {} ELSE {[d EXCEPT !.at = "copy", !.statsd = nStatsd']})
    /\ UNCHANGED <<processVars, nPullers, threads, cleared>>

DiedCopies ==
    \E d \in dying :
    /\ d.at = "copy"
    /\ dying' = (dying \ {d}) \cup {[d EXCEPT !.at = "call", !.todo = nPullers]}
    /\ UNCHANGED <<processVars, nStatsd, nPullers, threads, nLinked, cleared, gaveUp>>

DiedRegisters ==
    \E d \in dying :
    /\ d.at = "call"
    /\ IF d.todo = {}
       THEN dying' = dying \ {d} /\ UNCHANGED inbox
       ELSE \E tag \in d.todo :
            /\ dying' = (dying \ {d}) \cup {[d EXCEPT !.todo = @ \ {tag}]}
            /\ inbox' = IF Alive(d.statsd) THEN Append(inbox, [op |-> "register", entry |-> Native(tag)])
                        ELSE inbox
    /\ UNCHANGED <<statsd, toCompanion, published, nStatsd, nPullers, threads, nLinked, cleared, gaveUp>>

ClientNext ==
    \/ AStatsManager_setPullAtomCallback \/ AStatsManager_clearPullAtomCallback
    \/ ThreadGets \/ ThreadCalls
    \/ DiedForgets \/ DiedGets \/ DiedCopies \/ DiedRegisters

NativeStatsdDies ==
    /\ statsd.up
    /\ statsd' = [statsd EXCEPT !.up = FALSE]
    /\ inbox' = <<>>
    /\ dying' = dying \cup (IF statsd.n \in nLinked
                            THEN {[at |-> "forget", of |-> statsd.n, statsd |-> 0, todo |-> {}]} ELSE {})
    /\ UNCHANGED <<toCompanion, published, nStatsd, nPullers, threads, nLinked, cleared, gaveUp>>

\* An atom that was offered and never withdrawn is registered with the
\* statsd that runs once all threads are done, however often statsd died, as
\* long as no lookup gave up.
NativeKept ==
    ~gaveUp /\ statsd.up /\ inbox = <<>> /\ dying = {} /\ (\A i \in DOMAIN threads : threads[i].at = "done") =>
        \A tag \in nPullers \ cleared : Native(tag) \in statsd.regs
=============================================================================
