--------------------------- MODULE ShellSubscriber ---------------------------
(***************************************************************************)
(* Subscriptions to atoms from the shell (shell/ShellSubscriber.cpp).      *)
(*                                                                         *)
(* Each subscription is a call of startNewSubscription that keeps a binder *)
(* thread until the subscription ends, with a helper thread that pulls     *)
(* atoms and sends heartbeats.  Everything happens under mMutex, except    *)
(* that a new call wakes the old one, and reads its config from the client *)
(* for as long as the client likes, between two critical sections.         *)
(*                                                                         *)
(* Times are abstracted: a pull or a heartbeat may be due whenever the     *)
(* helper looks.                                                           *)
(***************************************************************************)
EXTENDS Naturals, FiniteSets

CONSTANTS Calls,     \* calls of startNewSubscription, positive integers
          Timed      \* those with a timeout

ASSUME CallsAssumption ==
    Calls \subseteq Nat \ {0} /\ IsFiniteSet(Calls) /\ Timed \subseteq Calls

None == 0

VARIABLES mToken,             \* the last token claimed
          token,              \* myToken of each call, 0 before it is claimed
          pc,                 \* where each call is, see Steps
          mSubscriptionInfo,  \* the call whose subscription is served, or None
          mClientAlive,       \* SubscriptionInfo::mClientAlive of each call
          helper,             \* the helper thread of each call
          client,             \* does the client still read its pipe?
          overtaken           \* history: calls displaced by a call with an
                              \* older token

vars == <<mToken, token, pc, mSubscriptionInfo, mClientAlive, helper, client, overtaken>>

\* "new": not begun; "claimed": has a token, about to notify; "config":
\* reading its config; "subscribe": about to lock mMutex; "waiting": asleep on
\* mSubscriptionShouldEnd; "woken": woken, about to lock; "timeout": the wait
\* has timed out, about to lock; "done": returned, its descriptors are closed.
Steps == {"new", "claimed", "config", "subscribe", "waiting", "woken", "timeout", "done"}

Init ==
    /\ mToken = 0 /\ token = [i \in Calls |-> 0]
    /\ pc = [i \in Calls |-> "new"]
    /\ mSubscriptionInfo = None
    /\ mClientAlive = [i \in Calls |-> TRUE]
    /\ helper = [i \in Calls |-> "none"]
    /\ client = [i \in Calls |-> TRUE]
    /\ overtaken = {}

-----------------------------------------------------------------------------
(* The condition variable.                                                 *)

Waiting == {i \in Calls : pc[i] = "waiting"}

\* The predicate of the wait.
ShouldEnd(i) == mToken # token[i] \/ ~mClientAlive[i]

\* notify_one(), given where the calls are: one of those asleep is woken.
notify_one(at) ==
    IF \A i \in Calls : at[i] # "waiting" THEN {at}
    ELSE {[at EXCEPT ![i] = "woken"] : i \in {j \in Calls : at[j] = "waiting"}}

-----------------------------------------------------------------------------
(* startNewSubscription.                                                   *)

claimToken(i) ==
    /\ pc[i] = "new"
    /\ mToken' = mToken + 1
    /\ token' = [token EXCEPT ![i] = mToken + 1]
    /\ pc' = [pc EXCEPT ![i] = "claimed"]
    /\ UNCHANGED <<mSubscriptionInfo, mClientAlive, helper, client, overtaken>>

\* Faulty: nobody is woken.
NotifyOld_Forgotten(i) ==
    /\ pc[i] = "claimed"
    /\ pc' = [pc EXCEPT ![i] = "config"]
    /\ UNCHANGED <<mToken, token, mSubscriptionInfo, mClientAlive, helper, client, overtaken>>

\* mSubscriptionShouldEnd.notify_one() after claimToken(), without mMutex.
NotifyOld(i) ==
    /\ pc[i] = "claimed"
    /\ pc' \in notify_one([pc EXCEPT ![i] = "config"])
    /\ UNCHANGED <<mToken, token, mSubscriptionInfo, mClientAlive, helper, client, overtaken>>

\* The config has come, or cannot be read or parsed and the call returns.
readConfig(i, ok) ==
    /\ pc[i] = "config"
    /\ pc' = [pc EXCEPT ![i] = IF ok THEN "subscribe" ELSE "done"]
    /\ UNCHANGED <<mToken, token, mSubscriptionInfo, mClientAlive, helper, client, overtaken>>

\* Faulty: a call that ends leaves its subscription behind.
EndCall_Leave(i, info) ==
    /\ pc' = [pc EXCEPT ![i] = "done"]
    /\ mSubscriptionInfo' = info

\* The end of a call, with mMutex locked and `info' for mSubscriptionInfo.
EndCall(i, info) ==
    /\ pc' = [pc EXCEPT ![i] = "done"]
    /\ mSubscriptionInfo' = IF info = i THEN None ELSE info

\* Faulty: the wait is entered without testing its predicate.
Subscribe_BlindWait(i) ==
    /\ pc[i] = "subscribe"
    /\ helper' = [helper EXCEPT ![i] = "running"]
    /\ pc' = [pc EXCEPT ![i] = "waiting"] /\ mSubscriptionInfo' = i
    /\ overtaken' = overtaken \cup {j \in {mSubscriptionInfo} \cap Calls : token[j] > token[i]}
    /\ UNCHANGED <<mToken, token, mClientAlive, client>>

\* The critical section up to the wait, whose predicate is tested first.
Subscribe(i) ==
    /\ pc[i] = "subscribe"
    /\ helper' = [helper EXCEPT ![i] = "running"]
    /\ IF ShouldEnd(i) THEN EndCall(i, i)
       ELSE pc' = [pc EXCEPT ![i] = "waiting"] /\ mSubscriptionInfo' = i
    /\ overtaken' = overtaken \cup {j \in {mSubscriptionInfo} \cap Calls : token[j] > token[i]}
    /\ UNCHANGED <<mToken, token, mClientAlive, client>>

\* A wait returns without a notification, or because its time is over.
SpuriousWakeup(i) ==
    /\ pc[i] = "waiting"
    /\ pc' = [pc EXCEPT ![i] = "woken"]
    /\ UNCHANGED <<mToken, token, mSubscriptionInfo, mClientAlive, helper, client, overtaken>>

Timeout(i) ==
    /\ i \in Timed /\ pc[i] \in {"waiting", "woken"}
    /\ pc' = [pc EXCEPT ![i] = "timeout"]
    /\ UNCHANGED <<mToken, token, mSubscriptionInfo, mClientAlive, helper, client, overtaken>>

\* The thread has mMutex again.
waitForSubscriptionToEnd(i) ==
    /\ \/ pc[i] = "timeout" /\ EndCall(i, mSubscriptionInfo)
       \/ pc[i] = "woken" /\ ShouldEnd(i) /\ EndCall(i, mSubscriptionInfo)
       \/ /\ pc[i] = "woken" /\ ~ShouldEnd(i)
          /\ pc' = [pc EXCEPT ![i] = "waiting"]
          /\ UNCHANGED mSubscriptionInfo
    /\ UNCHANGED <<mToken, token, mClientAlive, helper, client, overtaken>>

-----------------------------------------------------------------------------
(* Writing to the client.                                                  *)

\* attemptWriteToPipeLocked: a failed write marks the client dead and wakes
\* a waiting call.
attemptWriteToPipe ==
    LET i == mSubscriptionInfo
    IN  IF client[i] THEN UNCHANGED <<mClientAlive, pc>>
        ELSE /\ mClientAlive' = [mClientAlive EXCEPT ![i] = FALSE]
             /\ pc' \in notify_one(pc)

\* An event that a matcher of the subscription takes.
onLogEvent ==
    /\ mSubscriptionInfo # None
    /\ attemptWriteToPipe
    /\ UNCHANGED <<mToken, token, mSubscriptionInfo, helper, client, overtaken>>

\* One round of the helper thread: it ends with its subscription, and
\* otherwise writes pulled atoms or a heartbeat when they are due.
pullAndSendHeartbeats(i) ==
    /\ helper[i] = "running"
    /\ IF mSubscriptionInfo = None \/ mToken # token[i]
       THEN helper' = [helper EXCEPT ![i] = "done"] /\ UNCHANGED <<mClientAlive, pc>>
       ELSE attemptWriteToPipe /\ UNCHANGED helper
    /\ UNCHANGED <<mToken, token, mSubscriptionInfo, client, overtaken>>

\* The shell exits: the read end of the pipe is closed.
ClientExit(i) ==
    /\ client[i] /\ pc[i] # "done"
    /\ client' = [client EXCEPT ![i] = FALSE]
    /\ UNCHANGED <<mToken, token, pc, mSubscriptionInfo, mClientAlive, helper, overtaken>>

\* All calls have returned and their helpers have ended.
Finished ==
    /\ \A i \in Calls : pc[i] = "done" /\ helper[i] # "running"
    /\ UNCHANGED vars

Next ==
    \/ \E i \in Calls :
          \/ claimToken(i) \/ NotifyOld(i) \/ Subscribe(i)
          \/ \E ok \in BOOLEAN : readConfig(i, ok)
          \/ SpuriousWakeup(i) \/ Timeout(i) \/ waitForSubscriptionToEnd(i)
          \/ pullAndSendHeartbeats(i) \/ ClientExit(i)
    \/ onLogEvent
    \/ Finished

\* Threads that can run do; clients, events and time owe nothing.  A helper
\* sends a heartbeat at least once a second.
Fairness ==
    \A i \in Calls :
        /\ WF_vars(NotifyOld(i)) /\ WF_vars(Subscribe(i))
        /\ WF_vars(waitForSubscriptionToEnd(i))
        /\ WF_vars(pullAndSendHeartbeats(i))

Spec == Init /\ [][Next]_vars
FairSpec == Spec /\ Fairness

-----------------------------------------------------------------------------
(* Properties.                                                             *)

\* Types.  Tokens are claimed once and in order.
TypeOK ==
    /\ mToken \in Nat /\ token \in [Calls -> 0..mToken]
    /\ pc \in [Calls -> Steps]
    /\ mSubscriptionInfo \in Calls \cup {None}
    /\ mClientAlive \in [Calls -> BOOLEAN]
    /\ helper \in [Calls -> {"none", "running", "done"}]
    /\ client \in [Calls -> BOOLEAN]
    /\ overtaken \in SUBSET Calls
    /\ \A i \in Calls : pc[i] = "new" <=> token[i] = 0

\* statsd writes only to the client of a call that has not returned: when it
\* returns the descriptors it was given are closed, and may be used anew.
WritesOnlyDuringCall ==
    mSubscriptionInfo # None => pc[mSubscriptionInfo] \in {"waiting", "woken", "timeout"}

\* No wake-up is lost: a call that is asleep although a newer one has come is
\* about to be woken by one, no other call could take that notification, and
\* no call is asleep when its client is known to be dead.
NoLostWakeup ==
    \A i \in Waiting :
        /\ mClientAlive[i]
        /\ Waiting = {i}
        /\ mToken # token[i] => \E j \in Calls : pc[j] = "claimed" /\ token[j] > token[i]

\* A call whose token is not the last one does not sleep for ever.
Superseded ==
    \A i \in Calls : pc[i] = "waiting" /\ token[i] < mToken ~> pc[i] = "done"

\* When the shell has exited its call returns, unless an older call took its
\* place.
EndsWithShell ==
    \A i \in Calls : pc[i] = "waiting" /\ ~client[i] ~> pc[i] = "done" \/ i \in overtaken

\* A helper thread ends after its call.
HelperEnds ==
    \A i \in Calls : pc[i] = "done" ~> helper[i] # "running"

\* Calls and helper threads end: a call that is superseded, a call whose shell has
\* exited (unless an older one took its place), and the helper of a call that is over.
CallsEnd == Superseded /\ EndsWithShell /\ HelperEnds
=============================================================================
