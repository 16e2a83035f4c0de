------------------------ MODULE ShellSubscriberProofs ------------------------
(***************************************************************************)
(* For any number of shell subscriptions, with and without timeouts, no    *)
(* wake-up is lost and statsd writes only to clients of calls that have    *)
(* not returned.                                                           *)
(***************************************************************************)
EXTENDS ShellSubscriber, TLAPS

\* The call that has claimed the last token, and that tokens differ.
TokensOK ==
    /\ mToken > 0 => \E j \in Calls : token[j] = mToken
    /\ \A i, j \in Calls : token[i] = token[j] /\ token[i] # 0 => i = j

\* A call that has woken the one before it finds none asleep with an older
\* token, and none falls asleep later: its token is no longer the last.
NotifiedOK ==
    \A i, j \in Calls : pc[i] = "waiting" /\ pc[j] \notin {"new", "claimed"} => token[j] <= token[i]

AliveOK == \A i \in Calls : pc[i] = "waiting" => mClientAlive[i]

IInv == TypeOK /\ TokensOK /\ NotifiedOK /\ AliveOK /\ WritesOnlyDuringCall

-----------------------------------------------------------------------------

\* notify_one wakes a waiting call and touches no other.
LEMMA NotifyOneWakes ==
    ASSUME NEW at \in [Calls -> Steps], NEW r \in notify_one(at)
    PROVE  /\ r \in [Calls -> Steps]
           /\ \A i \in Calls : r[i] = at[i] \/ (at[i] = "waiting" /\ r[i] = "woken")
           /\ (\A i, j \in Calls : at[i] = "waiting" /\ at[j] = "waiting" => i = j)
                => \A i \in Calls : r[i] # "waiting"
<1>1. CASE \A i \in Calls : at[i] # "waiting"
  <2>1. r = at
    BY <1>1 DEF notify_one
  <2> QED BY <1>1, <2>1
<1>2. CASE \E i \in Calls : at[i] = "waiting"
  <2>1. PICK k \in Calls : at[k] = "waiting" /\ r = [at EXCEPT ![k] = "woken"]
    BY <1>2 DEF notify_one
  <2>2. \A i \in Calls : r[i] = IF i = k THEN "woken" ELSE at[i]
    BY <2>1
  <2>3. r \in [Calls -> Steps]
    BY <2>1 DEF Steps
  <2> QED BY <2>1, <2>2, <2>3
<1> QED BY <1>1, <1>2

\* At most one call is asleep.
LEMMA OneWaiting ==
    ASSUME IInv
    PROVE  \A i, j \in Calls : pc[i] = "waiting" /\ pc[j] = "waiting" => i = j
<1> TAKE i, j \in Calls
<1> HAVE pc[i] = "waiting" /\ pc[j] = "waiting"
<1>1. token[i] \in Nat /\ token[j] \in Nat /\ token[i] # 0
  BY DEF IInv, TypeOK
<1>2. token[i] <= token[j] /\ token[j] <= token[i]
  BY DEF IInv, NotifiedOK
<1>3. token[i] = token[j]
  BY <1>1, <1>2
<1> QED BY <1>1, <1>3 DEF IInv, TokensOK

\* The invariant says that no wake-up is lost.
LEMMA NoWakeupLost == IInv => NoLostWakeup
<1> SUFFICES ASSUME IInv, NEW i \in Calls, pc[i] = "waiting"
             PROVE  /\ mClientAlive[i] /\ Waiting = {i}
                    /\ mToken # token[i] => \E j \in Calls : pc[j] = "claimed" /\ token[j] > token[i]
  BY DEF NoLostWakeup, Waiting
<1>1. mClientAlive[i]
  BY DEF IInv, AliveOK
<1>2. Waiting = {i}
  BY OneWaiting DEF Waiting
<1>3. ASSUME mToken # token[i]
      PROVE  \E j \in Calls : pc[j] = "claimed" /\ token[j] > token[i]
  <2>1. token[i] \in 0..mToken /\ mToken \in Nat
    BY DEF IInv, TypeOK
  <2>2. PICK j \in Calls : token[j] = mToken
    BY <1>3, <2>1 DEF IInv, TokensOK
  <2>3. token[j] > token[i] /\ token[j] # 0
    BY <1>3, <2>1, <2>2
  <2>4. pc[j] \in {"new", "claimed"}
    BY <2>1, <2>2, <2>3 DEF IInv, NotifiedOK
  <2>5. pc[j] = "claimed"
    BY <2>3, <2>4 DEF IInv, TypeOK
  <2> QED BY <2>3, <2>5
<1> QED BY <1>1, <1>2, <1>3

-----------------------------------------------------------------------------
(* One lemma for the steps that wake, one for those that move one call.    *)

\* What notify_one leaves of the invariant.
LEMMA NotifyStep ==
    ASSUME IInv, NEW at \in [Calls -> Steps], pc' \in notify_one(at),
           UNCHANGED <<mToken, token, mSubscriptionInfo, helper, client, overtaken>>,
           mClientAlive' \in [Calls -> BOOLEAN],
           \A i \in Calls : at[i] = pc[i] \/ (pc[i] = "claimed" /\ at[i] = "config")
    PROVE  IInv'
<1>1. \A i, j \in Calls : at[i] = "waiting" /\ at[j] = "waiting" => i = j
  BY OneWaiting
<1>2. /\ pc' \in [Calls -> Steps]
      /\ \A i \in Calls : pc'[i] = at[i] \/ (at[i] = "waiting" /\ pc'[i] = "woken")
      /\ \A i \in Calls : pc'[i] # "waiting"
  BY <1>1, NotifyOneWakes
<1>3. \A i \in Calls : pc'[i] = "new" <=> pc[i] = "new"
  BY <1>2
<1>4. TypeOK'
  BY <1>2, <1>3 DEF IInv, TypeOK
<1>5. WritesOnlyDuringCall'
  <2> SUFFICES ASSUME mSubscriptionInfo' # None
               PROVE  pc'[mSubscriptionInfo'] \in {"waiting", "woken", "timeout"}
    BY DEF WritesOnlyDuringCall
  <2>1. mSubscriptionInfo' = mSubscriptionInfo /\ mSubscriptionInfo \in Calls
    BY DEF IInv, TypeOK
  <2>2. pc[mSubscriptionInfo] \in {"waiting", "woken", "timeout"}
    BY <2>1 DEF IInv, WritesOnlyDuringCall
  <2> QED BY <1>2, <2>1, <2>2
<1>6. TokensOK' /\ NotifiedOK' /\ AliveOK'
  BY <1>2 DEF IInv, TokensOK, NotifiedOK, AliveOK
<1> QED BY <1>4, <1>5, <1>6 DEF IInv

\* One call moves, and falls asleep only if its token is the last and its
\* client is alive.
LEMMA MoveStep ==
    ASSUME IInv, NEW i \in Calls, NEW s \in Steps \ {"new"},
           pc[i] # "new", pc' = [pc EXCEPT ![i] = s],
           UNCHANGED <<mToken, token, mClientAlive, client>>,
           helper' \in [Calls -> {"none", "running", "done"}],
           overtaken' \in SUBSET Calls,
           mSubscriptionInfo' \in Calls \cup {None},
           pc[i] = "claimed" => s = "claimed",
           s = "waiting" => mToken = token[i] /\ mClientAlive[i],
           WritesOnlyDuringCall'
    PROVE  IInv'
<1>1. \A j \in Calls : pc'[j] = IF j = i THEN s ELSE pc[j]
  BY DEF IInv, TypeOK
<1>2. pc' \in [Calls -> Steps] /\ (\A j \in Calls : pc'[j] = "new" <=> pc[j] = "new")
  BY <1>1 DEF IInv, TypeOK
<1>3. TypeOK'
  BY <1>2 DEF IInv, TypeOK
<1>4. TokensOK'
  BY DEF IInv, TokensOK
<1>5. ASSUME NEW k \in Calls, NEW j \in Calls,
             pc'[k] = "waiting", pc'[j] \notin {"new", "claimed"}
      PROVE  token[j] <= token[k]
  <2>1. token[j] \in 0..mToken /\ token[k] \in 0..mToken /\ mToken \in Nat
    BY DEF IInv, TypeOK
  <2>2. pc[j] \notin {"new", "claimed"}
    BY <1>1, <1>5
  <2>3. CASE k = i
    BY <1>1, <1>5, <2>1, <2>3
  <2>4. CASE k # i
    BY <1>1, <1>5, <2>2, <2>4 DEF IInv, NotifiedOK
  <2> QED BY <2>3, <2>4
<1>6. NotifiedOK'
  BY <1>5 DEF NotifiedOK
<1>7. AliveOK'
  BY <1>1 DEF IInv, AliveOK
<1> QED BY <1>3, <1>4, <1>6, <1>7 DEF IInv

-----------------------------------------------------------------------------

LEMMA InitOK == Init => IInv
<1> SUFFICES ASSUME Init PROVE IInv
  OBVIOUS
<1>1. TypeOK
  BY CallsAssumption DEF Init, TypeOK, Steps, None
<1> QED BY <1>1 DEF Init, IInv, TokensOK, NotifiedOK, AliveOK, WritesOnlyDuringCall

LEMMA ClaimStep ==
    ASSUME IInv, NEW i \in Calls, claimToken(i)
    PROVE  IInv'
<1>1. /\ pc[i] = "new" /\ mToken' = mToken + 1 /\ token' = [token EXCEPT ![i] = mToken + 1]
      /\ pc' = [pc EXCEPT ![i] = "claimed"]
      /\ UNCHANGED <<mSubscriptionInfo, mClientAlive, helper, client, overtaken>>
  BY DEF claimToken
<1>2. mToken \in Nat /\ token \in [Calls -> 0..mToken] /\ pc \in [Calls -> Steps]
  BY DEF IInv, TypeOK
<1>3. \A j \in Calls : /\ token'[j] = IF j = i THEN mToken + 1 ELSE token[j]
                       /\ pc'[j] = IF j = i THEN "claimed" ELSE pc[j]
  BY <1>1, <1>2
<1>4. TypeOK'
  <2>1. token' \in [Calls -> 0..mToken'] /\ pc' \in [Calls -> Steps]
    BY <1>1, <1>2 DEF Steps
  <2>2. \A j \in Calls : pc'[j] = "new" <=> token'[j] = 0
    BY <1>2, <1>3 DEF IInv, TypeOK
  <2> QED BY <1>1, <1>2, <2>1, <2>2 DEF IInv, TypeOK
<1>5. TokensOK'
  <2>1. token'[i] = mToken'
    BY <1>1, <1>3
  <2>2. ASSUME NEW k \in Calls, NEW j \in Calls, token'[k] = token'[j], token'[k] # 0
        PROVE  k = j
    BY <1>2, <1>3, <2>2 DEF IInv, TokensOK
  <2> QED BY <2>1, <2>2 DEF TokensOK
<1>6. NotifiedOK' /\ AliveOK'
  BY <1>1, <1>3 DEF IInv, NotifiedOK, AliveOK
<1>7. WritesOnlyDuringCall'
  BY <1>1, <1>3 DEF IInv, TypeOK, WritesOnlyDuringCall
<1> QED BY <1>4, <1>5, <1>6, <1>7 DEF IInv

\* Writing to the client of the served call, which is awake or asleep.
LEMMA WriteStep ==
    ASSUME IInv, mSubscriptionInfo # None, attemptWriteToPipe,
           UNCHANGED <<mToken, token, mSubscriptionInfo, helper, client, overtaken>>
    PROVE  IInv'
<1>1. mSubscriptionInfo \in Calls /\ pc \in [Calls -> Steps] /\ mClientAlive \in [Calls -> BOOLEAN]
  BY DEF IInv, TypeOK
<1>2. CASE client[mSubscriptionInfo]
  <2>1. UNCHANGED <<mClientAlive, pc>>
    BY <1>2 DEF attemptWriteToPipe
  <2> QED BY <2>1 DEF IInv, TypeOK, TokensOK, NotifiedOK, AliveOK, WritesOnlyDuringCall
<1>3. CASE ~client[mSubscriptionInfo]
  <2>1. mClientAlive' = [mClientAlive EXCEPT ![mSubscriptionInfo] = FALSE] /\ pc' \in notify_one(pc)
    BY <1>3 DEF attemptWriteToPipe
  <2>2. mClientAlive' \in [Calls -> BOOLEAN]
    BY <1>1, <2>1
  <2>3. PICK at : at = pc
    OBVIOUS
  <2>4. /\ at \in [Calls -> Steps] /\ pc' \in notify_one(at)
        /\ \A i \in Calls : at[i] = pc[i] \/ (pc[i] = "claimed" /\ at[i] = "config")
    BY <1>1, <2>1, <2>3
  <2> QED BY <2>2, <2>4, NotifyStep
<1> QED BY <1>2, <1>3

\* The end of a call that is not served any more, or whose place is cleared.
LEMMA EndStep ==
    ASSUME IInv, NEW i \in Calls, NEW info \in Calls \cup {None},
           pc[i] \notin {"new", "claimed"}, EndCall(i, info), info \in {i, mSubscriptionInfo},
           helper' \in [Calls -> {"none", "running", "done"}], overtaken' \in SUBSET Calls,
           UNCHANGED <<mToken, token, mClientAlive, client>>
    PROVE  IInv'
<1>1. /\ pc' = [pc EXCEPT ![i] = "done"] /\ pc \in [Calls -> Steps]
      /\ mSubscriptionInfo' = IF info = i THEN None ELSE mSubscriptionInfo
      /\ mSubscriptionInfo' # i
  BY CallsAssumption DEF EndCall, IInv, TypeOK, None
<1>2. mSubscriptionInfo' \in Calls \cup {None}
  BY <1>1 DEF IInv, TypeOK
<1>3. WritesOnlyDuringCall'
  <2> SUFFICES ASSUME mSubscriptionInfo' # None
               PROVE  pc'[mSubscriptionInfo'] \in {"waiting", "woken", "timeout"}
    BY DEF WritesOnlyDuringCall
  <2>1. mSubscriptionInfo' = mSubscriptionInfo /\ mSubscriptionInfo \in Calls \ {i}
    BY <1>1, <1>2
  <2>2. pc'[mSubscriptionInfo] = pc[mSubscriptionInfo]
    BY <1>1, <2>1
  <2> QED BY <2>1, <2>2 DEF IInv, WritesOnlyDuringCall
<1>4. "done" \in Steps \ {"new"}
  BY DEF Steps
<1> QED BY <1>1, <1>2, <1>3, <1>4, MoveStep

LEMMA SubscribeStep ==
    ASSUME IInv, NEW i \in Calls, Subscribe(i)
    PROVE  IInv'
<1>1. /\ pc[i] = "subscribe" /\ helper' = [helper EXCEPT ![i] = "running"]
      /\ UNCHANGED <<mToken, token, mClientAlive, client>>
      /\ overtaken' = overtaken \cup {j \in {mSubscriptionInfo} \cap Calls : token[j] > token[i]}
  BY DEF Subscribe
<1>2. helper' \in [Calls -> {"none", "running", "done"}] /\ overtaken' \in SUBSET Calls
  BY <1>1 DEF IInv, TypeOK
<1>3. CASE ShouldEnd(i)
  <2>1. EndCall(i, i)
    BY <1>3 DEF Subscribe
  <2> QED BY <1>1, <1>2, <2>1, EndStep
<1>4. CASE ~ShouldEnd(i)
  <2>1. pc' = [pc EXCEPT ![i] = "waiting"] /\ mSubscriptionInfo' = i
    BY <1>4 DEF Subscribe
  <2>2. mToken = token[i] /\ mClientAlive[i]
    BY <1>4 DEF ShouldEnd
  <2>3. WritesOnlyDuringCall'
    BY <2>1 DEF WritesOnlyDuringCall, IInv, TypeOK
  <2>4. "waiting" \in Steps \ {"new"}
    BY DEF Steps
  <2> QED BY <1>1, <1>2, <2>1, <2>2, <2>3, <2>4, MoveStep
<1> QED BY <1>3, <1>4

\* A call that is asleep or about to lock moves to another of these steps.
LEMMA InWaitStep ==
    ASSUME IInv, NEW i \in Calls, NEW s \in {"waiting", "woken", "timeout"},
           pc[i] \in {"waiting", "woken", "timeout"}, pc' = [pc EXCEPT ![i] = s],
           s = "waiting" => ~ShouldEnd(i),
           UNCHANGED <<mToken, token, mSubscriptionInfo, mClientAlive, helper, client, overtaken>>
    PROVE  IInv'
<1>1. s \in Steps \ {"new"}
  BY DEF Steps
<1>2. s = "waiting" => mToken = token[i] /\ mClientAlive[i]
  BY DEF ShouldEnd
<1>3. WritesOnlyDuringCall'
  BY DEF WritesOnlyDuringCall, IInv, TypeOK
<1>4. /\ helper' \in [Calls -> {"none", "running", "done"}] /\ overtaken' \in SUBSET Calls
      /\ mSubscriptionInfo' \in Calls \cup {None}
  BY DEF IInv, TypeOK
<1> QED BY <1>1, <1>2, <1>3, <1>4, MoveStep

LEMMA NextStep ==
    ASSUME IInv, [Next]_vars
    PROVE  IInv'
<1>1. ASSUME NEW i \in Calls, claimToken(i) PROVE IInv'
  BY <1>1, ClaimStep
<1>2. ASSUME NEW i \in Calls, NotifyOld(i) PROVE IInv'
  <2>1. PICK at : at = [pc EXCEPT ![i] = "config"]
    OBVIOUS
  <2>2. at \in [Calls -> Steps] /\ (\A j \in Calls : at[j] = pc[j] \/ (pc[j] = "claimed" /\ at[j] = "config"))
    BY <1>2, <2>1 DEF NotifyOld, IInv, TypeOK, Steps
  <2>3. /\ pc' \in notify_one(at)
        /\ UNCHANGED <<mToken, token, mSubscriptionInfo, mClientAlive, helper, client, overtaken>>
    BY <1>2, <2>1 DEF NotifyOld
  <2>4. mClientAlive' \in [Calls -> BOOLEAN]
    BY <2>3 DEF IInv, TypeOK
  <2> QED BY <2>2, <2>3, <2>4, NotifyStep
<1>3. ASSUME NEW i \in Calls, Subscribe(i) PROVE IInv'
  BY <1>3, SubscribeStep
<1>4. ASSUME NEW i \in Calls, NEW ok \in BOOLEAN, readConfig(i, ok) PROVE IInv'
  <2>1. PICK s : s = IF ok THEN "subscribe" ELSE "done"
    OBVIOUS
  <2>2. /\ s \in Steps \ {"new"} /\ s # "waiting" /\ pc[i] = "config" /\ pc' = [pc EXCEPT ![i] = s]
        /\ UNCHANGED <<mToken, token, mSubscriptionInfo, mClientAlive, helper, client, overtaken>>
    BY <1>4, <2>1 DEF readConfig, Steps
  <2>3. WritesOnlyDuringCall'
    BY <2>2 DEF WritesOnlyDuringCall, IInv, TypeOK
  <2>4. /\ helper' \in [Calls -> {"none", "running", "done"}] /\ overtaken' \in SUBSET Calls
        /\ mSubscriptionInfo' \in Calls \cup {None}
    BY <2>2 DEF IInv, TypeOK
  <2> QED BY <2>2, <2>3, <2>4, MoveStep
<1>5. ASSUME NEW i \in Calls, SpuriousWakeup(i) PROVE IInv'
  BY <1>5, InWaitStep DEF SpuriousWakeup
<1>6. ASSUME NEW i \in Calls, Timeout(i) PROVE IInv'
  BY <1>6, InWaitStep DEF Timeout
<1>7. ASSUME NEW i \in Calls, waitForSubscriptionToEnd(i) PROVE IInv'
  <2>1. UNCHANGED <<mToken, token, mClientAlive, helper, client, overtaken>>
    BY <1>7 DEF waitForSubscriptionToEnd
  <2>2. /\ helper' \in [Calls -> {"none", "running", "done"}] /\ overtaken' \in SUBSET Calls
        /\ mSubscriptionInfo \in Calls \cup {None}
    BY <2>1 DEF IInv, TypeOK
  <2>3. CASE pc[i] \in {"timeout", "woken"} /\ EndCall(i, mSubscriptionInfo)
    BY <2>1, <2>2, <2>3, EndStep
  <2>4. CASE /\ pc[i] = "woken" /\ ~ShouldEnd(i) /\ pc' = [pc EXCEPT ![i] = "waiting"]
             /\ UNCHANGED mSubscriptionInfo
    BY <2>1, <2>4, InWaitStep
  <2> QED BY <1>7, <2>3, <2>4 DEF waitForSubscriptionToEnd
<1>8. ASSUME NEW i \in Calls, pullAndSendHeartbeats(i) PROVE IInv'
  <2>1. UNCHANGED <<mToken, token, mSubscriptionInfo, client, overtaken>>
    BY <1>8 DEF pullAndSendHeartbeats
  <2>2. CASE mSubscriptionInfo = None \/ mToken # token[i]
    <3>1. helper' = [helper EXCEPT ![i] = "done"] /\ UNCHANGED <<mClientAlive, pc>>
      BY <1>8, <2>2 DEF pullAndSendHeartbeats
    <3> QED BY <2>1, <3>1 DEF IInv, TypeOK, TokensOK, NotifiedOK, AliveOK, WritesOnlyDuringCall
  <2>3. CASE ~(mSubscriptionInfo = None \/ mToken # token[i])
    <3>1. attemptWriteToPipe /\ UNCHANGED helper
      BY <1>8, <2>3 DEF pullAndSendHeartbeats
    <3> QED BY <2>1, <2>3, <3>1, WriteStep
  <2> QED BY <2>2, <2>3
<1>9. ASSUME NEW i \in Calls, ClientExit(i) PROVE IInv'
  BY <1>9 DEF ClientExit, IInv, TypeOK, TokensOK, NotifiedOK, AliveOK, WritesOnlyDuringCall
<1>10. ASSUME onLogEvent PROVE IInv'
  <2>1. /\ mSubscriptionInfo # None /\ attemptWriteToPipe
        /\ UNCHANGED <<mToken, token, mSubscriptionInfo, helper, client, overtaken>>
    BY <1>10 DEF onLogEvent
  <2> QED BY <2>1, WriteStep
<1>11. ASSUME UNCHANGED vars PROVE IInv'
  BY <1>11 DEF vars, IInv, TypeOK, TokensOK, NotifiedOK, AliveOK, WritesOnlyDuringCall
<1> QED BY <1>1, <1>2, <1>3, <1>4, <1>5, <1>6, <1>7, <1>8, <1>9, <1>10, <1>11 DEF Next, Finished

-----------------------------------------------------------------------------

\* A call of startNewSubscription never sleeps on with a reason to end that
\* nobody is about to tell it of: notify_one, called without mMutex and with
\* several calls around, wakes the right one.
THEOREM WakeupsReachTheirCall == Spec => []NoLostWakeup
<1>1. Init => IInv
  BY InitOK
<1>2. IInv /\ [Next]_vars => IInv'
  BY NextStep
<1> QED BY <1>1, <1>2, NoWakeupLost, PTL DEF Spec

\* Events, pulled atoms and heartbeats are written only to the pipe of a call
\* that has not returned.
THEOREM PipesAreOpen == Spec => []WritesOnlyDuringCall
<1>1. Init => IInv
  BY InitOK
<1>2. IInv /\ [Next]_vars => IInv'
  BY NextStep
<1>3. IInv => WritesOnlyDuringCall
  BY DEF IInv
<1> QED BY <1>1, <1>2, <1>3, PTL DEF Spec
=============================================================================
