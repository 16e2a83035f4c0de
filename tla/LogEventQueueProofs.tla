------------------------ MODULE LogEventQueueProofs ------------------------
(* Proofs, for every buffer limit, of the safety properties of LogEventQueue *)
(* and of the fact that it implements LossyFifo, fairness apart.             *)
EXTENDS LogEventQueue, TLAPS, FiniteSetTheorems, SequenceTheorems

(* What waitPop leaves behind: the rest of the queue, one place forward.     *)
LEMMA TailFacts ==
    ASSUME NEW S, NEW q \in Seq(S), q # <<>>
    PROVE  /\ Head(q) = q[1] /\ Head(q) \in S
           /\ Tail(q) \in Seq(S)
           /\ Len(q) \in Nat /\ 1 \in 1..Len(q)
           /\ Len(Tail(q)) = Len(q) - 1
           /\ \A i \in 1..Len(Tail(q)) :
                i + 1 \in 1..Len(q) /\ Tail(q)[i] = q[i + 1]
<1>1. Len(q) \in Nat \ {0}
  BY EmptySeq
<1>2. /\ Head(q) \in S /\ Tail(q) \in Seq(S)
      /\ Len(Tail(q)) = Len(q) - 1
      /\ \A i \in 1..Len(Tail(q)) : Tail(q)[i] = q[i + 1]
  BY HeadTailProperties
<1>3. Head(q) = q[1]
  OBVIOUS
<1> QED BY <1>1, <1>2, <1>3

(* What push leaves behind: the old queue with one event at its end.         *)
LEMMA AppendFacts ==
    ASSUME NEW S, NEW q \in Seq(S), NEW e \in S
    PROVE  /\ Append(q, e) \in Seq(S)
           /\ Len(q) \in Nat /\ Len(Append(q, e)) = Len(q) + 1
           /\ \A i \in 1..Len(q) : Append(q, e)[i] = q[i]
           /\ Append(q, e)[Len(q) + 1] = e
  BY AppendProperties, LenProperties

(* TypeOK is preserved by every step: no counter passes its bound and the    *)
(* reader and the listener stay in their loops.                              *)
LEMMA TypePreserved == TypeOK /\ [Next]_vars => TypeOK'
<1> SUFFICES ASSUME TypeOK, [Next]_vars PROVE TypeOK'
  OBVIOUS
<1> USE QueueLimitAssumption, BoundsAssumption
<1>1. CASE ReceiveEvent
  <2>1. arrived + 1 \in 1..MaxEvents
    BY <1>1 DEF TypeOK, ReceiveEvent
  <2>2. mQueue' \in Seq(1..MaxEvents) /\ refused' \in SUBSET (1..MaxEvents)
        /\ pushed' \in BOOLEAN
    <3>1. CASE Len(mQueue) < mQueueLimit
      <4>1. mQueue' = Append(mQueue, arrived + 1) /\ pushed' = TRUE /\ refused' = refused
        BY <1>1, <3>1 DEF ReceiveEvent, push
      <4>2. Append(mQueue, arrived + 1) \in Seq(1..MaxEvents)
        BY <2>1, AppendFacts DEF TypeOK
      <4> QED BY <4>1, <4>2 DEF TypeOK
    <3>2. CASE ~(Len(mQueue) < mQueueLimit)
      <4>1. mQueue' = mQueue /\ pushed' = FALSE /\ refused' = refused \cup {arrived + 1}
        BY <1>1, <3>2 DEF ReceiveEvent, push
      <4> QED BY <4>1, <2>1 DEF TypeOK
    <3> QED BY <3>1, <3>2
  <2> QED BY <1>1, <2>1, <2>2 DEF TypeOK, ReceiveEvent
<1>2. CASE ReceiveLossNote
  BY <1>2 DEF TypeOK, ReceiveLossNote
<1>3. CASE NotifyOne
  BY <1>3 DEF TypeOK, NotifyOne, Readers
<1>4. CASE waitPop
  <2>1. CASE mQueue = <<>>
    BY <1>4, <2>1 DEF TypeOK, waitPop, Readers
  <2>2. CASE mQueue # <<>>
    <3>1. Head(mQueue) \in 1..MaxEvents /\ Tail(mQueue) \in Seq(1..MaxEvents)
      BY <2>2, TailFacts DEF TypeOK
    <3>2. /\ mQueue' = Tail(mQueue) /\ item' = Head(mQueue)
          /\ delivered' = delivered \cup {Head(mQueue)} /\ reader' = "handle"
          /\ UNCHANGED <<listener, pushed, arrived, refused, mOverflowCount, logLossNotes>>
      BY <1>4, <2>2 DEF waitPop, TakeFront
    <3>3. item' \in 0..MaxEvents
      BY <3>1, <3>2
    <3>4. delivered' \in SUBSET (1..MaxEvents)
      BY <3>1, <3>2 DEF TypeOK
    <3> QED BY <3>1, <3>2, <3>3, <3>4 DEF TypeOK, Readers
  <2> QED BY <2>1, <2>2
<1>5. CASE SpuriousWakeup
  BY <1>5 DEF TypeOK, SpuriousWakeup, Readers
<1>6. CASE HandleDone
  BY <1>6 DEF TypeOK, HandleDone, Readers
<1>7. CASE UNCHANGED vars
  BY <1>7 DEF TypeOK, vars
<1> QED BY <1>1, <1>2, <1>3, <1>4, <1>5, <1>6, <1>7 DEF Next

(* The inductive invariant: besides the properties, the reader's last event  *)
(* has been handed on (or there is none yet), and a refusal that is still    *)
(* being reported was a real one.                                            *)
IInv ==
    /\ TypeOK
    /\ InOrder
    /\ Conserved
    /\ NoLostWakeup
    /\ OverflowCounted
    /\ item <= arrived

(* A step of the listener or the reader on the queue keeps it in order of    *)
(* arrival and within its limit: push appends the newest event and only      *)
(* below the limit, waitPop takes the oldest.                                *)
LEMMA OrderPreserved ==
    TypeOK /\ InOrder /\ item <= arrived /\ [Next]_vars
      => InOrder' /\ (item <= arrived)'
<1> SUFFICES ASSUME TypeOK, InOrder, item <= arrived, [Next]_vars
             PROVE  InOrder' /\ (item <= arrived)'
  OBVIOUS
<1> USE QueueLimitAssumption, BoundsAssumption
<1>0. Len(mQueue) \in Nat /\ arrived \in Nat /\ item \in Nat
      /\ \A i \in 1..Len(mQueue) : mQueue[i] \in Nat
      /\ \A e \in delivered : e \in Nat
  BY LenProperties, ElementOfSeq DEF TypeOK
<1>1. CASE ReceiveEvent
  <2>1. arrived + 1 \in 1..MaxEvents /\ arrived' = arrived + 1
        /\ item' = item /\ delivered' = delivered
    BY <1>1 DEF TypeOK, ReceiveEvent
  <2>2. CASE Len(mQueue) < mQueueLimit
    <3>1. mQueue' = Append(mQueue, arrived + 1)
      BY <1>1, <2>2 DEF ReceiveEvent, push
    <3>2. /\ Len(mQueue') = Len(mQueue) + 1
          /\ \A i \in 1..Len(mQueue) : mQueue'[i] = mQueue[i]
          /\ mQueue'[Len(mQueue) + 1] = arrived + 1
      BY <3>1, <2>1, AppendFacts DEF TypeOK
    <3>3. ASSUME NEW i \in 1..Len(mQueue')
          PROVE  item' < mQueue'[i] /\ mQueue'[i] <= arrived'
      <4>1. CASE i = Len(mQueue) + 1
        BY <1>0, <2>1, <3>2, <4>1
      <4>2. CASE i # Len(mQueue) + 1
        <5>1. i \in 1..Len(mQueue) /\ mQueue'[i] = mQueue[i]
          BY <1>0, <3>2, <4>2
        <5> QED BY <1>0, <2>1, <5>1 DEF InOrder
      <4> QED BY <4>1, <4>2
    <3>4. ASSUME NEW i \in 1..Len(mQueue'), NEW j \in 1..Len(mQueue'), i < j
          PROVE  mQueue'[i] < mQueue'[j]
      <4>1. i \in 1..Len(mQueue) /\ mQueue'[i] = mQueue[i]
        BY <1>0, <3>2, <3>4
      <4>2. CASE j = Len(mQueue) + 1
        BY <1>0, <2>1, <3>2, <4>1, <4>2 DEF InOrder
      <4>3. CASE j # Len(mQueue) + 1
        <5>1. j \in 1..Len(mQueue) /\ mQueue'[j] = mQueue[j]
          BY <1>0, <3>2, <4>3
        <5> QED BY <4>1, <5>1, <3>4 DEF InOrder
      <4> QED BY <4>2, <4>3
    <3>5. Len(mQueue') <= mQueueLimit /\ \A e \in delivered' : e <= item'
      BY <1>0, <2>1, <2>2, <3>2 DEF InOrder
    <3>6. item' <= arrived'
      BY <1>0, <2>1
    <3> QED BY <3>3, <3>4, <3>5, <3>6 DEF InOrder
  <2>3. CASE ~(Len(mQueue) < mQueueLimit)
    <3>1. mQueue' = mQueue
      BY <1>1, <2>3 DEF ReceiveEvent, push
    <3> QED BY <1>0, <2>1, <3>1 DEF InOrder
  <2> QED BY <2>2, <2>3
<1>2. CASE waitPop /\ mQueue # <<>>
  <2>1. mQueue' = Tail(mQueue) /\ item' = Head(mQueue) /\ arrived' = arrived
        /\ delivered' = delivered \cup {Head(mQueue)}
    BY <1>2 DEF waitPop, TakeFront
  <2>2. /\ Head(mQueue) = mQueue[1] /\ 1 \in 1..Len(mQueue)
        /\ Len(mQueue') = Len(mQueue) - 1
        /\ \A i \in 1..Len(mQueue') :
             i + 1 \in 1..Len(mQueue) /\ mQueue'[i] = mQueue[i + 1]
    BY <1>2, <2>1, TailFacts DEF TypeOK
  <2>3. item < Head(mQueue) /\ Head(mQueue) <= arrived
    BY <2>2 DEF InOrder
  <2>4. Len(mQueue') <= mQueueLimit
    BY <1>0, <2>2 DEF InOrder
  <2>5. ASSUME NEW i \in 1..Len(mQueue'), NEW j \in 1..Len(mQueue'), i < j
        PROVE  mQueue'[i] < mQueue'[j]
    <3>1. i + 1 \in 1..Len(mQueue) /\ j + 1 \in 1..Len(mQueue) /\ i + 1 < j + 1
          /\ mQueue'[i] = mQueue[i + 1] /\ mQueue'[j] = mQueue[j + 1]
      BY <1>0, <2>2, <2>5
    <3> QED BY <3>1 DEF InOrder
  <2>6. \A i \in 1..Len(mQueue') : item' < mQueue'[i] /\ mQueue'[i] <= arrived'
    BY <1>0, <2>1, <2>2 DEF InOrder
  <2>7. \A e \in delivered' : e <= item'
    BY <1>0, <2>1, <2>3, <2>2 DEF InOrder
  <2> QED BY <2>1, <2>3, <2>4, <2>5, <2>6, <2>7 DEF InOrder
<1>3. CASE UNCHANGED <<mQueue, item, arrived, delivered>>
  BY <1>3 DEF InOrder
<1>4. ReceiveEvent \/ (waitPop /\ mQueue # <<>>)
      \/ UNCHANGED <<mQueue, item, arrived, delivered>>
  BY DEF Next, vars, waitPop, NotifyOne, ReceiveLossNote, SpuriousWakeup, HandleDone
<1> QED BY <1>1, <1>2, <1>3, <1>4

(* Nothing is lost or duplicated: the newest event goes to the queue or to   *)
(* the refused ones, and the front moves from the queue to the delivered.    *)
LEMMA ConservedPreserved ==
    TypeOK /\ InOrder /\ Conserved /\ item <= arrived /\ [Next]_vars => Conserved'
<1> SUFFICES ASSUME TypeOK, InOrder, Conserved, item <= arrived, [Next]_vars
             PROVE  Conserved'
  OBVIOUS
<1> USE QueueLimitAssumption, BoundsAssumption
<1>0. Len(mQueue) \in Nat /\ arrived \in Nat
  BY LenProperties DEF TypeOK
<1>1. CASE ReceiveEvent
  <2>1. arrived + 1 \in 1..MaxEvents /\ arrived' = arrived + 1 /\ delivered' = delivered
    BY <1>1 DEF TypeOK, ReceiveEvent
  <2>2. 1..arrived' = (1..arrived) \cup {arrived + 1} /\ arrived + 1 \notin 1..arrived
    BY <1>0, <2>1
  <2>3. CASE Len(mQueue) < mQueueLimit
    <3>1. mQueue' = Append(mQueue, arrived + 1) /\ refused' = refused
      BY <1>1, <2>3 DEF ReceiveEvent, push
    <3>2. /\ Len(mQueue') = Len(mQueue) + 1
          /\ \A i \in 1..Len(mQueue) : mQueue'[i] = mQueue[i]
          /\ mQueue'[Len(mQueue) + 1] = arrived + 1
      BY <3>1, <2>1, AppendFacts DEF TypeOK
    <3>3. Queued' = Queued \cup {arrived + 1}
      BY <1>0, <3>2 DEF Queued
    <3> QED BY <2>1, <2>2, <3>1, <3>3 DEF Conserved
  <2>4. CASE ~(Len(mQueue) < mQueueLimit)
    <3>1. mQueue' = mQueue /\ refused' = refused \cup {arrived + 1}
      BY <1>1, <2>4 DEF ReceiveEvent, push
    <3>2. Queued' = Queued
      BY <3>1 DEF Queued
    <3> QED BY <2>1, <2>2, <3>1, <3>2 DEF Conserved
  <2> QED BY <2>3, <2>4
<1>2. CASE waitPop /\ mQueue # <<>>
  <2>1. mQueue' = Tail(mQueue) /\ arrived' = arrived /\ refused' = refused
        /\ delivered' = delivered \cup {Head(mQueue)}
    BY <1>2 DEF waitPop, TakeFront
  <2>2. /\ Head(mQueue) = mQueue[1] /\ 1 \in 1..Len(mQueue)
        /\ Len(mQueue') = Len(mQueue) - 1
        /\ \A i \in 1..Len(mQueue') :
             i + 1 \in 1..Len(mQueue) /\ mQueue'[i] = mQueue[i + 1]
    BY <1>2, <2>1, TailFacts DEF TypeOK
  <2>3. \A i \in 1..Len(mQueue') : mQueue'[i] # Head(mQueue)
    <3>1. \A i \in 1..Len(mQueue) : mQueue[i] \in Nat
      BY ElementOfSeq DEF TypeOK
    <3>2. ASSUME NEW i \in 1..Len(mQueue') PROVE mQueue[1] < mQueue[i + 1]
      <4>1. i + 1 \in 1..Len(mQueue) /\ 1 < i + 1
        BY <1>0, <2>2
      <4> QED BY <2>2, <4>1 DEF InOrder
    <3> QED BY <2>2, <3>1, <3>2
  <2>4. Queued = Queued' \cup {Head(mQueue)}
    <3>1. ASSUME NEW i \in 1..Len(mQueue), i # 1
          PROVE  i - 1 \in 1..Len(mQueue') /\ mQueue'[i - 1] = mQueue[i]
      BY <1>0, <2>2, <3>1
    <3>2. Queued \subseteq Queued' \cup {Head(mQueue)}
      BY <2>2, <3>1 DEF Queued
    <3>3. Queued' \cup {Head(mQueue)} \subseteq Queued
      BY <2>2 DEF Queued
    <3> QED BY <3>2, <3>3
  <2>5. Head(mQueue) \notin Queued'
    BY <2>3 DEF Queued
  <2> QED BY <2>1, <2>4, <2>5 DEF Conserved
<1>3. CASE UNCHANGED <<mQueue, arrived, delivered, refused>>
  BY <1>3 DEF Conserved, Queued
<1>4. ReceiveEvent \/ (waitPop /\ mQueue # <<>>)
      \/ UNCHANGED <<mQueue, arrived, delivered, refused>>
  BY DEF Next, vars, waitPop, NotifyOne, ReceiveLossNote, SpuriousWakeup, HandleDone
<1> QED BY <1>1, <1>2, <1>3, <1>4

(* A push notifies whoever sleeps, and the reader sleeps only on an empty    *)
(* queue.                                                                    *)
LEMMA WakeupPreserved == NoLostWakeup /\ [Next]_vars => NoLostWakeup'
  BY DEF NoLostWakeup, Next, vars, ReceiveEvent, push, ReceiveLossNote, NotifyOne,
         waitPop, TakeFront, SpuriousWakeup, HandleDone

(* The overflow counter follows the refusals.                                *)
LEMMA OverflowPreserved ==
    TypeOK /\ Conserved /\ OverflowCounted /\ [Next]_vars => OverflowCounted'
<1> SUFFICES ASSUME TypeOK, Conserved, OverflowCounted, [Next]_vars
             PROVE  OverflowCounted'
  OBVIOUS
<1> USE QueueLimitAssumption, BoundsAssumption
<1>1. CASE ReceiveEvent
  <2>1. listener' = "notify" /\ mOverflowCount' = mOverflowCount /\ listener = "recv"
    BY <1>1 DEF ReceiveEvent
  <2>2. CASE Len(mQueue) < mQueueLimit
    <3>1. pushed' = TRUE /\ refused' = refused
      BY <1>1, <2>2 DEF ReceiveEvent, push
    <3> QED BY <2>1, <3>1 DEF OverflowCounted
  <2>3. CASE ~(Len(mQueue) < mQueueLimit)
    <3>1. pushed' = FALSE /\ refused' = refused \cup {arrived + 1}
      BY <1>1, <2>3 DEF ReceiveEvent, push
    <3>2. IsFiniteSet(1..MaxEvents)
      BY FS_Interval
    <3>3. IsFiniteSet(refused)
      BY <3>2, FS_Subset DEF TypeOK
    <3>4. arrived + 1 \notin refused
      BY DEF TypeOK, Conserved
    <3>5. Cardinality(refused') = Cardinality(refused) + 1
      BY <3>1, <3>3, <3>4, FS_AddElement
    <3> QED BY <2>1, <3>1, <3>5 DEF OverflowCounted, TypeOK
  <2> QED BY <2>2, <2>3
<1>2. CASE NotifyOne
  <2>1. listener' = "recv" /\ listener = "notify" /\ pushed' = pushed /\ refused' = refused
    BY <1>2 DEF NotifyOne
  <2>2. CASE pushed
    BY <1>2, <2>1, <2>2 DEF NotifyOne, OverflowCounted
  <2>3. CASE ~pushed
    BY <1>2, <2>1, <2>3 DEF NotifyOne, OverflowCounted, TypeOK
  <2> QED BY <2>2, <2>3
<1>3. CASE UNCHANGED <<refused, mOverflowCount, listener, pushed>>
  BY <1>3 DEF OverflowCounted
<1>4. ReceiveEvent \/ NotifyOne \/ UNCHANGED <<refused, mOverflowCount, listener, pushed>>
  BY DEF Next, vars, waitPop, TakeFront, ReceiveLossNote, SpuriousWakeup, HandleDone
<1> QED BY <1>1, <1>2, <1>3, <1>4

(* The empty buffer of a new LogEventQueue satisfies the inductive invariant. *)
LEMMA InitInvariant == Init => IInv
<1> SUFFICES ASSUME Init PROVE IInv
  OBVIOUS
<1> USE QueueLimitAssumption, BoundsAssumption
<1>1. Len(mQueue) = 0 /\ mQueue \in Seq(1..MaxEvents)
  BY EmptySeq DEF Init
<1>2. TypeOK
  BY <1>1 DEF Init, TypeOK, Readers
<1>3. InOrder /\ item <= arrived
  BY <1>1 DEF Init, InOrder
<1>4. Conserved
  BY <1>1 DEF Init, Conserved, Queued
<1>5. OverflowCounted
  BY FS_EmptySet DEF Init, OverflowCounted
<1>6. NoLostWakeup
  BY DEF Init, NoLostWakeup
<1> QED BY <1>2, <1>3, <1>4, <1>5, <1>6 DEF IInv

(* Every step of the socket thread and of the reader preserves it. *)
LEMMA NextInvariant == IInv /\ [Next]_vars => IInv'
  BY TypePreserved, OrderPreserved, ConservedPreserved, WakeupPreserved,
     OverflowPreserved DEF IInv

(* For every limit, the event buffer between the socket thread and the       *)
(* reader thread conserves events, keeps their order, loses no wake-up and   *)
(* counts its refusals.                                                      *)
THEOREM QueueSafe ==
    Spec => [](TypeOK /\ QueueSound)
<1>1. Init /\ [][Next]_vars => []IInv
  BY InitInvariant, NextInvariant, PTL
<1>2. IInv => TypeOK /\ QueueSound
  BY DEF IInv, QueueSound
<1> QED BY <1>1, <1>2, PTL DEF Spec

(* push refuses an event only when the buffer is full, and then leaves it    *)
(* alone.                                                                    *)
THEOREM RefusesOnlyWhenFull == Spec => RefusedOnlyWhenFull
<1>1. IInv /\ [Next]_vars
        => [refused' # refused => Len(mQueue) = mQueueLimit /\ mQueue' = mQueue]_vars
  <2> SUFFICES ASSUME IInv, [Next]_vars, refused' # refused
               PROVE  Len(mQueue) = mQueueLimit /\ mQueue' = mQueue
    OBVIOUS
  <2>1. ReceiveEvent /\ ~(Len(mQueue) < mQueueLimit)
    BY DEF Next, vars, ReceiveEvent, push, NotifyOne, waitPop, TakeFront,
           ReceiveLossNote, SpuriousWakeup, HandleDone
  <2>2. Len(mQueue) \in Nat /\ Len(mQueue) <= mQueueLimit
    BY LenProperties DEF IInv, TypeOK, InOrder
  <2>3. mQueue' = mQueue
    BY <2>1 DEF ReceiveEvent, push
  <2> QED BY <2>1, <2>2, <2>3, QueueLimitAssumption
<1>2. Init /\ [][Next]_vars => []IInv
  BY InitInvariant, NextInvariant, PTL
<1> QED BY <1>1, <1>2, PTL DEF Spec, RefusedOnlyWhenFull

(* Every step of the two threads is a step of the lossy FIFO channel or is   *)
(* invisible to it.                                                          *)
THEOREM ImplementsFifoSafety ==
    Spec => Fifo!FifoInit /\ [][Fifo!FifoNext]_Fifo!fifoVars
<1>1. Init => Fifo!FifoInit
  BY DEF Init, Fifo!FifoInit
<1>2. [Next]_vars => [Fifo!FifoNext]_Fifo!fifoVars
  <2> SUFFICES ASSUME [Next]_vars PROVE [Fifo!FifoNext]_Fifo!fifoVars
    OBVIOUS
  <2>1. CASE ReceiveEvent
    BY <2>1 DEF ReceiveEvent, push, Fifo!FifoNext, Fifo!Accept, Fifo!Refuse
  <2>2. CASE waitPop /\ mQueue # <<>>
    BY <2>2 DEF waitPop, TakeFront, Fifo!FifoNext, Fifo!Deliver
  <2>3. CASE UNCHANGED <<arrived, mQueue, delivered, refused>>
    BY <2>3 DEF Fifo!fifoVars
  <2>4. ReceiveEvent \/ (waitPop /\ mQueue # <<>>)
        \/ UNCHANGED <<arrived, mQueue, delivered, refused>>
    BY DEF Next, vars, waitPop, NotifyOne, ReceiveLossNote, SpuriousWakeup, HandleDone
  <2> QED BY <2>1, <2>2, <2>3, <2>4
<1> QED BY <1>1, <1>2, PTL DEF Spec
=============================================================================
