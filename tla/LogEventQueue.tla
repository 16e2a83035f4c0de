--------------------------- MODULE LogEventQueue ---------------------------
(***************************************************************************)
(* The bounded buffer between the thread that reads the statsd socket and  *)
(* the thread that feeds the metrics (logd/LogEventQueue.cpp), with the    *)
(* two loops that use it: StatsSocketListener::onDataAvailable and         *)
(* StatsService::readLogs.                                                 *)
(*                                                                         *)
(* mMutex is held for the whole of each critical section, so a critical    *)
(* section is one step.  What is not under the mutex is a step of its own: *)
(* push() unlocks before it calls notify_one(), and a thread that waits on *)
(* mCondition returns from the wait in a later step than the one that      *)
(* woke it.  A condition variable may also wake spuriously.                *)
(***************************************************************************)
EXTENDS Naturals, Sequences, FiniteSets

CONSTANTS mQueueLimit,   \* LogEventQueue::mQueueLimit (4000 in main.cpp)
          MaxEvents,     \* bound: events that arrive on the socket
          MaxLossNotes   \* bound: "events were dropped" datagrams that arrive

ASSUME QueueLimitAssumption == mQueueLimit \in Nat \ {0}
ASSUME BoundsAssumption == MaxEvents \in Nat /\ MaxLossNotes \in Nat

VARIABLES mQueue,     \* LogEventQueue::mQueue, oldest first
          listener,   \* socket thread: "recv", or "notify" between the unlock
                      \* in push() and notify_one()
          pushed,     \* result of the push() in progress (its local `success')
          reader,     \* pushed-event thread, see Readers
          item,       \* the event the reader took last, 0 at first
          arrived,    \* events received so far; they are numbered 1, 2, ...
          delivered,  \* events given to StatsLogProcessor::OnLogEvent
          refused,    \* events push() refused
          mOverflowCount,  \* StatsdStats::mOverflowCount
          logLossNotes     \* size of what StatsdStats::noteLogLost was told

vars == <<mQueue, listener, pushed, reader, item, arrived, delivered, refused,
          mOverflowCount, logLossNotes>>

\* "pop": about to lock in waitPop(); "waiting": asleep in mCondition.wait;
\* "woken": woken, about to lock again and test the predicate;
\* "handle": outside the queue, in OnLogEvent with `item'.
Readers == {"pop", "waiting", "woken", "handle"}

Init ==
    /\ mQueue = <<>>
    /\ listener = "recv" /\ pushed = TRUE
    /\ reader = "pop" /\ item = 0
    /\ arrived = 0 /\ delivered = {} /\ refused = {}
    /\ mOverflowCount = 0 /\ logLossNotes = 0

-----------------------------------------------------------------------------
(* The socket thread.                                                      *)

\* A plausible "fix" of a full buffer: make room by discarding the oldest.
push_DropOldest(e) ==
    IF Len(mQueue) < mQueueLimit
    THEN mQueue' = Append(mQueue, e) /\ pushed' = TRUE /\ UNCHANGED refused
    ELSE mQueue' = Append(Tail(mQueue), e) /\ pushed' = FALSE
         /\ refused' = refused \cup {Head(mQueue)}

\* LogEventQueue::push up to the end of its critical section.
push(e) ==
    IF Len(mQueue) < mQueueLimit
    THEN mQueue' = Append(mQueue, e) /\ pushed' = TRUE /\ UNCHANGED refused
    ELSE mQueue' = mQueue /\ pushed' = FALSE /\ refused' = refused \cup {e}

\* onDataAvailable for a datagram that holds an event.
ReceiveEvent ==
    /\ listener = "recv" /\ arrived < MaxEvents
    /\ arrived' = arrived + 1
    /\ push(arrived + 1)
    /\ listener' = "notify"
    /\ UNCHANGED <<reader, item, delivered, mOverflowCount, logLossNotes>>

\* onDataAvailable for a datagram in which a client reports events it could
\* not send: noted, never queued.
ReceiveLossNote ==
    /\ listener = "recv" /\ logLossNotes < MaxLossNotes
    /\ logLossNotes' = logLossNotes + 1
    /\ UNCHANGED <<mQueue, listener, pushed, reader, item, arrived, delivered,
                   refused, mOverflowCount>>

\* Faulty: notify_one() only when the event was refused.
NotifyOne_Inverted ==
    /\ listener = "notify" /\ listener' = "recv"
    /\ reader' = IF reader = "waiting" /\ ~pushed THEN "woken" ELSE reader
    /\ mOverflowCount' = IF pushed THEN mOverflowCount ELSE mOverflowCount + 1
    /\ UNCHANGED <<mQueue, pushed, item, arrived, delivered, refused, logLossNotes>>

\* The rest of push() and of onDataAvailable: notify_one(), then the overflow
\* is noted when push() returned false.
NotifyOne ==
    /\ listener = "notify" /\ listener' = "recv"
    /\ reader' = IF reader = "waiting" THEN "woken" ELSE reader
    /\ mOverflowCount' = IF pushed THEN mOverflowCount ELSE mOverflowCount + 1
    /\ UNCHANGED <<mQueue, pushed, item, arrived, delivered, refused, logLossNotes>>

-----------------------------------------------------------------------------
(* The pushed-event thread.                                                *)

\* The front of the queue, moved out and popped, with the lock held.
TakeFront ==
    /\ item' = Head(mQueue)
    /\ mQueue' = Tail(mQueue)
    /\ delivered' = delivered \cup {Head(mQueue)}
    /\ reader' = "handle"

\* waitPop(), from the lock to the unlock or to the wait; and the predicate
\* test after a wake-up, which does the same.
waitPop ==
    /\ reader \in {"pop", "woken"}
    /\ IF mQueue = <<>>
       THEN reader' = "waiting" /\ UNCHANGED <<mQueue, item, delivered>>
       ELSE TakeFront
    /\ UNCHANGED <<listener, pushed, arrived, refused, mOverflowCount, logLossNotes>>

SpuriousWakeup ==
    /\ reader = "waiting" /\ reader' = "woken"
    /\ UNCHANGED <<mQueue, listener, pushed, item, arrived, delivered, refused,
                   mOverflowCount, logLossNotes>>

\* OnLogEvent returns and readLogs goes round its loop.
HandleDone ==
    /\ reader = "handle" /\ reader' = "pop"
    /\ UNCHANGED <<mQueue, listener, pushed, item, arrived, delivered, refused,
                   mOverflowCount, logLossNotes>>

Next == ReceiveEvent \/ ReceiveLossNote \/ NotifyOne \/ waitPop
        \/ SpuriousWakeup \/ HandleDone

\* Both threads are ordinary runnable threads: the socket thread finishes a
\* push it began, and the reader runs when it is not asleep.  Nothing makes an
\* event arrive and nothing makes a spurious wake-up happen.
Fairness == WF_vars(NotifyOne) /\ WF_vars(waitPop) /\ WF_vars(HandleDone)

Spec == Init /\ [][Next]_vars /\ Fairness

-----------------------------------------------------------------------------
(* Properties                                                              *)

TypeOK ==
    /\ mQueue \in Seq(1..MaxEvents)
    /\ listener \in {"recv", "notify"} /\ pushed \in BOOLEAN
    /\ reader \in Readers /\ item \in 0..MaxEvents
    /\ arrived \in 0..MaxEvents
    /\ delivered \in SUBSET (1..MaxEvents) /\ refused \in SUBSET (1..MaxEvents)
    /\ mOverflowCount \in Nat /\ logLossNotes \in 0..MaxLossNotes

Queued == {mQueue[i] : i \in 1..Len(mQueue)}

\* The buffer never holds more events than its limit, the queue is in order of
\* arrival, and everything in it arrived after all that was handed on.
InOrder ==
    /\ Len(mQueue) <= mQueueLimit
    /\ \A i, j \in 1..Len(mQueue) : i < j => mQueue[i] < mQueue[j]
    /\ \A i \in 1..Len(mQueue) : item < mQueue[i] /\ mQueue[i] <= arrived
    /\ \A e \in delivered : e <= item

\* Every event that arrived is in exactly one place: waiting, handed on, or
\* refused.  None is lost silently between the socket and OnLogEvent and none
\* is seen twice.
Conserved ==
    /\ Queued \cup delivered \cup refused = 1..arrived
    /\ delivered \cap Queued = {} /\ refused \cap Queued = {}
    /\ delivered \cap refused = {}

\* No lost wake-up: if the reader is asleep while an event waits, the
\* notify_one() that will wake it is still to come (push() notifies after it
\* has released the lock).
NoLostWakeup ==
    reader = "waiting" /\ mQueue # <<>> => listener = "notify"

\* The overflow statistic counts every refused event once, except for the one
\* whose push() has not returned yet.
OverflowCounted ==
    Cardinality(refused) =
        mOverflowCount + (IF listener = "notify" /\ ~pushed THEN 1 ELSE 0)

\* The event buffer is sound at every step of its two threads: events keep their
\* order within the limit, none is lost or handed on twice, every refusal is
\* counted and no wake-up is lost between push() and waitPop().
QueueSound == InOrder /\ Conserved /\ NoLostWakeup /\ OverflowCounted

\* An event is refused only while a full buffer of older events is waiting.
RefusedOnlyWhenFull ==
    [][refused' # refused => Len(mQueue) = mQueueLimit /\ mQueue' = mQueue]_vars

\* Every event that was accepted is handed to OnLogEvent in the end.
EventuallyHandled ==
    \A e \in 1..MaxEvents : e \in Queued ~> e \in delivered

\* The buffer implements the lossy FIFO channel.
Fifo == INSTANCE LossyFifo WITH inFlight <- mQueue
ImplementsFifo == Fifo!FifoSpec
=============================================================================
