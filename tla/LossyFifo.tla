----------------------------- MODULE LossyFifo -----------------------------
(***************************************************************************)
(* What statsd's in-process event buffer promises to the two threads that  *)
(* share it: an event that arrives is either refused at once or, later,    *)
(* handed on exactly once, in the order of arrival.  Threads, locks, the   *)
(* condition variable and the size of the buffer are not visible here.     *)
(* Events are numbered in the order in which they arrive.                  *)
(***************************************************************************)
EXTENDS Naturals, Sequences

CONSTANT MaxEvents    \* how many events arrive in a behaviour

VARIABLES arrived,    \* number of events that have arrived
          inFlight,   \* accepted and not yet handed on, oldest first
          delivered,  \* the events handed on
          refused     \* the events refused on arrival

fifoVars == <<arrived, inFlight, delivered, refused>>

FifoInit ==
    /\ arrived = 0
    /\ inFlight = <<>>
    /\ delivered = {}
    /\ refused = {}

Accept ==
    /\ arrived < MaxEvents
    /\ arrived' = arrived + 1
    /\ inFlight' = Append(inFlight, arrived + 1)
    /\ UNCHANGED <<delivered, refused>>

Refuse ==
    /\ arrived < MaxEvents
    /\ arrived' = arrived + 1
    /\ refused' = refused \cup {arrived + 1}
    /\ UNCHANGED <<inFlight, delivered>>

Deliver ==
    /\ inFlight # <<>>
    /\ delivered' = delivered \cup {Head(inFlight)}
    /\ inFlight' = Tail(inFlight)
    /\ UNCHANGED <<arrived, refused>>

FifoNext == Accept \/ Refuse \/ Deliver

\* Whoever drains the buffer keeps draining it.
FifoSpec == FifoInit /\ [][FifoNext]_fifoVars /\ WF_fifoVars(Deliver)
=============================================================================
