-------------------------- MODULE MCLogEventQueue --------------------------
(* LogEventQueue with a buffer of two and six events: the buffer fills,     *)
(* overflows, drains to empty and fills again.                              *)
EXTENDS LogEventQueue
=============================================================================
