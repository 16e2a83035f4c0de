-------------------------- MODULE MCAnomalyAlarms --------------------------
(* Anomaly alarms of two owners over three seconds of two ticks; alarms may *)
(* fall into the same second, one second apart (within mMinUpdateTimeSec)   *)
(* or two (beyond it).  The alert of o1 has a refractory period, that of o2 *)
(* has none.                                                                *)
EXTENDS AnomalyAlarms
=============================================================================
