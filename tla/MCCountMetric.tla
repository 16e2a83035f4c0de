--------------------------- MODULE MCCountMetric ---------------------------
(***************************************************************************)
(* Buckets of two ticks and the first tick of a fourth, events of two keys *)
(* of which a bucket may hold only one (HardLimit), and an alert over      *)
(* three buckets: the oldest falls out of the tracker's circular array.    *)
(***************************************************************************)
EXTENDS CountMetric

\* Keys are only compared with each other.
KeySymmetry == Permutations(Keys)
=============================================================================
