-------------------------- MODULE MCConfigManager --------------------------
(***************************************************************************)
(* Instances of ConfigManager for TLC.                                     *)
(***************************************************************************)
EXTENDS ConfigManager, TLC

CONSTANTS t1, t2, k1, k2

OneUid == (k1 :> 1000) @@ (k2 :> 1000)

\* No "uid_id" is a suffix of another file's name.
Distinct == {<<k, k>> : k \in Keys}

Threads2 == Permutations({t1, t2})
=============================================================================
