-------------------------------- MODULE MCEts --------------------------------
(***************************************************************************)
(* An instance of an ETS table for TLC.                                    *)
(***************************************************************************)
EXTENDS Ets, TLC

CONSTANTS k1, k2, k3, c1, c2

\* Two clients whose keys lie in buckets of their own.
OwnBucket(k) == IF k = k3 THEN 1 ELSE 0
OwnKeys(c) == IF c = c1 THEN {k1, k2} ELSE {k3}

ASSUME OwnBuckets

Symmetry == Permutations(Entry)
=============================================================================
