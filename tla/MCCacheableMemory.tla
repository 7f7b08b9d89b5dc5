-------------------------- MODULE MCCacheableMemory --------------------------
(***************************************************************************)
(* Instances of CacheableMemory for TLC.                                    *)
(***************************************************************************)
EXTENDS CacheableMemory

CONSTANTS a, k1

\* With two stores, algorithm a puts k1 into a store of its own; any other
\* puts all keys into the first.
Hashes(algorithm, n, k) == IF n > 1 /\ algorithm = a /\ k = k1 THEN 1 ELSE 0
=============================================================================
