----------------------------- MODULE MCCacheManager -----------------------------
(* Instances of CacheManager for TLC. *)
EXTENDS CacheManager, TLC

CONSTANTS c1, c2, background, none

TwoCallers == {c1, c2}

Symmetry == Permutations(Callers)

=============================================================================
