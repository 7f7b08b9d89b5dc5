---------------------------- MODULE MCNodeCacheStore ----------------------------
(* Instances of NodeCacheStore for TLC. *)
EXTENDS NodeCacheStore, TLC

CONSTANTS k1, k2, v1, v2, a1, a2, timer, none

TwoKeys == {k1, k2}
TwoValues == {v1, v2}
OneCaller == {a1}

Symmetry ==
    Permutations(Keys) \cup Permutations(Values) \cup Permutations(Callers)

=============================================================================
