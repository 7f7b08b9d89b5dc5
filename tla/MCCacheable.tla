---------------------------- MODULE MCCacheable ----------------------------
(***************************************************************************)
(* Instances of Cacheable for TLC.                                         *)
(***************************************************************************)
EXTENDS Cacheable, TLC

Blocking == {FALSE}
Settings == BOOLEAN

Symmetric ==
    Permutations(Values) \cup Permutations(Calls) \cup Permutations(Instances)
=============================================================================
