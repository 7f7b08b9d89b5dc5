----------------------------- MODULE MCGetOrSet -----------------------------
(***************************************************************************)
(* Instances of GetOrSet for TLC.                                          *)
(***************************************************************************)
EXTENDS GetOrSet

\* Callers that want no error, and callers that want all and cache them.
Extremes == {[throwErrors |-> "no", cacheErrors |-> FALSE],
             [throwErrors |-> "all", cacheErrors |-> TRUE]}
=============================================================================
