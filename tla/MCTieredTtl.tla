---------------------------- MODULE MCTieredTtl ----------------------------
(***************************************************************************)
(* Instances of TieredTtl for TLC.                                         *)
(***************************************************************************)
EXTENDS TieredTtl

\* Values assigned to ttl and maxTtl: a rejected one, none, and a short one.
MCTtlSettings == {-1, Undef, 1}

Same(t) == [primary |-> t, secondary |-> t]

\* TTLs a caller passes: none, negative, 0 and positive; one for both stores,
\* or another for each store.
MCFew == {Same(Undef), Same(0), Same(2), [primary |-> 1, secondary |-> 4]}
MCTtlOptions ==
    MCFew \cup {Same(-1), Same(1), [primary |-> 3, secondary |-> 1],
                [primary |-> Undef, secondary |-> 2]}

Hook(kind, p, s) == [kind |-> kind, primary |-> p, secondary |-> s]

Untouched == {Hook("untouched", Undef, Undef)}
MCHookChoices ==
    Untouched \cup {Hook("scalar", Undef, Undef), Hook("scalar", 0, Undef),
                     Hook("scalar", 3, Undef), Hook("object", 2, Undef),
                     Hook("object", 0, 1)}
=============================================================================
