--------------------------- MODULE MCCacheableRequest ---------------------------
(* Instances of CacheableRequest for TLC. *)
EXTENDS CacheableRequest, TLC

CONSTANTS r1, r2, none

Option(cached, force, failover) ==
    [cache |-> cached, forceRefresh |-> force, automaticFailover |-> failover]

\* A plain request meets one of any kind.
OptionsOf ==
    [r \in Requests |->
        IF r = r1 THEN {Option(TRUE, FALSE, FALSE)}
        ELSE {Option(TRUE, FALSE, TRUE), Option(TRUE, TRUE, FALSE), Option(FALSE, FALSE, FALSE),
              Option(TRUE, TRUE, TRUE)}]

\* An empty cache, and an entry of the first version that has just expired.
AllStarts == {none, [version |-> 1, whole |-> TRUE, expires |-> 0]}

=============================================================================
