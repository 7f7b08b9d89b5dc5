------------------------------ MODULE MCNodeCache ------------------------------
(* Instances of NodeCache for TLC. *)
EXTENDS NodeCache, TLC

CONSTANTS k1, k2, omitted, none

TwoKeys == {k1, k2}
SizeOfKey == [k \in CacheKeys |-> IF k = k1 THEN 2 ELSE 3]
SizeOfValue == [v \in 1 .. MaxSets |-> v]

SomeTtls == {omitted, -5, 0}

OptionsWith(deletes, limits) ==
    [stdTTL : {1}, deleteOnExpire : deletes, maxKeys : limits]

\* Listeners that call the cache; a subscriber that comes and goes; and
\* intervals that are stopped and started.
Nested == [depth |-> 1, time |-> 4, timers |-> 1, times |-> 0, lists |-> TRUE,
            ttls |-> {omitted, -5}]
Watched == [depth |-> 0, time |-> 2, timers |-> 1, times |-> 1, lists |-> FALSE,
            ttls |-> {0}]
Timed == [depth |-> 0, time |-> 4, timers |-> 2, times |-> 0, lists |-> FALSE,
            ttls |-> {omitted, 0}]

With(b, o) == [f \in DOMAIN b \cup {"options"} |-> IF f = "options" THEN o ELSE b[f]]

AllBounds ==
    {With(Nested, OptionsWith({TRUE}, {-1, 1})), With(Nested, OptionsWith({FALSE}, {-1})),
     With(Watched, OptionsWith({TRUE}, {-1})), With(Timed, OptionsWith(BOOLEAN, {1}))}

=============================================================================
