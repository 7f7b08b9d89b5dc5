---------------------------- MODULE MCCacheableSync ----------------------------
(* Instances of CacheableSync for TLC. *)
EXTENDS CacheableSync, TLC

CONSTANTS i1, i2, i3, a, b, c1, c2, none

Together == [i \in Instances |-> a]
Apart == [i \in Instances |-> IF i = i3 THEN b ELSE a]

\* Two calls at once, of one instance or of two.
One == [c \in Callers |-> i1]
Two == [c \in Callers |-> IF c = c1 THEN i1 ELSE i2]

With(start, at, writes, changes, losses) ==
    [start |-> start, at |-> at, writes |-> writes, changes |-> changes, losses |-> losses]

\* Writes that overlap; settings that change; and losses.
AllBounds ==
    {With(Together, One, 3, 0, 0), With(Together, Two, 3, 0, 0),
     With(Apart, Two, 2, 1, 0), With(Apart, One, 1, 2, 0),
     With(Together, Two, 2, 0, 1), With(Apart, Two, 1, 1, 1)}

=============================================================================
