------------------------------ MODULE LruCache ------------------------------
(***************************************************************************)
(* What CacheableMemory promises about the keys it keeps: with a limit it   *)
(* keeps at most that many, and the one it gives up for a new one is the    *)
(* one not read or written for longest.  The promise lapses (`lapsed`) when *)
(* the settings are changed in the ways named in CacheableMemory, and       *)
(* holds again from the next clear.                                         *)
(***************************************************************************)
EXTENDS Naturals, FiniteSets

CONSTANTS
    Keys,
    Limits      \* 0 is no limit

VARIABLES
    kept,       \* the keys in the cache
    recent,     \* pairs of them, the first used after the second; none without limit
    limit,
    trimming,   \* the limit was lowered, and keys go
    lapsed

vars == <<kept, recent, limit, trimming, lapsed>>

Init ==
    /\ kept = {}
    /\ recent = {}
    /\ limit \in Limits
    /\ trimming = FALSE
    /\ lapsed = FALSE

Without(gone) == {p \in recent : p[1] \notin gone /\ p[2] \notin gone}

\* The uses with k the last of them, and without those of the keys in `gone`.
UsedLast(k, gone) ==
    IF limit = 0 THEN {}
    ELSE Without(gone \cup {k}) \cup ({k} \X (kept \ (gone \cup {k})))

Oldest(k) == k \in kept /\ \A j \in kept \ {k} : <<j, k>> \in recent

Use(k) ==
    /\ k \in kept
    /\ recent' = UsedLast(k, {})
    /\ UNCHANGED <<kept, limit, trimming, lapsed>>

Insert(k) ==
    /\ k \notin kept
    /\ limit = 0 \/ Cardinality(kept) < limit
    /\ kept' = kept \cup {k}
    /\ recent' = UsedLast(k, {})
    /\ UNCHANGED <<limit, trimming, lapsed>>

\* The oldest key makes room for another.
Replace(k) ==
    /\ k \notin kept
    /\ limit # 0 /\ Cardinality(kept) = limit
    /\ \E old \in kept :
           /\ Oldest(old)
           /\ kept' = (kept \ {old}) \cup {k}
           /\ recent' = UsedLast(k, {old})
    /\ UNCHANGED <<limit, trimming, lapsed>>

\* Deleted, taken or expired.
Drop(gone) ==
    /\ kept' = kept \ gone
    /\ recent' = Without(gone)
    /\ UNCHANGED <<limit, trimming, lapsed>>

SetLimit(n) ==
    /\ limit' = n
    /\ trimming' = (n # 0)
    /\ limit = 0 /\ n # 0 => kept = {}
    /\ recent' = IF n = 0 THEN {} ELSE recent
    /\ UNCHANGED <<kept, lapsed>>

Trim ==
    /\ trimming
    /\ IF Cardinality(kept) > limit
       THEN /\ \E old \in kept :
                   /\ Oldest(old)
                   /\ kept' = kept \ {old}
                   /\ recent' = Without({old})
            /\ UNCHANGED trimming
       ELSE /\ trimming' = FALSE
            /\ UNCHANGED <<kept, recent>>
    /\ UNCHANGED <<limit, lapsed>>

Clear ==
    /\ kept' = {}
    /\ recent' = {}
    /\ lapsed' = FALSE
    /\ UNCHANGED <<limit, trimming>>

Next ==
    \/ lapsed'
    \/ Clear
    \/ /\ ~lapsed
       /\ \/ /\ ~trimming
             /\ \/ \E k \in Keys : Use(k) \/ Insert(k) \/ Replace(k)
                \/ \E gone \in SUBSET Keys : Drop(gone)
                \/ \E n \in Limits : SetLimit(n)
          \/ Trim

Spec == Init /\ [][Next]_vars
=============================================================================
