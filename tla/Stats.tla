--------------------------------- MODULE Stats ---------------------------------
(***************************************************************************)
(* Stats (@cacheable/utils): the counters of a cache as a record, and the   *)
(* methods as operators that return the record after the call.  The         *)
(* counters of the keys stand in the order of the Map that holds them.      *)
(* Left out: hits, misses and gets, the rates, the times of the last update *)
(* and reset; sizes come in as numbers of bytes.                            *)
(***************************************************************************)
EXTENDS Integers, Sequences, FiniteSets

Unbounded == -1   \* maxTrackedKeys when it is not set

KeyCounters(keys) == [key : keys, sets : Nat, deletes : Nat]

AllStats(keys) ==
    [enabled : BOOLEAN, trackKeys : BOOLEAN, maxTrackedKeys : Nat \cup {Unbounded},
     sets : Nat, deletes : Nat, clears : Nat,
     count : Nat, ksize : Nat, vsize : Nat,
     trackedKeys : Seq(KeyCounters(keys))]

NewStats(enabled, trackKeys, maxTrackedKeys) ==
    [enabled |-> enabled, trackKeys |-> trackKeys, maxTrackedKeys |-> maxTrackedKeys,
     sets |-> 0, deletes |-> 0, clears |-> 0,
     count |-> 0, ksize |-> 0, vsize |-> 0, trackedKeys |-> <<>>]

----------------------------------------------------------------------------
(* Totals *)

\* increment, incrementKSize, incrementVSize
increment(s, field, amount) ==
    IF s.enabled THEN [s EXCEPT ![field] = @ + amount] ELSE s

\* Mutant: no floor.
decrease_Unclamped(s, field, amount) ==
    IF s.enabled THEN [s EXCEPT ![field] = @ - amount] ELSE s

\* decreaseKSize, decreaseVSize, decreaseCount: never below zero
decrease(s, field, amount) ==
    IF s.enabled THEN [s EXCEPT ![field] = IF @ > amount THEN @ - amount ELSE 0]
                 ELSE s

setCount(s, n) == IF s.enabled THEN [s EXCEPT !.count = n] ELSE s

reset(s) == NewStats(s.enabled, s.trackKeys, s.maxTrackedKeys)

----------------------------------------------------------------------------
(* Keys *)

totalOf(c) == c.sets + c.deletes

Tracked(s) == {s.trackedKeys[i].key : i \in DOMAIN s.trackedKeys}

\* Whether a sort by total puts entry i before entry j; it is stable.
SortedBefore(entries, i, j) ==
    \/ totalOf(entries[i]) < totalOf(entries[j])
    \/ totalOf(entries[i]) = totalOf(entries[j]) /\ i < j

\* Mutant: the new key, which has not counted yet, is pruned first.
pruneTrackedKeys_Unprotected(entries, protectedKey, cap) ==
    IF cap = Unbounded \/ Len(entries) <= cap THEN entries
    ELSE SelectSeq(entries, LAMBDA c : totalOf(c) > 0)

\* The entries with other keys, in their order.
EntriesWithout(entries, keys) ==
    LET kept[n \in 0 .. Len(entries)] ==
            IF n = 0 THEN <<>>
            ELSE IF entries[n].key \in keys THEN kept[n - 1]
            ELSE Append(kept[n - 1], entries[n])
    IN  kept[Len(entries)]

\* Above the cap, the entries used least go, until nine tenths of the cap
\* are left; the protected key stays.
pruneTrackedKeys(entries, protectedKey, cap) ==
    LET tenths == (cap * 9) \div 10
        target == IF tenths > 1 THEN tenths ELSE 1
        others == {i \in DOMAIN entries : entries[i].key # protectedKey}
        pruned == {i \in others :
                     Cardinality({j \in others : SortedBefore(entries, j, i)})
                        < Len(entries) - target}
    IN  IF cap = Unbounded \/ Len(entries) <= cap
        THEN entries
        ELSE EntriesWithout(entries, {entries[i].key : i \in pruned})

\* A key that is not tracked yet gets its counters, and room is made for it,
\* before it counts.
recordKey(s, k, field) ==
    LET new == [key |-> k, sets |-> 0, deletes |-> 0]
        entries == IF k \in Tracked(s) THEN s.trackedKeys
                   ELSE pruneTrackedKeys(Append(s.trackedKeys, new), k, s.maxTrackedKeys)
    IN  IF s.enabled /\ s.trackKeys
        THEN [s EXCEPT !.trackedKeys =
                [i \in DOMAIN entries |->
                    IF entries[i].key = k THEN [entries[i] EXCEPT ![field] = @ + 1]
                                          ELSE entries[i]]]
        ELSE s

clearKeys(s) == [s EXCEPT !.trackedKeys = <<>>]

----------------------------------------------------------------------------
(* Events of a NodeCache: [name, key] *)

nodeCacheStatsEventMap(s, event) ==
    CASE event.name = "set" -> recordKey(increment(s, "sets", 1), event.key, "sets")
      [] event.name = "del" -> recordKey(increment(s, "deletes", 1), event.key, "deletes")
      [] event.name = "flush" -> increment(s, "clears", 1)
      [] event.name = "flush_stats" -> reset(s)
      [] OTHER -> s

applyEvent(s, event) == IF s.enabled THEN nodeCacheStatsEventMap(s, event) ELSE s

=============================================================================
