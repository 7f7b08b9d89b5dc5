-------------------------- MODULE CacheableMemory --------------------------
(***************************************************************************)
(* CacheableMemory: maps from keys to entries, the map for a key found by a *)
(* hash; an optional LRU list over all of them; and the number of entries   *)
(* as its statistics count it.  All operations are synchronous, so each is  *)
(* one step, except the loop of lruResize, of which each turn is.  Every    *)
(* setting can be changed at any time.                                      *)
(***************************************************************************)
EXTENDS Naturals, Sequences, FiniteSets

CONSTANTS
    Keys,
    EmptyKey,       \* the key "", which is falsy
    HashAlgorithms,
    StoreHashSizes,
    Hash(_, _, _),  \* of a key, by an algorithm, for a number of stores
    LruSizes,       \* 0 turns the list off
    MaxCopies,      \* bound on the nodes of the list for one key
    undefined

ASSUME CacheableMemoryAssumption ==
    /\ StoreHashSizes \subseteq Nat \ {0}
    /\ LruSizes \subseteq Nat
    /\ MaxCopies \in Nat \ {0}
    /\ undefined \notin Keys \cup (Keys \X (1..MaxCopies))
    /\ \A a \in HashAlgorithms, n \in StoreHashSizes, k \in Keys :
           Hash(a, n, k) \in 0..(n - 1)

VARIABLES
    store,                  \* an entry's state, by store and key
    lru,
    count,                  \* stats.count
    lruSize,
    storeHashSize,
    storeHashAlgorithm,
    resizing,               \* lruResize is under way
    used,                   \* history: pairs of keys, the first used after the second
    lapsed                  \* history: a setting was changed in a way that
                            \* leaves maps and list out of step

vars == <<store, lru, count, lruSize, storeHashSize, storeHashAlgorithm,
          resizing, used, lapsed>>
settings == <<lruSize, storeHashSize, storeHashAlgorithm>>

L == INSTANCE DoublyLinkedList WITH Values <- Keys

-----------------------------------------------------------------------------
(* Maps                                                                     *)

Shards == UNION {0..(n - 1) : n \in StoreHashSizes}

NoEntries == [s \in Shards |-> [k \in Keys |-> "none"]]

\* The places of all entries.
Entries == {p \in Shards \X Keys : store[p[1]][p[2]] # "none"}

sizeOfCache == Cardinality(Entries)

HashOf(algorithm, n, k) == IF n = 1 THEN 0 ELSE Hash(algorithm, n, k)

getKeyStoreHash(k) == HashOf(storeHashAlgorithm, storeHashSize, k)

Place(k) == <<getKeyStoreHash(k), k>>

Entry(k) == store[getKeyStoreHash(k)][k]

Has(k) == Entry(k) # "none"

Without(places) ==
    [s \in Shards |->
        [k \in Keys |-> IF <<s, k>> \in places THEN "none" ELSE store[s][k]]]

-----------------------------------------------------------------------------
(* Statistics                                                               *)

\* stats.count without the entries in some places.
decreaseCount(n, places) ==
    LET gone == Cardinality(places \cap Entries)
    IN  IF gone > n THEN 0 ELSE n - gone

resetStoreValues == 0

-----------------------------------------------------------------------------
(* List                                                                     *)

lruMoveToFront(list, k) ==
    IF lruSize = 0 THEN list ELSE L!moveToFront(list, k)

\* Mutant: what has expired stays in the list.
lruRemove_Kept(list, k) == list

lruRemove(list, k) ==
    IF lruSize = 0 THEN list ELSE L!remove(list, k)

lruRemoveAll(keys) ==
    LET Left[ks \in SUBSET keys] ==
            IF ks = {} THEN lru
            ELSE LET k == CHOOSE k \in ks : TRUE
                 IN  lruRemove(Left[ks \ {k}], k)
    IN  Left[keys]

\* What a test for truth makes of the oldest key.
CanEvict(list) == L!getOldest(list) \notin {undefined, EmptyKey}

\* removeOldest, then delete, which looks in the list once more.
Evicted(list) == lruRemove(L!removeOldest(list), L!getOldest(list))

-----------------------------------------------------------------------------
(* History                                                                  *)

KeysOf(places) == {p[2] : p \in places}

UsedWithout(keys) == {p \in used : p[1] \notin keys /\ p[2] \notin keys}

\* k is used, and the keys in `gone` leave.
UsedLast(k, gone) ==
    UsedWithout(gone \cup {k}) \cup ({k} \X (KeysOf(Entries) \ (gone \cup {k})))

\* Uses are remembered while there is a list that has to know them.
Remember(pairs) == used' = IF lapsed' \/ lruSize' = 0 THEN {} ELSE pairs

-----------------------------------------------------------------------------
(* Operations.  None begins while lruResize runs.                           *)

\* What a read does with an entry that has expired.
Expired(k) ==
    /\ Entry(k) = "expired"
    /\ store' = Without({Place(k)})
    /\ count' = decreaseCount(count, {Place(k)})
    /\ lru' = lruRemove(lru, k)
    /\ UNCHANGED <<settings, resizing, lapsed>>
    /\ Remember(UsedWithout({k}))

\* get, getRaw, has, getMany and the like; a miss changes nothing.
get(k) ==
    /\ ~resizing
    /\ \/ Expired(k)
       \/ /\ Entry(k) = "live"
          /\ lru' = lruMoveToFront(lru, k)
          /\ UNCHANGED <<store, count, settings, resizing, lapsed>>
          /\ Remember(UsedLast(k, {}))

\* delete, after the list has become `list`.
Removed(k, list) ==
    /\ store' = Without({Place(k)})
    /\ count' = decreaseCount(count, {Place(k)})
    /\ lru' = lruRemove(list, k)
    /\ UNCHANGED <<settings, resizing, lapsed>>
    /\ Remember(UsedWithout({k}))

\* A falsy value counts as a miss and stays: that is get(k).
take(k) ==
    /\ ~resizing
    /\ Entry(k) = "live"
    /\ Removed(k, lruMoveToFront(lru, k))

delete(k) == ~resizing /\ Removed(k, lru)

Overwrite(k) ==
    /\ Has(k)
    /\ store' = [store EXCEPT ![getKeyStoreHash(k)][k] = "live"]
    /\ lru' = lruMoveToFront(lru, k)
    /\ UNCHANGED <<count, settings, resizing, lapsed>>
    /\ Remember(UsedLast(k, {}))

\* Adds k, the list having become `list`, in place of what was `gone`.
Added(k, list, gone) ==
    /\ store' = [Without(gone) EXCEPT ![getKeyStoreHash(k)][k] = "live"]
    /\ lru' = list
    /\ count' = decreaseCount(count, gone) + 1
    /\ UNCHANGED <<settings, resizing>>
    /\ Remember(UsedLast(k, KeysOf(gone)))

AddUnlisted(k) ==
    /\ ~Has(k) /\ lruSize = 0
    /\ UNCHANGED lapsed
    /\ Added(k, lru, {})

\* The guard on room is a bound of the model.
AddListed(k) ==
    /\ ~Has(k) /\ lruSize > 0
    /\ L!HasRoom(lru, k)
    /\ LET list == L!addToFront(lru, k)
       IN  \/ /\ L!size(list) <= lruSize
              /\ UNCHANGED lapsed
              /\ Added(k, list, {})
           \/ /\ L!size(list) > lruSize /\ CanEvict(list)
              /\ UNCHANGED lapsed
              /\ Added(k, Evicted(list), {Place(L!getOldest(list))})
           \/ /\ L!size(list) > lruSize /\ ~CanEvict(list)
              /\ lapsed' = TRUE
              /\ Added(k, list, {})

set(k) == ~resizing /\ (Overwrite(k) \/ AddUnlisted(k) \/ AddListed(k))

clear ==
    /\ ~resizing
    /\ store' = NoEntries
    /\ lru' = L!EmptyList
    /\ count' = resetStoreValues
    /\ lapsed' = FALSE
    /\ used' = {}
    /\ UNCHANGED <<settings, resizing>>

\* The getters keys and items, and the interval check.
checkExpiration ==
    LET old == {p \in Entries : store[p[1]][p[2]] = "expired"}
    IN  /\ ~resizing
        /\ old # {}
        /\ store' = Without(old)
        /\ count' = decreaseCount(count, old)
        /\ lru' = lruRemoveAll(KeysOf(old))
        /\ UNCHANGED <<settings, resizing, lapsed>>
        /\ Remember(UsedWithout(KeysOf(old)))

-----------------------------------------------------------------------------
(* Settings                                                                 *)

\* Without a list nothing is known of the order of the entries there are.
SetLruSize(n) ==
    /\ ~resizing
    /\ lruSize' = n
    /\ lru' = IF n = 0 THEN L!EmptyList ELSE lru
    /\ resizing' = (n # 0)
    /\ lapsed' = (lapsed \/ (lruSize = 0 /\ n # 0 /\ Entries # {}))
    /\ UNCHANGED <<store, count, storeHashSize, storeHashAlgorithm>>
    /\ Remember(used)

\* One turn of the loop: it never ends if the oldest key cannot go.
lruResize ==
    /\ resizing
    /\ UNCHANGED <<settings, lapsed>>
    /\ \/ /\ L!size(lru) <= lruSize
          /\ resizing' = FALSE
          /\ UNCHANGED <<store, count, lru, used>>
       \/ /\ L!size(lru) > lruSize /\ CanEvict(lru)
          /\ store' = Without({Place(L!getOldest(lru))})
          /\ count' = decreaseCount(count, {Place(L!getOldest(lru))})
          /\ lru' = Evicted(lru)
          /\ UNCHANGED resizing
          /\ Remember(UsedWithout({L!getOldest(lru)}))
       \/ /\ L!size(lru) > lruSize /\ ~CanEvict(lru)
          /\ UNCHANGED <<store, count, lru, resizing, used>>

\* The maps are new, the list is not.
SetStoreHashSize(n) ==
    /\ ~resizing
    /\ n # storeHashSize
    /\ storeHashSize' = n
    /\ store' = NoEntries
    /\ count' = resetStoreValues
    /\ lapsed' = (lapsed \/ L!Held(lru) # {})
    /\ UNCHANGED <<lru, lruSize, storeHashAlgorithm, resizing>>
    /\ Remember({})

\* The entries stay where they are, perhaps not where they are looked for.
SetStoreHashAlgorithm(a) ==
    /\ ~resizing
    /\ storeHashAlgorithm' = a
    /\ lapsed' = (lapsed \/ \E p \in Entries :
                                HashOf(a, storeHashSize, p[2]) # p[1])
    /\ UNCHANGED <<store, lru, count, lruSize, storeHashSize, resizing>>
    /\ Remember(used)

\* The time of an entry comes.
Expire(p) ==
    /\ store[p[1]][p[2]] = "live"
    /\ store' = [store EXCEPT ![p[1]][p[2]] = "expired"]
    /\ UNCHANGED <<lru, count, settings, resizing, used, lapsed>>

Init ==
    /\ store = NoEntries
    /\ lru = L!EmptyList
    /\ count = 0
    /\ lruSize \in LruSizes
    /\ storeHashSize \in StoreHashSizes
    /\ storeHashAlgorithm \in HashAlgorithms
    /\ resizing = FALSE
    /\ used = {}
    /\ lapsed = FALSE

Next ==
    \/ \E k \in Keys : get(k) \/ take(k) \/ delete(k) \/ set(k)
    \/ clear
    \/ checkExpiration
    \/ \E n \in LruSizes : SetLruSize(n)
    \/ lruResize
    \/ \E n \in StoreHashSizes : SetStoreHashSize(n)
    \/ \E a \in HashAlgorithms : SetStoreHashAlgorithm(a)
    \/ \E p \in Shards \X Keys : Expire(p)

Spec == Init /\ [][Next]_vars

FairSpec == Spec /\ WF_vars(lruResize)

-----------------------------------------------------------------------------
(* Properties                                                               *)

\* Types: states of entries, a list over the keys, settings from their sets.
TypeOK ==
    /\ store \in [Shards -> [Keys -> {"none", "live", "expired"}]]
    /\ lru \in L!Lists
    /\ count \in Nat
    /\ lruSize \in LruSizes
    /\ storeHashSize \in StoreHashSizes
    /\ storeHashAlgorithm \in HashAlgorithms
    /\ resizing \in BOOLEAN
    /\ used \subseteq Keys \X Keys
    /\ lapsed \in BOOLEAN

\* Whatever the settings were changed to, and even with values listed twice,
\* the pointers of the list lead both ways through the same nodes, none of
\* them removed, and its map to the newest node of each key.
ListSound == L!Sound(lru)

\* stats.count is the number of entries, by whatever way they came and went:
\* deleted, taken, evicted, expired, overwritten or dropped with their maps.
CountIsSize == count = sizeOfCache

\* Unless a setting was changed under way, every entry is where its key is
\* looked for, the list holds the keys of the entries in the order of their
\* last use, and there are no more than lruSize once lruResize has ended.
ListMatches ==
    ~lapsed =>
        /\ \A p \in Entries : Place(p[2]) = p
        /\ lruSize > 0 =>
               /\ L!Held(lru) = KeysOf(Entries)
               /\ L!Before(lru) = used
               /\ resizing \/ sizeOfCache <= lruSize

\* Map, list and count describe the same entries, whatever was called or set.
Consistent == ListSound /\ CountIsSize /\ ListMatches

\* lruResize ends, unless the key it would have to evict is the empty one.
ResizeEnds == resizing ~> (~resizing \/ L!getOldest(lru) = EmptyKey)

\* The cache evicts the key least recently read or written, and nothing else.
Abstract ==
    INSTANCE LruCache WITH
        Limits <- LruSizes,
        kept <- {k \in Keys : Has(k)},
        recent <- used,
        limit <- lruSize,
        trimming <- resizing

Implements == Abstract!Spec
=============================================================================
