----------------------- MODULE CacheableMemoryProofs -----------------------
(***************************************************************************)
(* Proofs about CacheableMemory, for every number of keys, stores and hash  *)
(* algorithms.  First about its maps: the count kept by the statistics is   *)
(* right, and entries stay where their keys are looked for.  Then about the *)
(* LRU list: its pointers are sound, it holds the keys of the entries in    *)
(* the order of their uses, and the cache implements LruCache.              *)
(* Then about FileEntryCache, which keeps such a cache in a file: what it    *)
(* reports, what it may skip saving, and what looking changes.              *)
(***************************************************************************)
EXTENDS CacheableMemory, FileEntryCache, FiniteSetTheorems, WellFoundedInduction,
        NaturalsInduction, TLAPS

\* The inductive invariant for the count: types of the maps and of the
\* settings that choose one, and a count that fits the entries.
StoreInv ==
    /\ store \in [Shards -> [Keys -> {"none", "live", "expired"}]]
    /\ storeHashSize \in StoreHashSizes
    /\ storeHashAlgorithm \in HashAlgorithms
    /\ IsFiniteSet(Entries)
    /\ count = Cardinality(Entries)

\* Entries are where their keys are looked for, as long as nothing lapsed.
HomeInv == ~lapsed => \A p \in Entries : Place(p[2]) = p

-----------------------------------------------------------------------------

\* Hashes lead to one of the stores.
LEMMA PlaceType ==
    ASSUME StoreInv, NEW k \in Keys
    PROVE  /\ getKeyStoreHash(k) \in Shards
           /\ Place(k) \in Shards \X Keys
           /\ Place(k)[1] = getKeyStoreHash(k) /\ Place(k)[2] = k
<1>1. storeHashSize \in Nat \ {0} /\ 0..(storeHashSize - 1) \subseteq Shards
    BY CacheableMemoryAssumption DEF StoreInv, Shards
<1>2. Hash(storeHashAlgorithm, storeHashSize, k) \in 0..(storeHashSize - 1)
    BY CacheableMemoryAssumption DEF StoreInv
<1>3. 0 \in 0..(storeHashSize - 1)
    BY <1>1
<1>4. getKeyStoreHash(k) \in Shards
    BY <1>1, <1>2, <1>3 DEF getKeyStoreHash, HashOf
<1>. QED BY <1>4 DEF Place

\* Removing places leaves the entries elsewhere.
LEMMA WithoutEntries ==
    ASSUME StoreInv, NEW places, store' = Without(places)
    PROVE  /\ store' \in [Shards -> [Keys -> {"none", "live", "expired"}]]
           /\ Entries' = Entries \ places
<1>1. store' \in [Shards -> [Keys -> {"none", "live", "expired"}]]
    BY DEF StoreInv, Without
<1>2. ASSUME NEW p \in Shards \X Keys
      PROVE  store'[p[1]][p[2]] # "none"
                 <=> store[p[1]][p[2]] # "none" /\ p \notin places
    <2>1. p = <<p[1], p[2]>> /\ p[1] \in Shards /\ p[2] \in Keys
        OBVIOUS
    <2>. QED BY <2>1 DEF Without
<1>. QED BY <1>1, <1>2 DEF Entries

\* What the statistics subtract is what goes.
LEMMA CountDown ==
    ASSUME StoreInv, NEW places
    PROVE  /\ IsFiniteSet(Entries \ places)
           /\ decreaseCount(count, places) = Cardinality(Entries \ places)
<1>1. IsFiniteSet(Entries) /\ count = Cardinality(Entries)
    BY DEF StoreInv
<1>2. /\ IsFiniteSet(Entries \ places)
      /\ Cardinality(Entries \ places)
            = Cardinality(Entries) - Cardinality(Entries \cap places)
    BY <1>1, FS_Difference
<1>3. Entries \cap places = places \cap Entries
    OBVIOUS
<1>4. /\ Cardinality(Entries) \in Nat
      /\ Cardinality(Entries \ places) \in Nat
      /\ Cardinality(places \cap Entries) \in Nat
    <2>1. IsFiniteSet(places \cap Entries)
        BY <1>1, FS_Subset, places \cap Entries \in SUBSET Entries
    <2>. QED BY <1>1, <1>2, <2>1, FS_CardinalityType
<1>. QED BY <1>1, <1>2, <1>3, <1>4 DEF decreaseCount

\* The hash settings that the maps depend on.
HashSettings == <<storeHashSize, storeHashAlgorithm>>

\* A step that removes entries and subtracts them from the count.
LEMMA DropStep ==
    ASSUME StoreInv, NEW places, UNCHANGED HashSettings,
           store' = Without(places), count' = decreaseCount(count, places)
    PROVE  StoreInv' /\ Entries' \subseteq Entries
<1>1. /\ store' \in [Shards -> [Keys -> {"none", "live", "expired"}]]
      /\ Entries' = Entries \ places
    BY WithoutEntries
<1>2. /\ IsFiniteSet(Entries \ places)
      /\ count' = Cardinality(Entries \ places)
    BY CountDown
<1>3. IsFiniteSet(Entries') /\ count' = Cardinality(Entries')
    BY <1>1, <1>2
<1>. QED BY <1>1, <1>3 DEF StoreInv, HashSettings

\* A step that only changes the state of an entry.
LEMMA AlterStep ==
    ASSUME StoreInv, UNCHANGED count,
           storeHashSize' \in StoreHashSizes,
           storeHashAlgorithm' \in HashAlgorithms,
           NEW s \in Shards, NEW k \in Keys, NEW e \in {"live", "expired"},
           store[s][k] # "none",
           store' = [store EXCEPT ![s][k] = e] \/ store' = store
    PROVE  StoreInv' /\ Entries' = Entries
<1>1. store' \in [Shards -> [Keys -> {"none", "live", "expired"}]]
    BY DEF StoreInv
<1>2. ASSUME NEW p \in Shards \X Keys
      PROVE  store'[p[1]][p[2]] # "none" <=> store[p[1]][p[2]] # "none"
    BY DEF StoreInv
<1>3. Entries' = Entries
    BY <1>2 DEF Entries
<1>. QED BY <1>1, <1>3 DEF StoreInv

\* A step that leaves the maps and the count alone.
LEMMA QuietStep ==
    ASSUME StoreInv, UNCHANGED <<store, count>>,
           storeHashSize' \in StoreHashSizes,
           storeHashAlgorithm' \in HashAlgorithms
    PROVE  StoreInv' /\ Entries' = Entries
<1>1. Entries' = Entries
    BY DEF Entries
<1>. QED BY <1>1 DEF StoreInv

\* A step that empties the maps.
LEMMA ResetStep ==
    ASSUME storeHashSize' \in StoreHashSizes,
           storeHashAlgorithm' \in HashAlgorithms,
           store' = NoEntries, count' = resetStoreValues
    PROVE  StoreInv' /\ Entries' = {}
<1>1. Entries' = {}
    BY DEF NoEntries, Entries
<1>2. store' \in [Shards -> [Keys -> {"none", "live", "expired"}]]
    BY DEF NoEntries
<1>3. IsFiniteSet(Entries') /\ count' = Cardinality(Entries')
    BY <1>1, FS_EmptySet DEF resetStoreValues
<1>. QED BY <1>1, <1>2, <1>3 DEF StoreInv

\* A step that adds an entry, another perhaps making room.
LEMMA AddStep ==
    ASSUME StoreInv, NEW k \in Keys, NEW list, NEW gone,
           ~Has(k), Added(k, list, gone)
    PROVE  /\ StoreInv' /\ UNCHANGED HashSettings
           /\ Entries' = (Entries \ gone) \cup {Place(k)}
<1>. DEFINE h == getKeyStoreHash(k)
            kept == Without(gone)
<1>1. h \in Shards /\ Place(k) = <<h, k>> /\ Place(k) \in Shards \X Keys
    BY PlaceType DEF Place
<1>2. Place(k) \notin Entries
    BY <1>1 DEF Has, Entry, Entries
<1>3. store' = [kept EXCEPT ![h][k] = "live"]
    BY DEF Added
<1>4. kept \in [Shards -> [Keys -> {"none", "live", "expired"}]]
    BY DEF StoreInv, Without
<1>5. ASSUME NEW p \in Shards \X Keys
      PROVE  kept[p[1]][p[2]] # "none"
                 <=> store[p[1]][p[2]] # "none" /\ p \notin gone
    <2>1. p = <<p[1], p[2]>> /\ p[1] \in Shards /\ p[2] \in Keys
        OBVIOUS
    <2>. QED BY <2>1 DEF Without
<1>. HIDE DEF kept, h
<1>6. store' \in [Shards -> [Keys -> {"none", "live", "expired"}]]
    BY <1>1, <1>3, <1>4
<1>7. ASSUME NEW p \in Shards \X Keys
      PROVE  store'[p[1]][p[2]] # "none"
                 <=> kept[p[1]][p[2]] # "none" \/ p = <<h, k>>
    <2>1. p = <<p[1], p[2]>> /\ p[1] \in Shards /\ p[2] \in Keys
        OBVIOUS
    <2>2. CASE p[1] = h /\ p[2] = k
        BY <1>1, <1>3, <1>4, <2>1, <2>2
    <2>3. CASE ~(p[1] = h /\ p[2] = k)
        <3>1. store'[p[1]][p[2]] = kept[p[1]][p[2]]
            BY <1>1, <1>3, <1>4, <2>1, <2>3
        <3>. QED BY <2>1, <2>3, <3>1
    <2>. QED BY <2>2, <2>3
<1>8. Entries' = (Entries \ gone) \cup {Place(k)}
    BY <1>1, <1>5, <1>7 DEF Entries
<1>9. /\ IsFiniteSet(Entries \ gone)
      /\ decreaseCount(count, gone) = Cardinality(Entries \ gone)
    BY CountDown
<1>10. /\ IsFiniteSet((Entries \ gone) \cup {Place(k)})
       /\ Cardinality((Entries \ gone) \cup {Place(k)})
            = Cardinality(Entries \ gone) + 1
    BY <1>2, <1>9, FS_AddElement
<1>11. count' = decreaseCount(count, gone) + 1
    BY DEF Added
<1>12. UNCHANGED HashSettings
    BY DEF Added, settings, HashSettings
<1>13. IsFiniteSet(Entries') /\ count' = Cardinality(Entries')
    BY <1>8, <1>9, <1>10, <1>11
<1>. QED BY <1>6, <1>8, <1>12, <1>13 DEF StoreInv, HashSettings

-----------------------------------------------------------------------------

\* HomeInv survives when entries only go, or come where they belong.
LEMMA HomeKept ==
    ASSUME HomeInv, UNCHANGED HashSettings, lapsed => lapsed',
           \A p \in Entries' : p \in Entries \/ Place(p[2]) = p
    PROVE  HomeInv'
<1>1. \A k : Place(k)' = Place(k)
    BY DEF Place, getKeyStoreHash, HashOf, HashSettings
<1>. QED BY <1>1 DEF HomeInv

\* HomeInv holds of no entries.
LEMMA HomeEmpty == ASSUME Entries' = {} PROVE HomeInv'
BY DEF HomeInv

Inv == StoreInv /\ HomeInv

\* The invariant survives every removal.
LEMMA InvDrop ==
    ASSUME Inv, NEW places, UNCHANGED HashSettings, UNCHANGED lapsed,
           store' = Without(places), count' = decreaseCount(count, places)
    PROVE  Inv'
<1>1. StoreInv' /\ Entries' \subseteq Entries
    BY DropStep DEF Inv
<1>2. HomeInv'
    BY <1>1, HomeKept DEF Inv
<1>. QED BY <1>1, <1>2 DEF Inv

\* It survives what leaves the maps alone.
LEMMA InvQuiet ==
    ASSUME Inv, UNCHANGED HashSettings, lapsed => lapsed',
           UNCHANGED <<store, count>>
    PROVE  Inv'
<1>1. StoreInv' /\ Entries' \subseteq Entries
    BY QuietStep DEF Inv, StoreInv, HashSettings
<1>2. HomeInv'
    BY <1>1, HomeKept DEF Inv
<1>. QED BY <1>1, <1>2 DEF Inv

\* It survives a change of one entry's state.
LEMMA InvAlter ==
    ASSUME Inv, UNCHANGED HashSettings, UNCHANGED <<lapsed, count>>,
           NEW s \in Shards, NEW k \in Keys, NEW e \in {"live", "expired"},
           store[s][k] # "none", store' = [store EXCEPT ![s][k] = e]
    PROVE  Inv'
<1>1. StoreInv' /\ Entries' \subseteq Entries
    BY AlterStep DEF Inv, StoreInv, HashSettings
<1>2. HomeInv'
    BY <1>1, HomeKept DEF Inv
<1>. QED BY <1>1, <1>2 DEF Inv

\* It survives an addition, which goes where its key is looked for.
LEMMA InvAdd ==
    ASSUME Inv, NEW k \in Keys, NEW list, NEW gone, lapsed => lapsed',
           ~Has(k), Added(k, list, gone)
    PROVE  Inv'
<1>1. /\ StoreInv' /\ UNCHANGED HashSettings
      /\ Entries' = (Entries \ gone) \cup {Place(k)}
    BY AddStep DEF Inv
<1>2. Place(Place(k)[2]) = Place(k)
    BY PlaceType DEF Inv
<1>3. HomeInv'
    <2>1. \A p \in Entries' : p \in Entries \/ Place(p[2]) = p
        BY <1>1, <1>2
    <2>. QED BY <1>1, <2>1, HomeKept DEF Inv
<1>. QED BY <1>1, <1>3 DEF Inv

\* It holds once the maps are empty.
LEMMA InvReset ==
    ASSUME storeHashSize' \in StoreHashSizes,
           storeHashAlgorithm' \in HashAlgorithms,
           store' = NoEntries, count' = resetStoreValues
    PROVE  Inv'
BY ResetStep, HomeEmpty DEF Inv

\* No entries, and none to be looked for elsewhere.
LEMMA InvInit == Init => Inv
<1>. SUFFICES ASSUME Init PROVE Inv
    OBVIOUS
<1>1. Entries = {}
    BY DEF Init, NoEntries, Entries
<1>2. store \in [Shards -> [Keys -> {"none", "live", "expired"}]]
    BY DEF Init, NoEntries
<1>3. IsFiniteSet(Entries) /\ count = Cardinality(Entries)
    BY <1>1, FS_EmptySet DEF Init
<1>. QED BY <1>1, <1>2, <1>3 DEF Init, Inv, StoreInv, HomeInv

\* Every step keeps the invariant.
LEMMA InvStep == Inv /\ [Next]_vars => Inv'
<1>. SUFFICES ASSUME Inv, [Next]_vars PROVE Inv'
    OBVIOUS
<1>1. ASSUME NEW k \in Keys, get(k) PROVE Inv'
    <2>1. CASE Expired(k)
        BY <2>1, InvDrop DEF Expired, settings, HashSettings
    <2>2. CASE UNCHANGED <<store, count, settings, resizing, lapsed>>
        BY <2>2, InvQuiet DEF settings, HashSettings
    <2>. QED BY <1>1, <2>1, <2>2 DEF get
<1>2. ASSUME NEW k \in Keys, take(k) \/ delete(k) PROVE Inv'
    BY <1>2, InvDrop DEF take, delete, Removed, settings, HashSettings
<1>3. ASSUME NEW k \in Keys, set(k) PROVE Inv'
    <2>1. CASE Overwrite(k)
        <3>1. getKeyStoreHash(k) \in Shards
            BY PlaceType DEF Inv
        <3>. QED BY <2>1, <3>1, InvAlter
                 DEF Overwrite, Has, Entry, settings, HashSettings
    <2>2. CASE AddUnlisted(k)
        BY <2>2, InvAdd DEF AddUnlisted
    <2>3. CASE AddListed(k)
        <3>1. /\ ~Has(k) /\ (lapsed => lapsed')
              /\ \E list, gone : Added(k, list, gone)
            BY <2>3 DEF AddListed
        <3>. QED BY <3>1, InvAdd
    <2>. QED BY <1>3, <2>1, <2>2, <2>3 DEF set
<1>4. CASE clear
    BY <1>4, InvReset DEF clear, settings, Inv, StoreInv
<1>5. CASE checkExpiration
    BY <1>5, InvDrop DEF checkExpiration, settings, HashSettings
<1>6. ASSUME NEW n \in LruSizes, SetLruSize(n) PROVE Inv'
    BY <1>6, InvQuiet DEF SetLruSize, HashSettings
<1>7. CASE lruResize
    <2>1. UNCHANGED HashSettings /\ UNCHANGED lapsed
        BY <1>7 DEF lruResize, settings, HashSettings
    <2>2. CASE UNCHANGED <<store, count>>
        BY <2>1, <2>2, InvQuiet
    <2>3. CASE \E places : /\ store' = Without(places)
                           /\ count' = decreaseCount(count, places)
        BY <2>1, <2>3, InvDrop
    <2>. QED BY <1>7, <2>2, <2>3 DEF lruResize
<1>8. ASSUME NEW n \in StoreHashSizes, SetStoreHashSize(n) PROVE Inv'
    BY <1>8, InvReset DEF SetStoreHashSize, Inv, StoreInv
<1>9. ASSUME NEW a \in HashAlgorithms, SetStoreHashAlgorithm(a) PROVE Inv'
    <2>1. StoreInv' /\ Entries' = Entries
        BY <1>9, QuietStep DEF SetStoreHashAlgorithm, Inv, StoreInv
    <2>2. /\ lapsed' = (lapsed \/ \E p \in Entries :
                                  HashOf(a, storeHashSize, p[2]) # p[1])
          /\ storeHashSize' = storeHashSize /\ storeHashAlgorithm' = a
        BY <1>9 DEF SetStoreHashAlgorithm
    <2>3. ASSUME ~lapsed', NEW p \in Entries PROVE Place(p[2])' = p
        <3>1. HashOf(a, storeHashSize, p[2]) = p[1]
            BY <2>2, <2>3
        <3>2. p = <<p[1], p[2]>>
            BY DEF Entries
        <3>. QED BY <2>2, <3>1, <3>2 DEF Place, getKeyStoreHash, HashOf
    <2>. QED BY <2>1, <2>3 DEF Inv, HomeInv
<1>10. ASSUME NEW p \in Shards \X Keys, Expire(p) PROVE Inv'
    <2>1. p[1] \in Shards /\ p[2] \in Keys
        OBVIOUS
    <2>. QED BY <1>10, <2>1, InvAlter DEF Expire, settings, HashSettings
<1>11. CASE UNCHANGED vars
    BY <1>11, InvQuiet DEF vars, settings, HashSettings
<1>. QED
    BY <1>1, <1>2, <1>3, <1>4, <1>5, <1>6, <1>7, <1>8, <1>9, <1>10, <1>11
       DEF Next

-----------------------------------------------------------------------------

\* stats.count is the number of entries, whatever settings change and however
\* entries come and go.
THEOREM CountRight == Spec => []CountIsSize
<1>1. Inv => CountIsSize
    BY DEF Inv, StoreInv, CountIsSize, sizeOfCache
<1>. QED BY InvInit, InvStep, <1>1, PTL DEF Spec

\* No entry is out of reach of its key, or in two maps at once, unless the
\* hash algorithm was changed under it.
THEOREM EntriesInReach ==
    Spec => [](~lapsed => \A p \in Entries : Place(p[2]) = p)
<1>1. Inv => (~lapsed => \A p \in Entries : Place(p[2]) = p)
    BY DEF Inv, HomeInv
<1>. QED BY InvInit, InvStep, <1>1, PTL DEF Spec

-----------------------------------------------------------------------------
(* The list.  A list is good if there is a chain of nodes that its pointers   *)
(* lead along both ways; every operation makes a good list of a good one.     *)

\* Induction over the natural numbers, for the elements of a set.
LEMMA NatInd ==
    ASSUME NEW N, 0 \in N, \A n \in Nat : n \in N => n + 1 \in N
    PROVE  Nat \subseteq N
<1> DEFINE Others == Nat \ N
<1> SUFFICES ASSUME Others # {} PROVE FALSE
  OBVIOUS
<1>1. PICK m \in Others : \A n \in Others : <<n, m>> \notin OpToRel(<, Nat)
  BY WFMin, NatLessThanWellFounded, Zenon
<1>2. \A n \in Others : ~(n < m)
  BY <1>1, Zenon DEF OpToRel
<1>3. m # 0 /\ m - 1 \in Nat /\ m - 1 < m
  OBVIOUS
<1>4. m - 1 \in N
  BY <1>2, <1>3
<1>5. (m - 1) + 1 \in N
  BY <1>3, <1>4
<1> QED  BY <1>5

\* The nodes of list l are c, front to back.
Chain(l, n, c) ==
    /\ \A i, j \in 1..n : c[i] = c[j] => i = j
    /\ L!InUse(l) = {c[i] : i \in 1..n}
    /\ l.head = IF n = 0 THEN undefined ELSE c[1]
    /\ l.tail = IF n = 0 THEN undefined ELSE c[n]
    /\ \A i \in 1..n : l.next[c[i]] = IF i < n THEN c[i + 1] ELSE undefined
    /\ \A i \in 1..n : l.prev[c[i]] = IF i > 1 THEN c[i - 1] ELSE undefined

\* A value's node in the map is the first node with the value.
Newest(l, n, c) ==
    \A i, j \in 1..n : l.nodesMap[c[j][1]] = c[j] /\ c[i][1] = c[j][1] => j <= i

\* Types, nodes that hold the value they are made for, and a map to nodes in use.
Tidy(l) ==
    /\ l \in L!Lists
    /\ \A x \in L!Nodes : l.value[x] \in {undefined, x[1]}
    /\ \A x \in L!Nodes : l.value[x] = undefined => l.prev[x] = undefined
    /\ \A v \in Keys : l.nodesMap[v] # undefined =>
           l.nodesMap[v] \in L!InUse(l) /\ l.nodesMap[v][1] = v

\* A list whose pointers lead along a chain of its nodes.
Good(l) ==
    /\ Tidy(l)
    /\ \E n \in Nat : \E c \in [1..n -> L!Nodes] : Chain(l, n, c) /\ Newest(l, n, c)

\* Nodes are made for keys, and none is undefined.
LEMMA NodeType ==
    /\ undefined \notin L!Nodes /\ undefined \notin Keys
    /\ \A x \in L!Nodes : x[1] \in Keys
BY CacheableMemoryAssumption DEF L!Nodes

\* The list counts as everybody does.
LEMMA SameCardinality == \A S : L!Cardinality(S) = Cardinality(S)
BY DEF L!Cardinality, Cardinality

\* A chain has as many nodes as are in use.
LEMMA ChainLength ==
    ASSUME NEW l, NEW n \in Nat, NEW c \in [1..n -> L!Nodes], Chain(l, n, c)
    PROVE  IsFiniteSet(L!InUse(l)) /\ Cardinality(L!InUse(l)) = n
<1>1. IsFiniteSet(1..n) /\ Cardinality(1..n) = n
  BY FS_Interval
<1>2. c \in Bijection(1..n, L!InUse(l))
  BY DEF Chain, Bijection, Injection, Surjection, IsInjective
<1>3. ExistsBijection(1..n, L!InUse(l))
  BY <1>2 DEF ExistsBijection
<1> QED  BY <1>1, <1>3, FS_Bijection

\* Who follows a pointer from node to node has seen the nodes d.
LEMMA WalkIs ==
    ASSUME NEW l, NEW n \in Nat, NEW d \in [1..n -> L!Nodes],
           Cardinality(L!InUse(l)) = n, NEW first, NEW pointer,
           first = IF n = 0 THEN undefined ELSE d[1],
           \A i \in 1..n : pointer[d[i]] = IF i < n THEN d[i + 1] ELSE undefined
    PROVE  L!Walk(l, first, pointer) = d
<1> DEFINE Steps == 1..(n + 1)
           Body(f) == [i \in Steps |->
               IF i = 1 THEN first
               ELSE LET previous == f[i - 1]
                    IN  IF previous = undefined THEN undefined ELSE pointer[previous]]
           w == [i \in Steps |-> IF i <= n THEN d[i] ELSE undefined]
           at == CHOOSE f : f = Body(f)
<1>1. \A i \in 1..n : d[i] # undefined
  BY NodeType
<1>2. w = Body(w)
  <2> SUFFICES ASSUME NEW i \in Steps PROVE w[i] = Body(w)[i]
    BY DEF w
  <2>1. CASE i = 1
    BY <2>1
  <2>2. CASE i # 1
    BY <1>1, <2>2
  <2> QED  BY <2>1, <2>2
<1> HIDE DEF Body
<1>3. at = Body(at)
  BY <1>2
<1> HIDE DEF at
<1> USE DEF Body
<1> DEFINE N == {m \in Nat : m + 1 \in Steps => at[m + 1] = w[m + 1]}
<1>4. 0 \in N
  BY <1>3
<1>5. ASSUME NEW m \in Nat, m \in N PROVE m + 1 \in N
  <2> SUFFICES ASSUME (m + 1) + 1 \in Steps PROVE at[(m + 1) + 1] = w[(m + 1) + 1]
    OBVIOUS
  <2>1. m + 1 \in Steps /\ m + 1 <= n /\ at[m + 1] = d[m + 1]
    BY <1>5
  <2>2. ((m + 1) + 1) - 1 = m + 1 /\ (m + 1) + 1 # 1
    OBVIOUS
  <2>3. at[(m + 1) + 1] = pointer[d[m + 1]]
    BY <1>1, <1>3, <2>1, <2>2
  <2>4. d[m + 1] \in L!Nodes /\ pointer[d[m + 1]] = IF m + 1 < n THEN d[(m + 1) + 1] ELSE undefined
    BY <2>1
  <2>5. w[(m + 1) + 1] = IF m + 1 < n THEN d[(m + 1) + 1] ELSE undefined
    OBVIOUS
  <2> QED  BY <2>3, <2>4, <2>5
<1> HIDE DEF N
<1>6. Nat \subseteq N
  BY <1>4, <1>5, NatInd
<1>7. \A i \in Steps : at[i] = w[i]
  <2> SUFFICES ASSUME NEW i \in Steps PROVE at[i] = w[i]
    OBVIOUS
  <2>1. i - 1 \in Nat /\ (i - 1) + 1 = i
    OBVIOUS
  <2> QED  BY <1>6, <2>1 DEF N
<1>8. {i \in Steps : at[i] # undefined} = 1..n
  BY <1>1, <1>7
<1>9. L!Cardinality({i \in Steps : at[i] # undefined}) = n
  <2>1. Cardinality(1..n) = n
    BY FS_Interval
  <2> QED  BY <1>8, <2>1, SameCardinality
<1>10. L!Walk(l, first, pointer) = [i \in 1..L!Cardinality({i \in Steps : at[i] # undefined}) |-> at[i]]
  <2>1. L!Cardinality(L!InUse(l)) = n
    BY SameCardinality
  <2> QED  BY <2>1 DEF L!Walk, at
<1>11. [i \in 1..n |-> at[i]] = d
  BY <1>7
<1> QED  BY <1>9, <1>10, <1>11

\* A chain is a sequence.
LEMMA ChainLen ==
    ASSUME NEW n \in Nat, NEW S, NEW c \in [1..n -> S]
    PROVE  c \in Seq(S) /\ Len(c) = n /\ DOMAIN c = 1..n
OBVIOUS

\* The values of the nodes c.
ValuesOf(n, c) == [i \in 1..n |-> c[i][1]]

\* Both walks through a list see its chain, one of them backwards.
LEMMA ChainWalks ==
    ASSUME NEW l, Tidy(l), NEW n \in Nat, NEW c \in [1..n -> L!Nodes], Chain(l, n, c)
    PROVE  /\ L!Walk(l, l.head, l.next) = c
           /\ L!Walk(l, l.tail, l.prev) = L!Reverse(c)
           /\ L!Order(l) = ValuesOf(n, c)
<1>1. Cardinality(L!InUse(l)) = n
  BY ChainLength
<1>2. L!Walk(l, l.head, l.next) = c
  <2>1. /\ l.head = IF n = 0 THEN undefined ELSE c[1]
        /\ \A i \in 1..n : l.next[c[i]] = IF i < n THEN c[i + 1] ELSE undefined
    BY DEF Chain
  <2> QED  BY <1>1, <2>1, WalkIs
<1>3. L!Walk(l, l.tail, l.prev) = L!Reverse(c)
  <2> DEFINE d == [i \in 1..n |-> c[(n - i) + 1]]
  <2>1. d \in [1..n -> L!Nodes]
    OBVIOUS
  <2>2. l.tail = IF n = 0 THEN undefined ELSE d[1]
    BY DEF Chain
  <2>3. ASSUME NEW i \in 1..n
        PROVE  l.prev[d[i]] = IF i < n THEN d[i + 1] ELSE undefined
    <3>1. (n - i) + 1 \in 1..n /\ d[i] = c[(n - i) + 1]
      OBVIOUS
    <3>2. l.prev[d[i]] = IF (n - i) + 1 > 1 THEN c[((n - i) + 1) - 1] ELSE undefined
      BY <3>1 DEF Chain
    <3>3. CASE i < n
      <4>1. i + 1 \in 1..n /\ (n - (i + 1)) + 1 = ((n - i) + 1) - 1 /\ (n - i) + 1 > 1
        BY <3>3
      <4>2. d[i + 1] = c[((n - i) + 1) - 1]
        BY <4>1
      <4> QED  BY <3>2, <3>3, <4>1, <4>2
    <3>4. CASE ~(i < n)
      <4>1. ~((n - i) + 1 > 1)
        BY <3>4
      <4> QED  BY <3>2, <3>4, <4>1
    <3> QED  BY <3>3, <3>4
  <2> HIDE DEF d
  <2>a. \A i \in 1..n : l.prev[d[i]] = IF i < n THEN d[i + 1] ELSE undefined
    BY <2>3
  <2> DEFINE first == l.tail
             pointer == l.prev
  <2>b. /\ first = IF n = 0 THEN undefined ELSE d[1]
        /\ \A i \in 1..n : pointer[d[i]] = IF i < n THEN d[i + 1] ELSE undefined
    BY <2>2, <2>a
  <2> HIDE DEF first, pointer
  <2>c. L!Walk(l, first, pointer) = d
    BY <1>1, <2>1, <2>b, WalkIs
  <2>4. L!Walk(l, l.tail, l.prev) = d
    BY <2>c DEF first, pointer
  <2>5. Len(c) = n
    BY ChainLen
  <2> QED  BY <2>4, <2>5 DEF d, L!Reverse
<1>4. \A i \in 1..n : l.value[c[i]] = c[i][1]
  <2>1. ASSUME NEW i \in 1..n PROVE l.value[c[i]] = c[i][1]
    <3>1. c[i] \in L!Nodes /\ c[i] \in L!InUse(l)
      BY DEF Chain
    <3> QED  BY <3>1 DEF L!InUse, Tidy
  <2> QED  BY <2>1
<1>5. L!Order(l) = ValuesOf(n, c)
  <2>1. L!Order(l) = [i \in 1..Len(c) |-> l.value[c[i]]]
    BY <1>2 DEF L!Order
  <2>2. Len(c) = n
    BY ChainLen
  <2> QED  BY <1>4, <2>1, <2>2 DEF ValuesOf
<1> QED  BY <1>2, <1>3, <1>5

\* A good list is sound.
LEMMA GoodSound == ASSUME NEW l, Good(l) PROVE L!Sound(l)
<1>1. PICK n \in Nat : \E c \in [1..n -> L!Nodes] : Chain(l, n, c) /\ Newest(l, n, c)
  BY DEF Good
<1>2. PICK c \in [1..n -> L!Nodes] : Chain(l, n, c) /\ Newest(l, n, c)
  BY <1>1
<1> Tidy(l)
  BY DEF Good
<1>3. /\ L!Walk(l, l.head, l.next) = c
      /\ L!Walk(l, l.tail, l.prev) = L!Reverse(c)
      /\ L!Order(l) = ValuesOf(n, c)
  BY <1>2, ChainWalks
<1>4. Len(c) = n /\ DOMAIN c = 1..n
  BY ChainLen
<1>6. L!IsInjective(c)
  BY <1>2, <1>4 DEF Chain, L!IsInjective
<1>7. L!ToSet(c) = L!InUse(l)
  BY <1>2, <1>4 DEF Chain, L!ToSet
<1>8. ASSUME NEW v \in L!Held(l)
      PROVE  \E i \in DOMAIN c : /\ c[i] = l.nodesMap[v] /\ L!Order(l)[i] = v
                                 /\ \A j \in 1..(i - 1) : L!Order(l)[j] # v
  <2>1. v \in Keys /\ l.nodesMap[v] \in L!InUse(l) /\ l.nodesMap[v][1] = v
    BY DEF L!Held, Good, Tidy
  <2>2. PICK i \in 1..n : c[i] = l.nodesMap[v]
    BY <1>2, <2>1 DEF Chain
  <2>3. ASSUME NEW j \in 1..(i - 1) PROVE L!Order(l)[j] # v
    <3>1. j \in 1..n /\ j < i
      OBVIOUS
    <3>2. c[j][1] # v
      BY <1>2, <2>1, <2>2, <3>1 DEF Newest
    <3> QED  BY <1>3, <3>1, <3>2 DEF ValuesOf
  <2>4. i \in DOMAIN c /\ L!Order(l)[i] = v
    BY <1>3, <1>4, <2>1, <2>2 DEF ValuesOf
  <2> QED  BY <2>2, <2>3, <2>4
<1> QED  BY <1>3, <1>6, <1>7, <1>8 DEF L!Sound

\* Among the nodes c, one with the value v comes before one with the value w.
InOrder(n, c, v, w) == \E i, j \in 1..n : i < j /\ v = c[i][1] /\ w = c[j][1]

\* Order as a relation.
LEMMA BeforeIs ==
    ASSUME NEW l, Tidy(l), NEW n \in Nat, NEW c \in [1..n -> L!Nodes], Chain(l, n, c)
    PROVE  \A x, y : <<x, y>> \in L!Before(l) <=> InOrder(n, c, x, y)
<1>1. L!Order(l) = ValuesOf(n, c)
  BY ChainWalks
<1> DEFINE order == L!Order(l)
           P == DOMAIN order
<1>2. P = 1..n /\ \A i \in 1..n : order[i] = c[i][1]
  BY <1>1 DEF ValuesOf
<1>3. L!Before(l) = {<<order[p[1]], order[p[2]]>> : p \in {p \in P \X P : p[1] < p[2]}}
  BY DEF L!Before
<1> HIDE DEF P, order
<1> SUFFICES ASSUME NEW x, NEW y
             PROVE  <<x, y>> \in L!Before(l) <=> InOrder(n, c, x, y)
  OBVIOUS
<1>4. ASSUME <<x, y>> \in L!Before(l)
      PROVE  \E i, j \in 1..n : i < j /\ x = c[i][1] /\ y = c[j][1]
  <2>1. PICK p \in P \X P : p[1] < p[2] /\ <<x, y>> = <<order[p[1]], order[p[2]]>>
    BY <1>3, <1>4
  <2>2. p[1] \in 1..n /\ p[2] \in 1..n
    BY <1>2, <2>1
  <2> QED  BY <1>2, <2>1, <2>2
<1>5. ASSUME NEW i \in 1..n, NEW j \in 1..n, i < j, x = c[i][1], y = c[j][1]
      PROVE  <<x, y>> \in L!Before(l)
  <2>1. <<i, j>> \in {p \in P \X P : p[1] < p[2]}
    BY <1>2, <1>5
  <2>2. <<x, y>> = <<order[<<i, j>>[1]], order[<<i, j>>[2]]>>
    BY <1>2, <1>5
  <2> QED  BY <1>3, <2>1, <2>2
<1> QED  BY <1>4, <1>5 DEF InOrder

\* Pairs only.
LEMMA BeforePairs == ASSUME NEW l PROVE \A p \in L!Before(l) : p = <<p[1], p[2]>>
BY DEF L!Before

\* m is l with the node x at its front, in use for the value v.
AtFront(l, x, v, m) ==
    /\ m.head = x
    /\ m.tail = IF l.head = undefined THEN x ELSE l.tail
    /\ m.next = [l.next EXCEPT ![x] = l.head]
    /\ m.prev = L!Link(l.prev, l.head, x)
    /\ m.value = [l.value EXCEPT ![x] = v]
    /\ m.nodesMap = [l.nodesMap EXCEPT ![v] = x]

\* m is l without the node x, and without v in the map.
Out(l, x, v, m) ==
    /\ m.head = IF l.prev[x] = undefined THEN l.next[x] ELSE l.head
    /\ m.tail = IF l.next[x] = undefined THEN l.prev[x] ELSE l.tail
    /\ m.next = [L!Link(l.next, l.prev[x], l.next[x]) EXCEPT ![x] = undefined]
    /\ m.prev = [L!Link(l.prev, l.next[x], l.prev[x]) EXCEPT ![x] = undefined]
    /\ m.value = [l.value EXCEPT ![x] = undefined]
    /\ m.nodesMap = [l.nodesMap EXCEPT ![v] = undefined]

\* m is l with the node x moved to the front.
ToFront(l, x, m) ==
    /\ m.head = x
    /\ m.tail = L!Or(IF x = l.tail THEN l.prev[x] ELSE l.tail, x)
    /\ m.next = [L!Link(l.next, l.prev[x], l.next[x]) EXCEPT ![x] = l.head]
    /\ m.prev = L!Link([L!Link(l.prev, l.next[x], l.prev[x]) EXCEPT ![x] = undefined],
                       l.head, x)
    /\ m.value = l.value /\ m.nodesMap = l.nodesMap

\* Types of the fields of a list.
LEMMA ListFields ==
    ASSUME NEW l \in L!Lists
    PROVE  /\ l.head \in L!Nodes \cup {undefined} /\ l.tail \in L!Nodes \cup {undefined}
           /\ l.next \in [L!Nodes -> L!Nodes \cup {undefined}]
           /\ l.prev \in [L!Nodes -> L!Nodes \cup {undefined}]
           /\ l.value \in [L!Nodes -> Keys \cup {undefined}]
           /\ l.nodesMap \in [Keys -> L!Nodes \cup {undefined}]
BY DEF L!Lists

\* addToFront puts a node that was not in use in front.
LEMMA AddFields ==
    ASSUME NEW l \in L!Lists, NEW v \in Keys, L!HasRoom(l, v)
    PROVE  \E x \in L!Nodes : /\ x[1] = v /\ x \notin L!InUse(l)
                              /\ AtFront(l, x, v, L!addToFront(l, v))
                              /\ L!addToFront(l, v) \in L!Lists
<1> DEFINE x == CHOOSE y \in {v} \X (1..MaxCopies) : y \notin L!InUse(l)
<1>1. PICK i \in 1..MaxCopies : <<v, i>> \notin L!InUse(l)
  BY DEF L!HasRoom
<1>2. x \in {v} \X (1..MaxCopies) /\ x \notin L!InUse(l)
  BY <1>1
<1>3. x \in L!Nodes /\ x[1] = v
  BY <1>2 DEF L!Nodes
<1> DEFINE h == l.head
           m == [l EXCEPT !.head = x, !.tail = IF l.head = undefined THEN x ELSE @,
                          !.next[x] = l.head, !.prev = L!Link(@, l.head, x),
                          !.value[x] = v, !.nodesMap[v] = x]
<1>4. L!addToFront(l, v) = m
  BY DEF L!addToFront
<1> HIDE DEF x
<1>5. AtFront(l, x, v, m)
  BY <1>3, ListFields DEF AtFront, L!Lists
<1>6. m \in L!Lists
  BY <1>3, ListFields DEF L!Lists, L!Link
<1> QED  BY <1>2, <1>3, <1>4, <1>5, <1>6

\* remove takes the node of the value out.
LEMMA OutFields ==
    ASSUME NEW l \in L!Lists, NEW v \in Keys, l.nodesMap[v] # undefined
    PROVE  /\ Out(l, l.nodesMap[v], v, L!remove(l, v))
           /\ L!remove(l, v) \in L!Lists
<1> DEFINE x == l.nodesMap[v]
           b == l.prev[x]
           a == l.next[x]
           q == [l EXCEPT !.head = IF b = undefined THEN a ELSE @,
                          !.tail = IF a = undefined THEN b ELSE @,
                          !.next = L!Link(@, b, a), !.prev = L!Link(@, a, b),
                          !.nodesMap[v] = undefined]
           m == [q EXCEPT !.next[x] = undefined, !.prev[x] = undefined,
                          !.value[x] = undefined]
<1>1. x \in L!Nodes /\ a \in L!Nodes \cup {undefined} /\ b \in L!Nodes \cup {undefined}
  BY ListFields
<1>2. L!remove(l, v) = m
  BY DEF L!remove, L!Forget
<1> HIDE DEF x, a, b
<1>3. q \in L!Lists
  BY <1>1, ListFields DEF L!Lists, L!Link
<1>4. /\ q.head = IF b = undefined THEN a ELSE l.head
      /\ q.tail = IF a = undefined THEN b ELSE l.tail
      /\ q.next = L!Link(l.next, b, a) /\ q.prev = L!Link(l.prev, a, b)
      /\ q.value = l.value /\ q.nodesMap = [l.nodesMap EXCEPT ![v] = undefined]
  BY ListFields DEF L!Lists
<1> HIDE DEF q
<1>5. m \in L!Lists
  BY <1>1, <1>3, ListFields DEF L!Lists
<1>6. /\ m.head = q.head /\ m.tail = q.tail /\ m.next = [q.next EXCEPT ![x] = undefined]
      /\ m.prev = [q.prev EXCEPT ![x] = undefined]
      /\ m.value = [q.value EXCEPT ![x] = undefined] /\ m.nodesMap = q.nodesMap
  BY <1>3 DEF L!Lists
<1> HIDE DEF m
<1>7. Out(l, x, v, m)
  BY <1>4, <1>6 DEF Out, a, b
<1> QED  BY <1>2, <1>5, <1>7 DEF x

\* moveToFront moves the node of the value to the front.
LEMMA MoveFields ==
    ASSUME NEW l \in L!Lists, NEW v \in Keys, l.nodesMap[v] \notin {undefined, l.head}
    PROVE  /\ ToFront(l, l.nodesMap[v], L!moveToFront(l, v))
           /\ L!moveToFront(l, v) \in L!Lists
<1> DEFINE x == l.nodesMap[v]
           b == l.prev[x]
           a == l.next[x]
           m == [l EXCEPT !.head = x,
                       !.tail = L!Or(IF x = @ THEN b ELSE @, x),
                       !.next = [L!Link(@, b, a) EXCEPT ![x] = l.head],
                       !.prev = L!Link([L!Link(@, a, b)
                                        EXCEPT ![x] = undefined], l.head, x)]
<1>1. x \in L!Nodes /\ a \in L!Nodes \cup {undefined} /\ b \in L!Nodes \cup {undefined}
  BY ListFields
<1>2. L!moveToFront(l, v) = m
  BY DEF L!moveToFront
<1> HIDE DEF x, a, b
<1>3. m \in L!Lists
  BY <1>1, ListFields DEF L!Lists, L!Link, L!Or
<1>4. ToFront(l, x, m)
  BY ListFields DEF L!Lists, ToFront, a, b
<1> QED  BY <1>2, <1>3, <1>4 DEF x

\* The nodes c with x in front.
Cons(x, n, c) == [i \in 1..(n + 1) |-> IF i = 1 THEN x ELSE c[i - 1]]

\* The chain of a list with a node put in front.
LEMMA AddChain ==
    ASSUME NEW l, Tidy(l), NEW n \in Nat, NEW c \in [1..n -> L!Nodes], Chain(l, n, c),
           Newest(l, n, c),
           NEW x \in L!Nodes, x \notin L!InUse(l), NEW m \in L!Lists,
           AtFront(l, x, x[1], m)
    PROVE  /\ Tidy(m)
           /\ n + 1 \in Nat /\ Cons(x, n, c) \in [1..(n + 1) -> L!Nodes]
           /\ Chain(m, n + 1, Cons(x, n, c)) /\ Newest(m, n + 1, Cons(x, n, c))
<1> DEFINE d == Cons(x, n, c)
<1>1. l \in L!Lists /\ x[1] \in Keys /\ undefined \notin L!Nodes /\ undefined \notin Keys
  BY NodeType DEF Tidy
<1>2. d \in [1..(n + 1) -> L!Nodes]
  BY DEF Cons
<1>3. d[1] = x /\ \A i \in 1..n : d[i + 1] = c[i]
  BY DEF Cons
<1>4. \A i \in 1..(n + 1) : i = 1 \/ (i - 1 \in 1..n /\ d[i] = c[i - 1])
  BY DEF Cons
<1> HIDE DEF d
<1>5. L!InUse(m) = L!InUse(l) \cup {x}
  BY <1>1, ListFields DEF AtFront, L!InUse
<1>6. \A i \in 1..n : c[i] \in L!InUse(l) /\ c[i] # x /\ c[i] \in L!Nodes
  BY DEF Chain
<1>7. x \in L!Nodes /\ l.value[x] = undefined /\ l.prev[x] = undefined
  BY DEF L!InUse, Tidy
<1>8. Tidy(m)
  <2>1. \A y \in L!Nodes : m.value[y] \in {undefined, y[1]}
    BY <1>1, ListFields DEF AtFront, Tidy
  <2>2. \A y \in L!Nodes : m.value[y] = undefined => m.prev[y] = undefined
    <3> SUFFICES ASSUME NEW y \in L!Nodes, m.value[y] = undefined PROVE m.prev[y] = undefined
      OBVIOUS
    <3>1. y # x /\ l.value[y] = undefined
      BY <1>1, ListFields DEF AtFront
    <3>2. l.prev[y] = undefined
      BY <3>1 DEF Tidy
    <3>3. y # l.head
      <4>1. CASE n = 0
        BY <1>1, <4>1 DEF Chain
      <4>2. CASE n # 0
        <5>1. l.head = c[1] /\ c[1] \in L!InUse(l)
          BY <4>2 DEF Chain
        <5> QED  BY <3>1, <5>1 DEF L!InUse
      <4> QED  BY <4>1, <4>2
    <3> QED  BY <1>1, <3>2, <3>3, ListFields DEF AtFront, L!Link
  <2>3. \A v \in Keys : m.nodesMap[v] # undefined =>
            m.nodesMap[v] \in L!InUse(m) /\ m.nodesMap[v][1] = v
    BY <1>1, <1>5, ListFields DEF AtFront, Tidy
  <2> QED  BY <2>1, <2>2, <2>3 DEF Tidy
<1>9. \A i, j \in 1..(n + 1) : d[i] = d[j] => i = j
  <2> SUFFICES ASSUME NEW i \in 1..(n + 1), NEW j \in 1..(n + 1), d[i] = d[j] PROVE i = j
    OBVIOUS
  <2>1. CASE i = 1
    BY <1>3, <1>4, <1>6, <2>1
  <2>2. CASE i # 1
    <3>1. i - 1 \in 1..n /\ d[i] = c[i - 1]
      BY <1>4, <2>2
    <3>2. j - 1 \in 1..n /\ d[j] = c[j - 1]
      BY <1>3, <1>4, <1>6, <3>1
    <3>3. i - 1 = j - 1
      BY <3>1, <3>2 DEF Chain
    <3> QED  BY <3>3
  <2> QED  BY <2>1, <2>2
<1>10. L!InUse(m) = {d[i] : i \in 1..(n + 1)}
  <2>1. L!InUse(l) = {c[i] : i \in 1..n}
    BY DEF Chain
  <2>2. ASSUME NEW y \in L!InUse(m) PROVE \E i \in 1..(n + 1) : y = d[i]
    <3>1. CASE y = x
      BY <1>3, <3>1
    <3>2. CASE y # x
      <4>1. PICK i \in 1..n : y = c[i]
        BY <1>5, <2>1, <2>2, <3>2
      <4>2. i + 1 \in 1..(n + 1) /\ d[i + 1] = y
        BY <1>3, <4>1
      <4> QED  BY <4>2
    <3> QED  BY <3>1, <3>2
  <2>3. ASSUME NEW i \in 1..(n + 1) PROVE d[i] \in L!InUse(m)
    BY <1>3, <1>4, <1>5, <1>6
  <2> QED  BY <2>2, <2>3
<1>11. m.head = d[1]
  BY <1>3 DEF AtFront
<1>12. m.tail = d[n + 1]
  <2>1. CASE n = 0
    BY <1>3, <2>1 DEF AtFront, Chain
  <2>2. CASE n # 0
    <3>1. l.head = c[1] /\ c[1] # undefined /\ l.tail = c[n] /\ d[n + 1] = c[n]
      BY <1>1, <1>3, <1>6, <2>2 DEF Chain
    <3> QED  BY <3>1 DEF AtFront
  <2> QED  BY <2>1, <2>2
<1>13. \A i \in 1..(n + 1) : m.next[d[i]] = IF i < n + 1 THEN d[i + 1] ELSE undefined
  <2> SUFFICES ASSUME NEW i \in 1..(n + 1)
               PROVE  m.next[d[i]] = IF i < n + 1 THEN d[i + 1] ELSE undefined
    OBVIOUS
  <2>1. CASE i = 1
    <3>1. m.next[d[i]] = l.head
      BY <1>1, <1>3, <2>1, ListFields DEF AtFront
    <3>2. CASE n = 0
      BY <2>1, <3>1, <3>2 DEF Chain
    <3>3. CASE n # 0
      <4>1. l.head = c[1] /\ d[2] = c[1] /\ i < n + 1
        BY <1>3, <2>1, <3>3 DEF Chain
      <4> QED  BY <2>1, <3>1, <4>1
    <3> QED  BY <3>2, <3>3
  <2>2. CASE i # 1
    <3>1. i - 1 \in 1..n /\ d[i] = c[i - 1]
      BY <1>4, <2>2
    <3>2. m.next[d[i]] = l.next[c[i - 1]]
      BY <1>1, <1>6, <3>1, ListFields DEF AtFront
    <3>3. l.next[c[i - 1]] = IF i - 1 < n THEN c[(i - 1) + 1] ELSE undefined
      BY <3>1 DEF Chain
    <3>4. CASE i - 1 < n
      <4>1. i \in 1..n /\ (i - 1) + 1 = i /\ i < n + 1
        BY <3>4
      <4> QED  BY <1>3, <3>2, <3>3, <3>4, <4>1
    <3>5. CASE ~(i - 1 < n)
      BY <3>2, <3>3, <3>5
    <3> QED  BY <3>4, <3>5
  <2> QED  BY <2>1, <2>2
<1>14. \A i \in 1..(n + 1) : m.prev[d[i]] = IF i > 1 THEN d[i - 1] ELSE undefined
  <2> SUFFICES ASSUME NEW i \in 1..(n + 1)
               PROVE  m.prev[d[i]] = IF i > 1 THEN d[i - 1] ELSE undefined
    OBVIOUS
  <2>1. m.prev = L!Link(l.prev, l.head, x)
    BY DEF AtFront
  <2>2. CASE i = 1
    <3>1. l.head # x
      BY <1>1, <1>6 DEF Chain
    <3>2. m.prev[x] = undefined
      BY <1>1, <1>7, <2>1, <3>1, ListFields DEF L!Link
    <3> QED  BY <1>3, <2>2, <3>2
  <2>3. CASE i = 2
    <3>1. n # 0 /\ d[2] = c[1] /\ l.head = c[1] /\ c[1] \in L!Nodes
      BY <1>3, <1>6, <2>3 DEF Chain
    <3>2. m.prev[c[1]] = x
      BY <1>1, <2>1, <3>1, ListFields DEF L!Link
    <3> QED  BY <1>3, <2>3, <3>1, <3>2
  <2>4. CASE i > 2
    <3>1. i - 1 \in 1..n /\ i - 2 \in 1..n /\ d[i] = c[i - 1] /\ d[i - 1] = c[i - 2]
          /\ (i - 1) - 1 = i - 2 /\ i - 1 > 1 /\ i > 1
      <4>1. i - 1 \in 1..n /\ i - 2 \in 1..n /\ (i - 1) - 1 = i - 2 /\ i - 1 > 1 /\ i > 1
            /\ (i - 1) + 1 = i /\ (i - 2) + 1 = i - 1
        BY <2>4
      <4>2. d[(i - 1) + 1] = c[i - 1] /\ d[(i - 2) + 1] = c[i - 2]
        BY <1>3, <4>1
      <4> QED  BY <4>1, <4>2
    <3>2. l.prev[c[i - 1]] = c[i - 2]
      BY <3>1 DEF Chain
    <3>3. c[i - 1] # l.head
      <4>1. l.head = c[1] /\ i - 1 # 1 /\ 1 \in 1..n
        BY <2>4, <3>1 DEF Chain
      <4> QED  BY <3>1, <4>1 DEF Chain
    <3>4. m.prev[c[i - 1]] = l.prev[c[i - 1]]
      BY <1>1, <1>6, <2>1, <3>1, <3>3, ListFields DEF L!Link
    <3> QED  BY <3>1, <3>2, <3>4
  <2> QED  BY <2>2, <2>3, <2>4
<1>15. Chain(m, n + 1, d)
  <2>1. n + 1 # 0
    OBVIOUS
  <2> QED  BY <1>9, <1>10, <1>11, <1>12, <1>13, <1>14, <2>1 DEF Chain
<1>16. Newest(m, n + 1, d)
  <2> SUFFICES ASSUME NEW i \in 1..(n + 1), NEW j \in 1..(n + 1),
                      m.nodesMap[d[j][1]] = d[j], d[i][1] = d[j][1]
               PROVE  j <= i
    BY DEF Newest
  <2>1. CASE j = 1
    BY <2>1
  <2>2. CASE j # 1
    <3>1. j - 1 \in 1..n /\ d[j] = c[j - 1] /\ d[j] # x
      BY <1>4, <1>6, <2>2
    <3>2. d[j][1] # x[1] /\ l.nodesMap[d[j][1]] = d[j]
      <4>1. d[j][1] \in Keys
        BY <1>2, NodeType
      <4> QED  BY <1>1, <3>1, <4>1, ListFields DEF AtFront
    <3>3. i # 1
      BY <1>3, <3>2
    <3>4. i - 1 \in 1..n /\ d[i] = c[i - 1]
      BY <1>4, <3>3
    <3>5. j - 1 <= i - 1
      BY <3>1, <3>2, <3>4 DEF Newest
    <3> QED  BY <3>5
  <2> QED  BY <2>1, <2>2
<1> QED  BY <1>2, <1>8, <1>15, <1>16 DEF d

\* The nodes c without number p.
Cut(n, c, p) == [i \in 1..(n - 1) |-> IF i < p THEN c[i] ELSE c[i + 1]]

\* The chain of a list without its node number p.
LEMMA OutChain ==
    ASSUME NEW l, Tidy(l), NEW n \in Nat, NEW c \in [1..n -> L!Nodes], Chain(l, n, c),
           Newest(l, n, c), NEW p \in 1..n, NEW m \in L!Lists,
           Out(l, c[p], c[p][1], m)
    PROVE  /\ Tidy(m) /\ L!InUse(m) = L!InUse(l) \ {c[p]}
           /\ n - 1 \in Nat /\ Cut(n, c, p) \in [1..(n - 1) -> L!Nodes]
           /\ Chain(m, n - 1, Cut(n, c, p)) /\ Newest(m, n - 1, Cut(n, c, p))
<1> DEFINE d == Cut(n, c, p)
           x == c[p]
           a == l.next[x]
           b == l.prev[x]
<1>1. l \in L!Lists /\ x \in L!Nodes /\ x[1] \in Keys /\ undefined \notin L!Nodes
      /\ undefined \notin Keys /\ n - 1 \in Nat
  BY NodeType DEF Tidy
<1>2. d \in [1..(n - 1) -> L!Nodes]
  BY DEF Cut
<1>3. \A i \in 1..(n - 1) : \/ i < p /\ i \in 1..n /\ d[i] = c[i]
                            \/ i >= p /\ i + 1 \in 1..n /\ i + 1 > p /\ d[i] = c[i + 1]
  BY DEF Cut
<1>4. \A i \in 1..n : \/ i = p
                      \/ i < p /\ i \in 1..(n - 1) /\ d[i] = c[i]
                      \/ i > p /\ i - 1 \in 1..(n - 1) /\ d[i - 1] = c[i]
  <2> SUFFICES ASSUME NEW i \in 1..n, i # p
               PROVE  \/ i < p /\ i \in 1..(n - 1) /\ d[i] = c[i]
                      \/ i > p /\ i - 1 \in 1..(n - 1) /\ d[i - 1] = c[i]
    OBVIOUS
  <2>1. CASE i < p
    BY <2>1 DEF Cut
  <2>2. CASE i > p
    <3>1. i - 1 \in 1..(n - 1) /\ ~(i - 1 < p) /\ (i - 1) + 1 = i
      BY <2>2
    <3>2. d[i - 1] = c[(i - 1) + 1]
      BY <3>1 DEF Cut
    <3> QED  BY <2>2, <3>1, <3>2
  <2> QED  BY <2>1, <2>2
<1> HIDE DEF d
<1>5. L!InUse(m) = L!InUse(l) \ {x}
  BY <1>1, ListFields DEF Out, L!InUse
<1>6. /\ \A i \in 1..n : c[i] \in L!InUse(l) /\ c[i] \in L!Nodes
      /\ \A i, j \in 1..n : c[i] = c[j] => i = j
  BY DEF Chain
<1>7. /\ a = IF p < n THEN c[p + 1] ELSE undefined
      /\ b = IF p > 1 THEN c[p - 1] ELSE undefined
  BY DEF Chain
<1>8. a # x /\ b # x
  <2>1. p < n => p + 1 \in 1..n /\ c[p + 1] # c[p]
    BY <1>6
  <2>2. p > 1 => p - 1 \in 1..n /\ c[p - 1] # c[p]
    BY <1>6
  <2> QED  BY <1>1, <1>7, <2>1, <2>2
<1> HIDE DEF a, b
<1>9. /\ a \in L!Nodes \cup {undefined} /\ b \in L!Nodes \cup {undefined}
  BY <1>1, ListFields DEF a, b
<1>10. /\ m.head = IF b = undefined THEN a ELSE l.head
       /\ m.tail = IF a = undefined THEN b ELSE l.tail
       /\ m.next = [L!Link(l.next, b, a) EXCEPT ![x] = undefined]
       /\ m.prev = [L!Link(l.prev, a, b) EXCEPT ![x] = undefined]
       /\ m.value = [l.value EXCEPT ![x] = undefined]
       /\ m.nodesMap = [l.nodesMap EXCEPT ![x[1]] = undefined]
  BY DEF Out, a, b
<1> HIDE DEF x
<1>11. \A y \in L!Nodes : y # x =>
          /\ m.next[y] = IF y = b THEN a ELSE l.next[y]
          /\ m.prev[y] = IF y = a THEN b ELSE l.prev[y]
  BY <1>1, <1>9, <1>10, ListFields DEF L!Link
<1>12. m.next[x] = undefined /\ m.prev[x] = undefined
  BY <1>1, <1>9, <1>10, ListFields DEF L!Link
<1>13. Tidy(m)
  <2>1. \A y \in L!Nodes : m.value[y] \in {undefined, y[1]}
    BY <1>1, <1>10, ListFields DEF Tidy
  <2>2. \A y \in L!Nodes : m.value[y] = undefined => m.prev[y] = undefined
    <3> SUFFICES ASSUME NEW y \in L!Nodes, m.value[y] = undefined, y # x
                 PROVE  m.prev[y] = undefined
      BY <1>12
    <3>1. l.value[y] = undefined /\ y \notin L!InUse(l)
      BY <1>1, <1>10, ListFields DEF L!InUse
    <3>2. y # a
      <4>1. p < n => p + 1 \in 1..n
        OBVIOUS
      <4> QED  BY <1>1, <1>6, <1>7, <3>1, <4>1
    <3>3. l.prev[y] = undefined
      BY <3>1 DEF Tidy
    <3> QED  BY <1>11, <3>2, <3>3
  <2>3. ASSUME NEW w \in Keys, m.nodesMap[w] # undefined
        PROVE  m.nodesMap[w] \in L!InUse(m) /\ m.nodesMap[w][1] = w
    <3>1. w # x[1] /\ m.nodesMap[w] = l.nodesMap[w]
      BY <1>1, <1>10, <2>3, ListFields
    <3>2. l.nodesMap[w] \in L!InUse(l) /\ l.nodesMap[w][1] = w
      BY <2>3, <3>1 DEF Tidy
    <3> QED  BY <1>5, <3>1, <3>2
  <2> QED  BY <2>1, <2>2, <2>3 DEF Tidy
<1>14. \A i, j \in 1..(n - 1) : d[i] = d[j] => i = j
  <2> SUFFICES ASSUME NEW i \in 1..(n - 1), NEW j \in 1..(n - 1), d[i] = d[j]
               PROVE  i = j
    OBVIOUS
  <2>1. CASE i < p /\ j < p
    BY <1>3, <1>6, <2>1
  <2>2. CASE i >= p /\ j >= p
    BY <1>3, <1>6, <2>2
  <2>3. CASE i < p /\ j >= p
    BY <1>3, <1>6, <2>3
  <2>4. CASE i >= p /\ j < p
    BY <1>3, <1>6, <2>4
  <2> QED  BY <2>1, <2>2, <2>3, <2>4
<1>15. L!InUse(m) = {d[i] : i \in 1..(n - 1)}
  <2>1. L!InUse(l) = {c[i] : i \in 1..n}
    BY DEF Chain
  <2>2. ASSUME NEW y \in L!InUse(m) PROVE \E i \in 1..(n - 1) : y = d[i]
    <3>1. PICK i \in 1..n : y = c[i]
      BY <1>5, <2>1, <2>2
    <3>2. i # p
      BY <1>5, <2>2, <3>1 DEF x
    <3> QED  BY <1>4, <3>1, <3>2
  <2>3. ASSUME NEW i \in 1..(n - 1) PROVE d[i] \in L!InUse(m)
    <3>1. PICK j \in 1..n : d[i] = c[j] /\ j # p
      BY <1>3
    <3> QED  BY <1>5, <1>6, <3>1 DEF x
  <2> QED  BY <2>2, <2>3
<1>16. m.head = IF n - 1 = 0 THEN undefined ELSE d[1]
  <2>1. CASE n = 1
    <3>1. p = 1 /\ a = undefined /\ b = undefined
      BY <1>7, <2>1
    <3> QED  BY <1>10, <2>1, <3>1
  <2>2. CASE n # 1 /\ p = 1
    <3>1. b = undefined /\ a = c[2] /\ d[1] = c[2]
      <4>1. 1 \in 1..(n - 1) /\ ~(1 < p) /\ p < n /\ p + 1 = 2 /\ 1 + 1 = 2
        BY <2>2
      <4> QED  BY <1>3, <1>7, <2>2, <4>1
    <3> QED  BY <1>10, <2>2, <3>1
  <2>3. CASE n # 1 /\ p # 1
    <3>1. 1 \in 1..(n - 1) /\ 1 < p /\ p - 1 \in 1..n /\ n # 0
      BY <2>3
    <3>2. b # undefined /\ d[1] = c[1] /\ l.head = c[1]
      BY <1>1, <1>3, <1>6, <1>7, <3>1 DEF Chain
    <3> QED  BY <1>10, <2>3, <3>2
  <2> QED  BY <2>1, <2>2, <2>3
<1>17. m.tail = IF n - 1 = 0 THEN undefined ELSE d[n - 1]
  <2>1. CASE n = 1
    <3>1. p = 1 /\ a = undefined /\ b = undefined
      BY <1>7, <2>1
    <3> QED  BY <1>10, <2>1, <3>1
  <2>2. CASE n # 1 /\ p = n
    <3>1. n - 1 \in 1..(n - 1) /\ n - 1 < p /\ ~(p < n) /\ p > 1 /\ p - 1 = n - 1
      BY <2>2
    <3>2. a = undefined /\ b = c[n - 1] /\ d[n - 1] = c[n - 1]
      BY <1>3, <1>7, <3>1
    <3> QED  BY <1>10, <2>2, <3>2
  <2>3. CASE n # 1 /\ p # n
    <3>1. n - 1 \in 1..(n - 1) /\ ~(n - 1 < p) /\ p < n /\ p + 1 \in 1..n /\ n # 0
          /\ (n - 1) + 1 = n
      BY <2>3
    <3>2. a # undefined /\ d[n - 1] = c[n] /\ l.tail = c[n]
      BY <1>1, <1>3, <1>6, <1>7, <3>1 DEF Chain
    <3> QED  BY <1>10, <2>3, <3>2
  <2> QED  BY <2>1, <2>2, <2>3
<1>18. ASSUME NEW i \in 1..n, i # p
       PROVE  /\ m.next[c[i]] = IF i + 1 = p THEN a ELSE IF i < n THEN c[i + 1] ELSE undefined
              /\ m.prev[c[i]] = IF i = p + 1 THEN b ELSE IF i > 1 THEN c[i - 1] ELSE undefined
  <2>1. c[i] \in L!Nodes /\ c[i] # x
    BY <1>6, <1>18 DEF x
  <2>2. c[i] = b <=> i + 1 = p
    <3>1. p > 1 => p - 1 \in 1..n /\ (c[i] = c[p - 1] <=> i = p - 1)
      BY <1>6
    <3> QED  BY <1>1, <1>7, <2>1, <3>1
  <2>3. c[i] = a <=> i = p + 1
    <3>1. p < n => p + 1 \in 1..n /\ (c[i] = c[p + 1] <=> i = p + 1)
      BY <1>6
    <3> QED  BY <1>1, <1>7, <2>1, <3>1
  <2>4. /\ l.next[c[i]] = IF i < n THEN c[i + 1] ELSE undefined
        /\ l.prev[c[i]] = IF i > 1 THEN c[i - 1] ELSE undefined
    BY DEF Chain
  <2> QED  BY <1>11, <2>1, <2>2, <2>3, <2>4
<1>19. \A i \in 1..(n - 1) : m.next[d[i]] = IF i < n - 1 THEN d[i + 1] ELSE undefined
  <2> SUFFICES ASSUME NEW i \in 1..(n - 1)
               PROVE  m.next[d[i]] = IF i < n - 1 THEN d[i + 1] ELSE undefined
    OBVIOUS
  <2>1. CASE i + 1 < p
    <3>1. i \in 1..n /\ i # p /\ i + 1 # p /\ i < n /\ i < n - 1 /\ i + 1 \in 1..(n - 1)
          /\ i < p
      BY <2>1
    <3>2. d[i] = c[i] /\ d[i + 1] = c[i + 1]
      BY <1>3, <2>1, <3>1
    <3>3. m.next[c[i]] = c[i + 1]
      BY <1>18, <3>1
    <3> QED  BY <3>1, <3>2, <3>3
  <2>2. CASE i + 1 = p
    <3>1. i \in 1..n /\ i # p /\ i < p
      BY <2>2
    <3>2. d[i] = c[i] /\ m.next[c[i]] = a
      BY <1>3, <1>18, <2>2, <3>1
    <3>3. CASE p < n
      <4>1. i + 1 \in 1..(n - 1) /\ ~(i + 1 < p) /\ (i + 1) + 1 = p + 1 /\ i < n - 1
        BY <2>2, <3>3
      <4>2. d[i + 1] = c[p + 1]
        BY <1>3, <4>1
      <4> QED  BY <1>7, <3>2, <3>3, <4>1, <4>2
    <3>4. CASE ~(p < n)
      <4>1. ~(i < n - 1)
        BY <2>2, <3>4
      <4> QED  BY <1>7, <3>2, <3>4, <4>1
    <3> QED  BY <3>3, <3>4
  <2>3. CASE i >= p
    <3>1. i + 1 \in 1..n /\ i + 1 # p /\ (i + 1) + 1 # p /\ (i + 1 < n <=> i < n - 1)
      BY <2>3
    <3>2. d[i] = c[i + 1]
      BY <1>3, <2>3
    <3>3. m.next[c[i + 1]] = IF i + 1 < n THEN c[(i + 1) + 1] ELSE undefined
      BY <1>18, <3>1
    <3>4. i < n - 1 => i + 1 \in 1..(n - 1) /\ i + 1 >= p
      BY <2>3
    <3>5. i < n - 1 => d[i + 1] = c[(i + 1) + 1]
      BY <1>3, <3>4
    <3> QED  BY <3>1, <3>2, <3>3, <3>5
  <2> QED  BY <2>1, <2>2, <2>3
<1>20. \A i \in 1..(n - 1) : m.prev[d[i]] = IF i > 1 THEN d[i - 1] ELSE undefined
  <2> SUFFICES ASSUME NEW i \in 1..(n - 1)
               PROVE  m.prev[d[i]] = IF i > 1 THEN d[i - 1] ELSE undefined
    OBVIOUS
  <2>1. CASE i < p
    <3>1. i \in 1..n /\ i # p /\ i # p + 1 /\ (i > 1 => i - 1 \in 1..(n - 1) /\ i - 1 < p)
      BY <2>1
    <3>2. d[i] = c[i] /\ (i > 1 => d[i - 1] = c[i - 1])
      BY <1>3, <2>1, <3>1
    <3> QED  BY <1>18, <3>1, <3>2
  <2>2. CASE i = p
    <3>1. i + 1 \in 1..n /\ i + 1 # p /\ i + 1 = p + 1
          /\ (i > 1 => i - 1 \in 1..(n - 1) /\ i - 1 < p)
      BY <2>2
    <3>2. d[i] = c[i + 1] /\ (i > 1 => d[i - 1] = c[i - 1])
      BY <1>3, <2>2, <3>1
    <3>3. m.prev[c[i + 1]] = b
      BY <1>18, <3>1
    <3> QED  BY <1>7, <2>2, <3>2, <3>3
  <2>3. CASE i > p
    <3>1. i + 1 \in 1..n /\ i + 1 # p /\ i + 1 # p + 1 /\ i > 1 /\ i + 1 > 1
          /\ i - 1 \in 1..(n - 1) /\ i - 1 >= p /\ (i - 1) + 1 = i /\ (i + 1) - 1 = i
      BY <2>3
    <3>2. d[i] = c[i + 1] /\ d[i - 1] = c[(i - 1) + 1]
      BY <1>3, <2>3, <3>1
    <3>3. m.prev[c[i + 1]] = c[(i + 1) - 1]
      BY <1>18, <3>1
    <3> QED  BY <3>1, <3>2, <3>3
  <2> QED  BY <2>1, <2>2, <2>3
<1>21. Chain(m, n - 1, d)
  BY <1>14, <1>15, <1>16, <1>17, <1>19, <1>20 DEF Chain
<1>22. Newest(m, n - 1, d)
  <2> SUFFICES ASSUME NEW i \in 1..(n - 1), NEW j \in 1..(n - 1),
                      m.nodesMap[d[j][1]] = d[j], d[i][1] = d[j][1]
               PROVE  j <= i
    BY DEF Newest
  <2>1. l.nodesMap[d[j][1]] = d[j]
    <3>1. d[j] \in L!Nodes /\ d[j][1] \in Keys
      BY <1>2, NodeType
    <3>2. d[j] # undefined
      BY <1>1, <3>1
    <3> QED  BY <1>1, <1>10, <3>1, <3>2, ListFields
  <2>2. PICK q \in 1..n : d[i] = c[q] /\ q # p /\ ((q = i /\ i < p) \/ (q = i + 1 /\ i >= p))
    BY <1>3
  <2>3. PICK r \in 1..n : d[j] = c[r] /\ r # p /\ ((r = j /\ j < p) \/ (r = j + 1 /\ j >= p))
    BY <1>3
  <2>4. r <= q
    BY <2>1, <2>2, <2>3 DEF Newest
  <2> QED  BY <2>2, <2>3, <2>4
<1> QED  BY <1>1, <1>2, <1>5, <1>13, <1>21, <1>22 DEF d, x

\* Every node in use is the one the map has for its value.
Single(l) == \A x \in L!InUse(l) : l.nodesMap[x[1]] = x

\* The pairs without v.
Apart(pairs, v) == {p \in pairs : p[1] # v /\ p[2] # v}

\* Values in the list and nodes in use are the same, if there is one for each.
LEMMA SingleHeld ==
    ASSUME NEW l, Good(l), Single(l)
    PROVE  /\ \A x \in L!InUse(l) : x \in L!Nodes /\ x[1] \in L!Held(l)
           /\ \A v \in L!Held(l) : l.nodesMap[v] \in L!InUse(l) /\ l.nodesMap[v][1] = v
<1>1. ASSUME NEW x \in L!InUse(l) PROVE x \in L!Nodes /\ x[1] \in L!Held(l)
  BY NodeType DEF L!InUse, L!Held, Single
<1>2. ASSUME NEW v \in L!Held(l)
      PROVE  l.nodesMap[v] \in L!InUse(l) /\ l.nodesMap[v][1] = v
  BY DEF L!Held, Good, Tidy
<1> QED  BY <1>1, <1>2

\* A node put in front makes its value the first of all.
LEMMA FrontIs ==
    ASSUME NEW l, Good(l), NEW x \in L!Nodes, x \notin L!InUse(l), NEW m \in L!Lists,
           AtFront(l, x, x[1], m)
    PROVE  /\ Good(m) /\ L!Held(m) = L!Held(l) \cup {x[1]}
           /\ Single(l) /\ x[1] \notin L!Held(l) =>
                  /\ Single(m)
                  /\ L!Before(m) = L!Before(l) \cup ({x[1]} \X L!Held(l))
<1>0. l \in L!Lists /\ Tidy(l) /\ x[1] \in Keys /\ undefined \notin L!Nodes
      /\ undefined \notin Keys
  BY NodeType DEF Good, Tidy
<1>1. PICK n \in Nat : \E c \in [1..n -> L!Nodes] : Chain(l, n, c) /\ Newest(l, n, c)
  BY DEF Good
<1>2. PICK c \in [1..n -> L!Nodes] : Chain(l, n, c) /\ Newest(l, n, c)
  BY <1>1
<1> DEFINE d == Cons(x, n, c)
<1>3. /\ Tidy(m) /\ n + 1 \in Nat /\ d \in [1..(n + 1) -> L!Nodes]
      /\ Chain(m, n + 1, d) /\ Newest(m, n + 1, d)
  BY <1>0, <1>2, AddChain
<1>4. Good(m)
  BY <1>3 DEF Good
<1>5. L!Held(m) = L!Held(l) \cup {x[1]}
  BY <1>0, ListFields DEF AtFront, L!Held
<1>6. L!InUse(m) = L!InUse(l) \cup {x}
  BY <1>0, ListFields DEF AtFront, L!InUse
<1>7. d[1] = x /\ \A i \in 1..n : d[i + 1] = c[i]
  BY DEF Cons
<1>8. \A i \in 1..(n + 1) : i = 1 \/ (i - 1 \in 1..n /\ d[i] = c[i - 1])
  BY DEF Cons
<1> HIDE DEF d
<1>9. ASSUME Single(l), x[1] \notin L!Held(l)
      PROVE  Single(m) /\ L!Before(m) = L!Before(l) \cup ({x[1]} \X L!Held(l))
  <2>1. Single(m)
    <3> SUFFICES ASSUME NEW y \in L!InUse(m) PROVE m.nodesMap[y[1]] = y
      BY DEF Single
    <3>1. CASE y = x
      BY <1>0, <3>1, ListFields DEF AtFront
    <3>2. CASE y # x
      <4>1. y \in L!InUse(l) /\ y[1] \in L!Held(l) /\ y[1] # x[1]
        BY <1>6, <1>9, <3>2, SingleHeld
      <4>2. l.nodesMap[y[1]] = y /\ y[1] \in Keys
        BY <1>9, <4>1 DEF Single, L!Held
      <4> QED  BY <1>0, <4>1, <4>2, ListFields DEF AtFront
    <3> QED  BY <3>1, <3>2
  <2>2. \A v, w : <<v, w>> \in L!Before(l) <=> InOrder(n, c, v, w)
    BY <1>0, <1>2, BeforeIs
  <2>3. \A v, w : <<v, w>> \in L!Before(m) <=> InOrder(n + 1, d, v, w)
    BY <1>3, BeforeIs
  <2>4. \A w : w \in L!Held(l) <=> \E i \in 1..n : w = c[i][1]
    <3>1. L!InUse(l) = {c[i] : i \in 1..n}
      BY <1>2 DEF Chain
    <3> QED  BY <1>9, <3>1, SingleHeld
  <2>5. ASSUME NEW v, NEW w, <<v, w>> \in L!Before(m)
        PROVE  <<v, w>> \in L!Before(l) \cup ({x[1]} \X L!Held(l))
    <3>1. PICK i \in 1..(n + 1), j \in 1..(n + 1) : i < j /\ v = d[i][1] /\ w = d[j][1]
      BY <2>3, <2>5 DEF InOrder
    <3>2. j - 1 \in 1..n /\ d[j] = c[j - 1]
      BY <1>8, <3>1
    <3>3. CASE i = 1
      <4>1. v = x[1] /\ w \in L!Held(l)
        BY <1>7, <2>4, <3>1, <3>2, <3>3
      <4> QED  BY <4>1
    <3>4. CASE i # 1
      <4>1. i - 1 \in 1..n /\ d[i] = c[i - 1] /\ i - 1 < j - 1
        BY <1>8, <3>1, <3>4
      <4> QED  BY <2>2, <3>1, <3>2, <4>1 DEF InOrder
    <3> QED  BY <3>3, <3>4
  <2>6. ASSUME NEW v, NEW w, <<v, w>> \in L!Before(l) \cup ({x[1]} \X L!Held(l))
        PROVE  <<v, w>> \in L!Before(m)
    <3>1. CASE <<v, w>> \in L!Before(l)
      <4>1. PICK i \in 1..n, j \in 1..n : i < j /\ v = c[i][1] /\ w = c[j][1]
        BY <2>2, <3>1 DEF InOrder
      <4>2. i + 1 \in 1..(n + 1) /\ j + 1 \in 1..(n + 1) /\ i + 1 < j + 1
        BY <4>1
      <4>3. v = d[i + 1][1] /\ w = d[j + 1][1]
        BY <1>7, <4>1
      <4>4. InOrder(n + 1, d, v, w)
        BY <4>2, <4>3 DEF InOrder
      <4> QED  BY <2>3, <4>4
    <3>2. CASE <<v, w>> \in {x[1]} \X L!Held(l)
      <4>1. PICK j \in 1..n : w = c[j][1]
        BY <2>4, <3>2
      <4>2. 1 \in 1..(n + 1) /\ j + 1 \in 1..(n + 1) /\ 1 < j + 1 /\ v = x[1]
        BY <3>2
      <4>3. v = d[1][1] /\ w = d[j + 1][1]
        BY <1>7, <4>1, <4>2
      <4>4. InOrder(n + 1, d, v, w)
        BY <4>2, <4>3 DEF InOrder
      <4> QED  BY <2>3, <4>4
    <3> QED  BY <2>6, <3>1, <3>2
  <2>7. L!Before(m) = L!Before(l) \cup ({x[1]} \X L!Held(l))
    <3>1. \A p \in L!Before(m) : p = <<p[1], p[2]>>
      BY BeforePairs
    <3>2. \A p \in L!Before(l) \cup ({x[1]} \X L!Held(l)) : p = <<p[1], p[2]>>
      BY BeforePairs
    <3> QED  BY <2>5, <2>6, <3>1, <3>2
  <2> QED  BY <2>1, <2>7
<1> QED  BY <1>4, <1>5, <1>9

\* A node taken out takes its value along, and leaves the order of the others.
LEMMA OutIs ==
    ASSUME NEW l, Good(l), NEW x \in L!InUse(l), NEW m \in L!Lists,
           Out(l, x, x[1], m)
    PROVE  /\ Good(m) /\ L!Held(m) = L!Held(l) \ {x[1]}
           /\ L!InUse(m) = L!InUse(l) \ {x}
           /\ Single(l) => Single(m) /\ L!Before(m) = Apart(L!Before(l), x[1])
<1>0. l \in L!Lists /\ Tidy(l) /\ x \in L!Nodes /\ x[1] \in Keys
      /\ undefined \notin L!Nodes /\ undefined \notin Keys
  BY NodeType DEF Good, Tidy, L!InUse
<1>1. PICK n \in Nat : \E c \in [1..n -> L!Nodes] : Chain(l, n, c) /\ Newest(l, n, c)
  BY DEF Good
<1>2. PICK c \in [1..n -> L!Nodes] : Chain(l, n, c) /\ Newest(l, n, c)
  BY <1>1
<1>a. PICK p \in 1..n : x = c[p]
  BY <1>2 DEF Chain
<1> DEFINE d == Cut(n, c, p)
<1>3. /\ Tidy(m) /\ n - 1 \in Nat /\ d \in [1..(n - 1) -> L!Nodes]
      /\ Chain(m, n - 1, d) /\ Newest(m, n - 1, d) /\ L!InUse(m) = L!InUse(l) \ {x}
  BY <1>0, <1>2, <1>a, OutChain
<1>4. Good(m)
  BY <1>3 DEF Good
<1>5. L!Held(m) = L!Held(l) \ {x[1]}
  BY <1>0, ListFields DEF Out, L!Held
<1>7. \A i \in 1..(n - 1) : \/ i < p /\ i \in 1..n /\ d[i] = c[i]
                            \/ i >= p /\ i + 1 \in 1..n /\ i + 1 > p /\ d[i] = c[i + 1]
  BY DEF Cut
<1>8. \A i \in 1..n : i # p => \/ i < p /\ i \in 1..(n - 1) /\ d[i] = c[i]
                               \/ i > p /\ i - 1 \in 1..(n - 1) /\ d[i - 1] = c[i]
  <2> SUFFICES ASSUME NEW i \in 1..n, i # p
               PROVE  \/ i < p /\ i \in 1..(n - 1) /\ d[i] = c[i]
                      \/ i > p /\ i - 1 \in 1..(n - 1) /\ d[i - 1] = c[i]
    OBVIOUS
  <2>1. CASE i < p
    BY <2>1 DEF Cut
  <2>2. CASE i > p
    <3>1. i - 1 \in 1..(n - 1) /\ ~(i - 1 < p) /\ (i - 1) + 1 = i
      BY <2>2
    <3>2. d[i - 1] = c[(i - 1) + 1]
      BY <3>1 DEF Cut
    <3> QED  BY <2>2, <3>1, <3>2
  <2> QED  BY <2>1, <2>2
<1> HIDE DEF d
<1>9. ASSUME Single(l)
      PROVE  Single(m) /\ L!Before(m) = Apart(L!Before(l), x[1])
  <2>0. \A i \in 1..n : c[i] \in L!InUse(l) /\ (c[i][1] = x[1] <=> i = p)
    <3>1. \A i \in 1..n : c[i] \in L!InUse(l)
      BY <1>2 DEF Chain
    <3>2. \A i \in 1..n : c[i][1] = x[1] => c[i] = x
      BY <1>9, <3>1 DEF Single
    <3>3. \A i, j \in 1..n : c[i] = c[j] => i = j
      BY <1>2 DEF Chain
    <3> QED  BY <1>a, <3>1, <3>2, <3>3
  <2>1. Single(m)
    <3> SUFFICES ASSUME NEW y \in L!InUse(m) PROVE m.nodesMap[y[1]] = y
      BY DEF Single
    <3>1. y \in L!InUse(l) /\ y # x /\ l.nodesMap[y[1]] = y /\ l.nodesMap[x[1]] = x
      BY <1>3, <1>9 DEF Single
    <3>2. y[1] # x[1] /\ y[1] \in Keys
      BY <3>1, NodeType DEF L!InUse
    <3> QED  BY <1>0, <3>1, <3>2, ListFields DEF Out
  <2>2. \A v, w : <<v, w>> \in L!Before(l) <=> InOrder(n, c, v, w)
    BY <1>0, <1>2, BeforeIs
  <2>3. \A v, w : <<v, w>> \in L!Before(m) <=> InOrder(n - 1, d, v, w)
    BY <1>3, BeforeIs
  <2>5. ASSUME NEW v, NEW w, <<v, w>> \in L!Before(m)
        PROVE  <<v, w>> \in L!Before(l) /\ v # x[1] /\ w # x[1]
    <3>1. PICK i \in 1..(n - 1), j \in 1..(n - 1) : i < j /\ v = d[i][1] /\ w = d[j][1]
      BY <2>3, <2>5 DEF InOrder
    <3>2. PICK q \in 1..n : d[i] = c[q] /\ q # p /\ ((q = i /\ i < p) \/ (q = i + 1 /\ i >= p))
      BY <1>7
    <3>3. PICK r \in 1..n : d[j] = c[r] /\ r # p /\ ((r = j /\ j < p) \/ (r = j + 1 /\ j >= p))
      BY <1>7
    <3>4. q < r
      BY <3>1, <3>2, <3>3
    <3> QED  BY <2>0, <2>2, <3>1, <3>2, <3>3, <3>4 DEF InOrder
  <2>6. ASSUME NEW v, NEW w, <<v, w>> \in L!Before(l), v # x[1], w # x[1]
        PROVE  <<v, w>> \in L!Before(m)
    <3>1. PICK i \in 1..n, j \in 1..n : i < j /\ v = c[i][1] /\ w = c[j][1]
      BY <2>2, <2>6 DEF InOrder
    <3>2. i # p /\ j # p
      BY <2>0, <2>6, <3>1
    <3>3. PICK q \in 1..(n - 1) : d[q] = c[i] /\ ((q = i /\ i < p) \/ (q = i - 1 /\ i > p))
      BY <1>8, <3>2
    <3>4. PICK r \in 1..(n - 1) : d[r] = c[j] /\ ((r = j /\ j < p) \/ (r = j - 1 /\ j > p))
      BY <1>8, <3>2
    <3>5. q < r
      BY <3>1, <3>3, <3>4
    <3> QED  BY <2>3, <3>1, <3>3, <3>4, <3>5 DEF InOrder
  <2>7. L!Before(m) = Apart(L!Before(l), x[1])
    <3>1. \A q \in L!Before(m) : q = <<q[1], q[2]>>
      BY BeforePairs
    <3>2. \A q \in L!Before(l) : q = <<q[1], q[2]>>
      BY BeforePairs
    <3> QED  BY <2>5, <2>6, <3>1, <3>2 DEF Apart
  <2> QED  BY <2>1, <2>7
<1> QED  BY <1>3, <1>4, <1>5, <1>9

\* The pairs of Before are of values in the list, and of two different ones.
LEMMA BeforeHeld ==
    ASSUME NEW l, Good(l), Single(l)
    PROVE  \A p \in L!Before(l) : p[1] \in L!Held(l) /\ p[2] \in L!Held(l) /\ p[1] # p[2]
<1>0. Tidy(l)
  BY DEF Good
<1>1. PICK n \in Nat : \E c \in [1..n -> L!Nodes] : Chain(l, n, c) /\ Newest(l, n, c)
  BY DEF Good
<1>2. PICK c \in [1..n -> L!Nodes] : Chain(l, n, c)
  BY <1>1
<1> SUFFICES ASSUME NEW p \in L!Before(l)
             PROVE  p[1] \in L!Held(l) /\ p[2] \in L!Held(l) /\ p[1] # p[2]
  OBVIOUS
<1>3. <<p[1], p[2]>> \in L!Before(l)
  BY BeforePairs
<1>4. \A x, y : <<x, y>> \in L!Before(l) <=> InOrder(n, c, x, y)
  BY <1>0, <1>2, BeforeIs
<1>5. PICK i \in 1..n, j \in 1..n : i < j /\ p[1] = c[i][1] /\ p[2] = c[j][1]
  BY <1>3, <1>4 DEF InOrder
<1>6. c[i] \in L!InUse(l) /\ c[j] \in L!InUse(l) /\ c[i] # c[j]
  BY <1>2, <1>5 DEF Chain
<1>7. c[i][1] # c[j][1]
  BY <1>6 DEF Single
<1> QED  BY <1>5, <1>6, <1>7, SingleHeld

\* The empty list is good, and holds nothing.
LEMMA EmptyIs ==
    /\ Good(L!EmptyList) /\ Single(L!EmptyList)
    /\ L!Held(L!EmptyList) = {} /\ L!Before(L!EmptyList) = {}
<1> DEFINE l == L!EmptyList
<1>1. L!InUse(l) = {} /\ L!Held(l) = {}
  BY DEF L!EmptyList, L!InUse, L!Held
<1>2. Tidy(l)
  BY DEF Tidy, L!EmptyList, L!Lists
<1>3. PICK c : c \in [1..0 -> L!Nodes]
  <2>1. [i \in 1..0 |-> undefined] \in [1..0 -> L!Nodes]
    OBVIOUS
  <2> QED  BY <2>1
<1>4. Chain(l, 0, c) /\ Newest(l, 0, c)
  BY <1>1 DEF Chain, Newest, L!EmptyList
<1>5. Good(l)
  BY <1>2, <1>3, <1>4 DEF Good
<1>6. Single(l)
  BY <1>1 DEF Single
<1> HIDE DEF l
<1>7. L!Before(l) = {}
  BY <1>1, <1>5, <1>6, BeforeHeld
<1> QED  BY <1>1, <1>5, <1>6, <1>7 DEF l

\* addToFront makes a value the first.
LEMMA AddIs ==
    ASSUME NEW l, Good(l), NEW v \in Keys, L!HasRoom(l, v)
    PROVE  LET m == L!addToFront(l, v)
           IN  /\ Good(m) /\ L!Held(m) = L!Held(l) \cup {v}
               /\ Single(l) /\ v \notin L!Held(l) =>
                      /\ Single(m)
                      /\ L!Before(m) = L!Before(l) \cup ({v} \X L!Held(l))
<1>1. l \in L!Lists
  BY DEF Good, Tidy
<1>2. PICK x \in L!Nodes : /\ x[1] = v /\ x \notin L!InUse(l)
                           /\ AtFront(l, x, v, L!addToFront(l, v))
                           /\ L!addToFront(l, v) \in L!Lists
  BY <1>1, AddFields
<1> DEFINE m == L!addToFront(l, v)
<1> HIDE DEF m
<1>3. AtFront(l, x, x[1], m) /\ m \in L!Lists
  BY <1>2 DEF m
<1>4. /\ Good(m) /\ L!Held(m) = L!Held(l) \cup {x[1]}
      /\ Single(l) /\ x[1] \notin L!Held(l) =>
             /\ Single(m)
             /\ L!Before(m) = L!Before(l) \cup ({x[1]} \X L!Held(l))
  BY <1>2, <1>3, FrontIs
<1> QED  BY <1>2, <1>4 DEF m

\* remove leaves the other values in their order.
LEMMA RemoveIs ==
    ASSUME NEW l, Good(l), NEW v \in Keys
    PROVE  LET m == L!remove(l, v)
           IN  /\ Good(m) /\ L!Held(m) = L!Held(l) \ {v}
               /\ Single(l) => Single(m) /\ L!Before(m) = Apart(L!Before(l), v)
<1>1. l \in L!Lists /\ Tidy(l)
  BY DEF Good, Tidy
<1> DEFINE m == L!remove(l, v)
<1>2. CASE l.nodesMap[v] = undefined
  <2>1. m = l
    BY <1>2 DEF L!remove
  <2>2. v \notin L!Held(l)
    BY <1>2 DEF L!Held
  <2>3. Single(l) => L!Before(l) = Apart(L!Before(l), v)
    BY <2>2, BeforeHeld DEF Apart
  <2> QED  BY <2>1, <2>2, <2>3
<1>3. CASE l.nodesMap[v] # undefined
  <2> DEFINE x == l.nodesMap[v]
  <2>1. x \in L!InUse(l) /\ x[1] = v
    BY <1>1, <1>3 DEF Tidy
  <2>2. Out(l, x, v, m) /\ m \in L!Lists
    BY <1>1, <1>3, OutFields
  <2> HIDE DEF m, x
  <2>3. /\ Good(m) /\ L!Held(m) = L!Held(l) \ {x[1]}
        /\ Single(l) => Single(m) /\ L!Before(m) = Apart(L!Before(l), x[1])
    BY <2>1, <2>2, OutIs
  <2> QED  BY <2>1, <2>3 DEF m
<1> QED  BY <1>2, <1>3

\* To move a value to the front is to take it out and to add it.
LEMMA MoveIsOutAndIn ==
    ASSUME NEW l, Good(l), NEW v \in Keys, l.nodesMap[v] \notin {undefined, l.head}
    PROVE  AtFront(L!remove(l, v), l.nodesMap[v], v, L!moveToFront(l, v))
<1> DEFINE x == l.nodesMap[v]
           o == L!remove(l, v)
           m == L!moveToFront(l, v)
<1>1. l \in L!Lists /\ Tidy(l) /\ undefined \notin L!Nodes
  BY NodeType DEF Good, Tidy
<1>2. x \in L!InUse(l) /\ x[1] = v /\ x \in L!Nodes /\ l.value[x] = v
  BY <1>1 DEF Tidy, L!InUse
<1>3. Out(l, x, v, o) /\ o \in L!Lists
  BY <1>1, OutFields
<1>4. ToFront(l, x, m)
  BY <1>1, MoveFields
<1>5. PICK n \in Nat : \E c \in [1..n -> L!Nodes] : Chain(l, n, c)
  BY DEF Good
<1>6. PICK c \in [1..n -> L!Nodes] : Chain(l, n, c)
  BY <1>5
<1> HIDE DEF o, m
<1>7. x # l.head
  OBVIOUS
<1> HIDE DEF x
<1>8. PICK p \in 1..n : x = c[p]
  BY <1>2, <1>6 DEF Chain
<1>9. p > 1 /\ n # 0 /\ l.head = c[1] /\ l.tail = c[n]
  BY <1>6, <1>7, <1>8 DEF Chain
<1>10. l.prev[x] = c[p - 1] /\ l.next[x] = IF p < n THEN c[p + 1] ELSE undefined
  BY <1>6, <1>8, <1>9 DEF Chain
<1>11. l.prev[x] # undefined /\ l.head # undefined /\ l.tail # undefined
  BY <1>1, <1>9, <1>10
<1>12. l.next[x] = undefined <=> x = l.tail
  <2>1. CASE p < n
    <3>1. p + 1 \in 1..n /\ n \in 1..n
      BY <2>1
    <3>2. c[p + 1] # undefined /\ c[p] # c[n]
      BY <1>1, <1>6, <2>1, <3>1 DEF Chain
    <3> QED  BY <1>8, <1>9, <1>10, <2>1, <3>2
  <2>2. CASE ~(p < n)
    BY <1>8, <1>9, <1>10, <2>2
  <2> QED  BY <2>1, <2>2
<1>13. o.head = l.head
  BY <1>3, <1>11 DEF Out
<1>14. m.tail = o.tail /\ m.tail = IF o.head = undefined THEN x ELSE o.tail
  BY <1>3, <1>4, <1>11, <1>12, <1>13 DEF Out, ToFront, L!Or
<1>15. /\ l.next \in [L!Nodes -> L!Nodes \cup {undefined}]
       /\ l.prev \in [L!Nodes -> L!Nodes \cup {undefined}]
       /\ l.value \in [L!Nodes -> Keys \cup {undefined}]
       /\ l.nodesMap \in [Keys -> L!Nodes \cup {undefined}]
  BY <1>1, ListFields
<1>16. L!Link(l.next, l.prev[x], l.next[x]) \in [L!Nodes -> L!Nodes \cup {undefined}]
  BY <1>2, <1>15 DEF L!Link
<1>17. m.next = [o.next EXCEPT ![x] = o.head]
  <2>1. o.next = [L!Link(l.next, l.prev[x], l.next[x]) EXCEPT ![x] = undefined]
    BY <1>3 DEF Out
  <2>2. m.next = [L!Link(l.next, l.prev[x], l.next[x]) EXCEPT ![x] = l.head]
    BY <1>4 DEF ToFront
  <2> DEFINE f == L!Link(l.next, l.prev[x], l.next[x])
  <2> HIDE DEF f
  <2>3. [[f EXCEPT ![x] = undefined] EXCEPT ![x] = l.head] = [f EXCEPT ![x] = l.head]
    BY <1>2
  <2> QED  BY <1>13, <2>1, <2>2, <2>3 DEF f
<1>18. m.prev = L!Link(o.prev, o.head, x)
  <2>1. o.prev = [L!Link(l.prev, l.next[x], l.prev[x]) EXCEPT ![x] = undefined]
    BY <1>3 DEF Out
  <2> QED  BY <1>4, <1>13, <2>1 DEF ToFront
<1>19. m.value = [o.value EXCEPT ![x] = v]
  <2>1. m.value = l.value /\ o.value = [l.value EXCEPT ![x] = undefined]
    BY <1>3, <1>4 DEF Out, ToFront
  <2> QED  BY <1>2, <1>15, <2>1
<1>20. m.nodesMap = [o.nodesMap EXCEPT ![v] = x]
  <2>1. m.nodesMap = l.nodesMap /\ o.nodesMap = [l.nodesMap EXCEPT ![v] = undefined]
    BY <1>3, <1>4 DEF Out, ToFront
  <2>2. l.nodesMap[v] = x
    BY DEF x
  <2> QED  BY <1>15, <2>1, <2>2
<1>21. m.head = x
  BY <1>4 DEF ToFront
<1>22. AtFront(o, x, v, m)
  BY <1>14, <1>17, <1>18, <1>19, <1>20, <1>21 DEF AtFront
<1> QED  BY <1>22 DEF o, m, x

\* moveToFront makes a value the first, and leaves the others in their order.
LEMMA MoveIs ==
    ASSUME NEW l, Good(l), NEW v \in Keys
    PROVE  LET m == L!moveToFront(l, v)
           IN  /\ Good(m) /\ L!Held(m) = L!Held(l)
               /\ Single(l) /\ v \in L!Held(l) =>
                      /\ Single(m)
                      /\ L!Before(m) = Apart(L!Before(l), v) \cup ({v} \X (L!Held(l) \ {v}))
<1> DEFINE x == l.nodesMap[v]
           o == L!remove(l, v)
           m == L!moveToFront(l, v)
<1>0. l \in L!Lists /\ Tidy(l) /\ undefined \notin L!Nodes
  BY NodeType DEF Good, Tidy
<1>1. CASE x = undefined
  <2>1. m = l /\ v \notin L!Held(l)
    BY <1>1 DEF L!moveToFront, L!Held
  <2> QED  BY <2>1
<1>2. CASE x # undefined /\ x = l.head
  <2>1. m = l
    BY <1>2 DEF L!moveToFront
  <2>2. ASSUME Single(l), v \in L!Held(l)
        PROVE  L!Before(l) = Apart(L!Before(l), v) \cup ({v} \X (L!Held(l) \ {v}))
    <3>1. PICK n \in Nat : \E c \in [1..n -> L!Nodes] : Chain(l, n, c)
      BY DEF Good
    <3>2. PICK c \in [1..n -> L!Nodes] : Chain(l, n, c)
      BY <3>1
    <3>3. \A a, b : <<a, b>> \in L!Before(l) <=> InOrder(n, c, a, b)
      BY <1>0, <3>2, BeforeIs
    <3>4. n # 0 /\ x = c[1] /\ x[1] = v
      BY <1>0, <1>2, <3>2 DEF Chain, Tidy
    <3> HIDE DEF x, m
    <3>5. \A i \in 1..n : c[i] \in L!InUse(l) /\ (c[i][1] = v => i = 1)
      <4>1. ASSUME NEW i \in 1..n PROVE c[i] \in L!InUse(l) /\ (c[i][1] = v => i = 1)
        <5>1. c[i] \in L!InUse(l) /\ 1 \in 1..n /\ c[1] \in L!InUse(l)
          BY <3>2, <3>4 DEF Chain
        <5>2. c[i][1] = v => c[i] = c[1]
          BY <2>2, <3>4, <5>1 DEF Single
        <5> QED  BY <3>2, <5>1, <5>2 DEF Chain
      <4> QED  BY <4>1
    <3>6. ASSUME NEW a, NEW b, <<a, b>> \in L!Before(l), a = v \/ b = v
          PROVE  a = v /\ b \in L!Held(l) \ {v}
      <4>1. PICK i \in 1..n, j \in 1..n : i < j /\ a = c[i][1] /\ b = c[j][1]
        BY <3>3, <3>6 DEF InOrder
      <4>2. b # v
        BY <3>5, <4>1
      <4>3. b \in L!Held(l)
        BY <2>2, <3>5, <4>1, SingleHeld
      <4> QED  BY <3>6, <4>2, <4>3
    <3>7. ASSUME NEW b \in L!Held(l) \ {v} PROVE <<v, b>> \in L!Before(l)
      <4>1. l.nodesMap[b] \in L!InUse(l) /\ l.nodesMap[b][1] = b
        BY <2>2, SingleHeld
      <4>2. PICK j \in 1..n : c[j] = l.nodesMap[b]
        BY <3>2, <4>1 DEF Chain
      <4>3. j # 1
        BY <3>4, <4>1, <4>2
      <4>4. 1 \in 1..n /\ 1 < j /\ v = c[1][1] /\ b = c[j][1]
        BY <3>4, <4>1, <4>2, <4>3
      <4> QED  BY <3>3, <4>4 DEF InOrder
    <3>8. \A p \in L!Before(l) : p = <<p[1], p[2]>>
      BY BeforePairs
    <3> QED  BY <3>6, <3>7, <3>8 DEF Apart
  <2> QED  BY <1>2, <2>1, <2>2
<1>3. CASE x \notin {undefined, l.head}
  <2>1. x \in L!InUse(l) /\ x[1] = v /\ x \in L!Nodes
    BY <1>0, <1>3 DEF Tidy, L!InUse
  <2>2. AtFront(o, x, v, m)
    BY <1>3, MoveIsOutAndIn
  <2>3. m \in L!Lists
    BY <1>0, <1>3, MoveFields
  <2>4. Out(l, x, v, o) /\ o \in L!Lists
    BY <1>0, <1>3, OutFields
  <2> HIDE DEF o, m, x
  <2>5. /\ Good(o) /\ L!Held(o) = L!Held(l) \ {v} /\ L!InUse(o) = L!InUse(l) \ {x}
        /\ Single(l) => Single(o) /\ L!Before(o) = Apart(L!Before(l), v)
    BY <2>1, <2>4, OutIs
  <2>6. /\ Good(m) /\ L!Held(m) = L!Held(o) \cup {v}
        /\ Single(o) /\ v \notin L!Held(o) =>
               /\ Single(m) /\ L!Before(m) = L!Before(o) \cup ({v} \X L!Held(o))
    BY <2>1, <2>2, <2>3, <2>5, FrontIs
  <2>7. v \in L!Held(l)
    BY <1>3 DEF L!Held, x
  <2> QED  BY <2>5, <2>6, <2>7 DEF m
<1> QED  BY <1>1, <1>2, <1>3

\* A list without a last node holds nothing.
LEMMA NoOldest ==
    ASSUME NEW l, Good(l), l.tail = undefined
    PROVE  L!getOldest(l) = undefined /\ L!Held(l) = {}
<1>1. PICK n \in Nat : \E c \in [1..n -> L!Nodes] : Chain(l, n, c)
  BY DEF Good
<1>2. PICK c \in [1..n -> L!Nodes] : Chain(l, n, c)
  BY <1>1
<1>3. n = 0
  BY <1>2, NodeType DEF Chain
<1>4. L!InUse(l) = {}
  BY <1>2, <1>3 DEF Chain
<1> QED  BY <1>4 DEF L!getOldest, L!Held, Good, Tidy

\* removeOldest takes out the value that all others come before.
LEMMA OldestIs ==
    ASSUME NEW l, Good(l), l.tail # undefined
    PROVE  LET k == L!getOldest(l)
               m == L!removeOldest(l)
           IN  /\ k \in Keys
               /\ Good(m) /\ L!Held(m) = L!Held(l) \ {k}
               /\ Single(l) => /\ Single(m) /\ L!Before(m) = Apart(L!Before(l), k)
                               /\ k \in L!Held(l)
                               /\ \A w \in L!Held(l) \ {k} : <<w, k>> \in L!Before(l)
<1> DEFINE x == l.tail
           k == L!getOldest(l)
           m == L!removeOldest(l)
<1>0. l \in L!Lists /\ Tidy(l) /\ undefined \notin L!Nodes
  BY NodeType DEF Good, Tidy
<1>1. PICK n \in Nat : \E c \in [1..n -> L!Nodes] : Chain(l, n, c)
  BY DEF Good
<1>2. PICK c \in [1..n -> L!Nodes] : Chain(l, n, c)
  BY <1>1
<1>3. n # 0 /\ x = c[n] /\ x \in L!InUse(l) /\ l.next[x] = undefined
  BY <1>2 DEF Chain
<1>4. x \in L!Nodes /\ k = x[1] /\ l.value[x] = x[1] /\ x[1] \in Keys
  BY <1>0, <1>3, NodeType DEF Tidy, L!InUse, L!getOldest
<1> DEFINE b == l.prev[x]
           q == [l EXCEPT !.tail = b,
                          !.head = IF b = undefined THEN undefined ELSE @,
                          !.next = L!Link(@, b, undefined),
                          !.nodesMap[l.value[x]] = undefined]
           z == [q EXCEPT !.next[x] = undefined, !.prev[x] = undefined,
                          !.value[x] = undefined]
<1>5. m = z
  BY DEF L!removeOldest, L!Forget
<1> HIDE DEF m, k
<1>6. Out(l, x, x[1], m) /\ m \in L!Lists
  <2> HIDE DEF x
  <2>1. b \in L!Nodes \cup {undefined}
    BY <1>0, <1>4, ListFields
  <2> HIDE DEF b
  <2>2. q \in L!Lists
    BY <1>0, <1>4, <2>1, ListFields DEF L!Lists, L!Link
  <2>3. /\ q.head = IF b = undefined THEN undefined ELSE l.head
        /\ q.tail = b /\ q.next = L!Link(l.next, b, undefined) /\ q.prev = l.prev
        /\ q.value = l.value /\ q.nodesMap = [l.nodesMap EXCEPT ![x[1]] = undefined]
    BY <1>0, <1>4, ListFields DEF L!Lists
  <2> HIDE DEF q
  <2>4. z \in L!Lists
    BY <1>4, <2>2, ListFields DEF L!Lists
  <2>5. /\ z.head = q.head /\ z.tail = q.tail /\ z.next = [q.next EXCEPT ![x] = undefined]
        /\ z.prev = [q.prev EXCEPT ![x] = undefined]
        /\ z.value = [q.value EXCEPT ![x] = undefined] /\ z.nodesMap = q.nodesMap
    BY <2>2 DEF L!Lists
  <2> HIDE DEF z
  <2>6. L!Link(l.prev, undefined, b) = l.prev
    BY DEF L!Link
  <2>7. Out(l, x, x[1], z)
    BY <1>3, <2>3, <2>5, <2>6 DEF Out, b
  <2> QED  BY <1>5, <2>4, <2>7
<1> HIDE DEF z, x
<1>7. /\ Good(m) /\ L!Held(m) = L!Held(l) \ {x[1]}
      /\ Single(l) => Single(m) /\ L!Before(m) = Apart(L!Before(l), x[1])
  BY <1>3, <1>6, OutIs
<1>8. ASSUME Single(l)
      PROVE  k \in L!Held(l) /\ \A w \in L!Held(l) \ {k} : <<w, k>> \in L!Before(l)
  <2>1. k \in L!Held(l)
    BY <1>3, <1>4, <1>8, SingleHeld
  <2>2. ASSUME NEW w \in L!Held(l) \ {k} PROVE <<w, k>> \in L!Before(l)
    <3>1. l.nodesMap[w] \in L!InUse(l) /\ l.nodesMap[w][1] = w
      BY <1>8, SingleHeld
    <3>2. PICK i \in 1..n : c[i] = l.nodesMap[w]
      BY <1>2, <3>1 DEF Chain
    <3>3. n \in 1..n /\ i < n /\ w = c[i][1] /\ k = c[n][1]
      BY <1>3, <1>4, <3>1, <3>2
    <3>4. \A a, y : <<a, y>> \in L!Before(l) <=> InOrder(n, c, a, y)
      BY <1>0, <1>2, BeforeIs
    <3> QED  BY <3>3, <3>4 DEF InOrder
  <2> QED  BY <2>1, <2>2
<1> QED  BY <1>4, <1>7, <1>8 DEF m, k

-----------------------------------------------------------------------------
(* The list and the maps: as long as nothing lapsed, the list holds the keys  *)
(* of the entries, each in one node, in the order of their last use.          *)

\* The list m is lru without the values in gone.
LeftWithout(gone, m) ==
    IF lruSize = 0 THEN m = lru
    ELSE /\ Good(m) /\ L!Held(m) = L!Held(lru) \ gone
         /\ Single(lru) =>
                /\ Single(m)
                /\ L!Before(m) =
                       {p \in L!Before(lru) : p[1] \notin gone /\ p[2] \notin gone}

\* lruRemove leaves the list without one value more.
LEMMA LeftStep ==
    ASSUME NEW s, NEW k \in Keys, k \in s, NEW m, LeftWithout(s \ {k}, m)
    PROVE  LeftWithout(s, lruRemove(m, k))
<1>1. CASE lruSize = 0
  BY <1>1 DEF LeftWithout, lruRemove
<1>2. CASE lruSize # 0
  <2>1. Good(m) /\ L!Held(m) = L!Held(lru) \ (s \ {k})
    BY <1>2 DEF LeftWithout
  <2> DEFINE r == L!remove(m, k)
  <2>2. lruRemove(m, k) = r
    BY <1>2 DEF lruRemove
  <2>3. /\ Good(r) /\ L!Held(r) = L!Held(m) \ {k}
        /\ Single(m) => Single(r) /\ L!Before(r) = Apart(L!Before(m), k)
    BY <2>1, RemoveIs
  <2> HIDE DEF r
  <2>4. ASSUME Single(lru)
        PROVE  /\ Single(r)
               /\ L!Before(r) = {p \in L!Before(lru) : p[1] \notin s /\ p[2] \notin s}
    <3>1. /\ Single(m)
          /\ L!Before(m) = {p \in L!Before(lru) : p[1] \notin s \ {k} /\ p[2] \notin s \ {k}}
      BY <1>2, <2>4 DEF LeftWithout
    <3> QED  BY <2>3, <3>1 DEF Apart
  <2>5. L!Held(r) = L!Held(lru) \ s
    BY <2>1, <2>3
  <2> QED  BY <1>2, <2>2, <2>3, <2>4, <2>5 DEF LeftWithout
<1> QED  BY <1>1, <1>2

\* Without the value it takes first a finite set is one smaller.
LEMMA OneOut ==
    ASSUME NEW s, IsFiniteSet(s), s # {}
    PROVE  LET k == CHOOSE k \in s : TRUE
           IN  /\ k \in s /\ IsFiniteSet(s \ {k})
               /\ Cardinality(s) \in Nat \ {0}
               /\ Cardinality(s \ {k}) = Cardinality(s) - 1
<1> DEFINE k == CHOOSE k \in s : TRUE
<1>1. k \in s
  OBVIOUS
<1> HIDE DEF k
<1>2. IsFiniteSet(s \ {k}) /\ Cardinality(s \ {k}) = Cardinality(s) - 1
  BY <1>1, FS_RemoveElement
<1>3. Cardinality(s) \in Nat /\ Cardinality(s \ {k}) \in Nat
  BY <1>2, FS_CardinalityType
<1> QED  BY <1>1, <1>2, <1>3 DEF k

\* There is a function that removes the values of every subset of S.
LEMMA RemovesExist ==
    ASSUME NEW S, IsFiniteSet(S)
    PROVE  \E g : g = [s \in SUBSET S |-> IF s = {} THEN lru
                               ELSE LET k == CHOOSE k \in s : TRUE
                                    IN  lruRemove(g[s \ {k}], k)]
<1> DEFINE One(s) == CHOOSE k \in s : TRUE
           Next1(g, s) == IF s = {} THEN lru ELSE lruRemove(g[s \ {One(s)}], One(s))
           Upto(n, g) == \A s \in SUBSET S : Cardinality(s) <= n => g[s] = Next1(g, s)
           N == {n \in Nat : \E g : g = [s \in SUBSET S |-> g[s]] /\ Upto(n, g)}
<1>1. \A s \in SUBSET S : /\ IsFiniteSet(s) /\ Cardinality(s) \in Nat
                          /\ Cardinality(s) <= Cardinality(S)
  BY FS_Subset, FS_CardinalityType
<1>2. ASSUME NEW s \in SUBSET S, s # {}
      PROVE  /\ One(s) \in s /\ s \ {One(s)} \in SUBSET S
             /\ Cardinality(s \ {One(s)}) = Cardinality(s) - 1
             /\ Cardinality(s) \in Nat \ {0}
  BY <1>1, <1>2, OneOut
<1> HIDE DEF One
<1>3. 0 \in N
  <2> DEFINE g == [s \in SUBSET S |-> lru]
  <2>1. \A s \in SUBSET S : Cardinality(s) <= 0 => s = {}
    BY <1>1, FS_EmptySet
  <2>2. Upto(0, g) /\ g = [s \in SUBSET S |-> g[s]]
    BY <2>1
  <2> QED  BY <2>2
<1>4. ASSUME NEW n \in Nat, n \in N PROVE n + 1 \in N
  <2>1. PICK g : g = [s \in SUBSET S |-> g[s]] /\ Upto(n, g)
    BY <1>4
  <2> HIDE DEF Next1
  <2> DEFINE h == [s \in SUBSET S |-> IF Cardinality(s) = n + 1 THEN Next1(g, s) ELSE g[s]]
  <2>2. ASSUME NEW s \in SUBSET S, Cardinality(s) <= n + 1 PROVE h[s] = Next1(h, s)
    <3>1. Next1(h, s) = Next1(g, s)
      <4>1. CASE s = {}
        BY <4>1 DEF Next1
      <4>2. CASE s # {}
        <5>1. s \ {One(s)} \in SUBSET S /\ Cardinality(s \ {One(s)}) # n + 1
          BY <1>2, <2>2, <4>2
        <5>2. h[s \ {One(s)}] = g[s \ {One(s)}]
          BY <5>1
        <5> QED  BY <4>2, <5>2 DEF Next1
      <4> QED  BY <4>1, <4>2
    <3>2. CASE Cardinality(s) = n + 1
      BY <3>1, <3>2
    <3>3. CASE Cardinality(s) # n + 1
      <4>1. Cardinality(s) <= n
        BY <1>1, <2>2, <3>3
      <4>2. g[s] = Next1(g, s)
        BY <2>1, <4>1
      <4> QED  BY <3>1, <3>3, <4>2
    <3> QED  BY <3>2, <3>3
  <2>3. h = [s \in SUBSET S |-> h[s]]
    OBVIOUS
  <2> HIDE DEF h
  <2>4. Upto(n + 1, h)
    BY <2>2
  <2> HIDE DEF Upto
  <2>5. \E f : f = [s \in SUBSET S |-> f[s]] /\ Upto(n + 1, f)
    BY <2>3, <2>4, Zenon
  <2> QED  BY <2>5
<1> HIDE DEF N
<1>5. Nat \subseteq N
  BY <1>3, <1>4, NatInd
<1>6. PICK g : g = [s \in SUBSET S |-> g[s]] /\ Upto(Cardinality(S), g)
  BY <1>1, <1>5 DEF N
<1>7. \A s \in SUBSET S : g[s] = Next1(g, s)
  BY <1>1, <1>6
<1>8. g = [s \in SUBSET S |-> Next1(g, s)]
  BY <1>6, <1>7
<1> QED  BY <1>8 DEF One

\* To remove all values of a finite set is to leave the others.
LEMMA RemoveAllIs ==
    ASSUME NEW S \in SUBSET Keys, IsFiniteSet(S), Good(lru)
    PROVE  LeftWithout(S, lruRemoveAll(S))
<1> DEFINE Body(g) == [s \in SUBSET S |-> IF s = {} THEN lru
                               ELSE LET k == CHOOSE k \in s : TRUE
                                    IN  lruRemove(g[s \ {k}], k)]
           left == CHOOSE g : g = Body(g)
           N == {n \in Nat : \A s \in SUBSET S : Cardinality(s) = n => LeftWithout(s, left[s])}
<1>1. lruRemoveAll(S) = left[S]
  BY DEF lruRemoveAll
<1>2. left = Body(left)
  BY RemovesExist
<1> HIDE DEF left
<1>3. \A s \in SUBSET S : IsFiniteSet(s) /\ Cardinality(s) \in Nat
  BY FS_Subset, FS_CardinalityType
<1>4. 0 \in N
  <2>1. \A s \in SUBSET S : Cardinality(s) = 0 => s = {}
    BY <1>3, FS_EmptySet
  <2>2. left[{}] = lru
    BY <1>2
  <2>3. LeftWithout({}, lru)
    BY DEF LeftWithout
  <2> QED  BY <2>1, <2>2, <2>3
<1>5. ASSUME NEW n \in Nat, n \in N PROVE n + 1 \in N
  <2> SUFFICES ASSUME NEW s \in SUBSET S, Cardinality(s) = n + 1 PROVE LeftWithout(s, left[s])
    OBVIOUS
  <2>1. s # {}
    BY FS_EmptySet
  <2> DEFINE k == CHOOSE k \in s : TRUE
  <2>2. left[s] = lruRemove(left[s \ {k}], k)
    BY <1>2, <2>1
  <2>3. k \in s /\ Cardinality(s \ {k}) = Cardinality(s) - 1
    BY <1>3, <2>1, OneOut
  <2> HIDE DEF k
  <2>4. LeftWithout(s \ {k}, left[s \ {k}])
    BY <1>5, <2>3
  <2> QED  BY <2>2, <2>3, <2>4, LeftStep
<1> HIDE DEF N
<1>6. Nat \subseteq N
  BY <1>4, <1>5, NatInd
<1> QED  BY <1>1, <1>3, <1>6 DEF N

\* A list holds the keys of the entries, each once, in the order of their uses.
Lists(list, entries, pairs) ==
    Single(list) /\ L!Held(list) = KeysOf(entries) /\ L!Before(list) = pairs

\* The inductive invariant of the list.
ListInv ==
    /\ lruSize \in LruSizes /\ resizing \in BOOLEAN /\ lapsed \in BOOLEAN
    /\ Good(lru)
    /\ lruSize = 0 => lru = L!EmptyList
    /\ resizing => lruSize # 0
    /\ used \subseteq Keys \X Keys
    /\ lapsed \/ lruSize = 0 => used = {}
    /\ ~lapsed /\ lruSize # 0 => /\ Lists(lru, Entries, used)
                                 /\ resizing \/ Cardinality(Entries) <= lruSize

\* Keys and entries are the same, as long as nothing lapsed.
LEMMA KeysAndEntries ==
    ASSUME Inv, ~lapsed
    PROVE  /\ \A k \in Keys : /\ Has(k) <=> Place(k) \in Entries
                              /\ Has(k) <=> k \in KeysOf(Entries)
           /\ \A p, q \in Entries : p[2] = q[2] => p = q
           /\ IsFiniteSet(KeysOf(Entries))
           /\ Cardinality(KeysOf(Entries)) = Cardinality(Entries)
<1>1. \A p \in Entries : Place(p[2]) = p
  BY DEF Inv, HomeInv
<1>2. ASSUME NEW k \in Keys
      PROVE  /\ Has(k) <=> Place(k) \in Entries
             /\ Has(k) <=> k \in KeysOf(Entries)
  <2>1. Place(k) \in Shards \X Keys /\ Place(k)[1] = getKeyStoreHash(k) /\ Place(k)[2] = k
    BY PlaceType DEF Inv
  <2>2. Has(k) <=> Place(k) \in Entries
    BY <2>1 DEF Has, Entry, Entries
  <2>3. k \in KeysOf(Entries) => Place(k) \in Entries
    BY <1>1 DEF KeysOf
  <2>4. Place(k) \in Entries => k \in KeysOf(Entries)
    BY <2>1 DEF KeysOf
  <2> QED  BY <2>2, <2>3, <2>4
<1>3. \A p, q \in Entries : p[2] = q[2] => p = q
  BY <1>1
<1>4. /\ IsFiniteSet(KeysOf(Entries))
      /\ Cardinality(KeysOf(Entries)) = Cardinality(Entries)
  <2> DEFINE f == [p \in Entries |-> p[2]]
  <2>1. f \in Bijection(Entries, KeysOf(Entries))
    BY <1>3 DEF Bijection, Injection, Surjection, IsInjective, KeysOf
  <2>2. ExistsBijection(Entries, KeysOf(Entries))
    BY <2>1 DEF ExistsBijection
  <2>3. IsFiniteSet(Entries)
    BY DEF Inv, StoreInv
  <2> QED  BY <2>2, <2>3, FS_Bijection
<1> QED  BY <1>2, <1>3, <1>4

\* The keys of the entries left when some go.
LEMMA KeysGone ==
    ASSUME Inv, ~lapsed, NEW places, \A p \in places : Place(p[2]) = p
    PROVE  KeysOf(Entries \ places) = KeysOf(Entries) \ KeysOf(places)
<1>1. \A p \in Entries : Place(p[2]) = p
  BY DEF Inv, HomeInv
<1> QED  BY <1>1 DEF KeysOf

\* There are no more entries when some are gone.
LEMMA EntriesShrink ==
    ASSUME Inv, NEW places
    PROVE  /\ IsFiniteSet(Entries) /\ Cardinality(Entries) \in Nat
           /\ Cardinality(Entries \ places) \in Nat
           /\ Cardinality(Entries \ places) <= Cardinality(Entries)
<1>1. IsFiniteSet(Entries) /\ Entries \ places \in SUBSET Entries
  BY DEF Inv, StoreInv
<1>2. IsFiniteSet(Entries \ places) /\ Cardinality(Entries \ places) <= Cardinality(Entries)
  BY <1>1, FS_Subset
<1> QED  BY <1>1, <1>2, FS_CardinalityType

\* The list after entries have gone, their keys taken out of it.
LEMMA ListDrop ==
    ASSUME Inv, ListInv, NEW places, ~lapsed => \A p \in places : Place(p[2]) = p,
           Entries' = Entries \ places, UNCHANGED <<lruSize, resizing, lapsed>>,
           LeftWithout(KeysOf(places), lru'), Remember(UsedWithout(KeysOf(places)))
    PROVE  ListInv'
<1> DEFINE gone == KeysOf(places)
           E == Entries \ places
<1>0. lruSize \in Nat
  BY CacheableMemoryAssumption DEF ListInv
<1>1. Good(lru') /\ (lruSize = 0 => lru' = L!EmptyList)
  BY DEF ListInv, LeftWithout
<1>2. used' = IF lapsed \/ lruSize = 0 THEN {} ELSE UsedWithout(gone)
  BY DEF Remember
<1>3. used' \subseteq Keys \X Keys /\ (lapsed \/ lruSize = 0 => used' = {})
  BY <1>2 DEF ListInv, UsedWithout
<1>4. ASSUME ~lapsed, lruSize # 0
      PROVE  Lists(lru', E, used') /\ (resizing \/ Cardinality(E) <= lruSize)
  <2>1. KeysOf(E) = KeysOf(Entries) \ gone
    BY <1>4, KeysGone
  <2>2. Lists(lru, Entries, used) /\ (resizing \/ Cardinality(Entries) <= lruSize)
    BY <1>4 DEF ListInv
  <2>3. /\ Single(lru') /\ L!Held(lru') = L!Held(lru) \ gone
        /\ L!Before(lru') = {p \in L!Before(lru) : p[1] \notin gone /\ p[2] \notin gone}
    BY <1>4, <2>2 DEF LeftWithout, Lists
  <2>4. Lists(lru', E, used')
    BY <1>2, <1>4, <2>1, <2>2, <2>3 DEF Lists, UsedWithout
  <2>5. resizing \/ Cardinality(E) <= lruSize
    BY <1>0, <2>2, EntriesShrink
  <2> QED  BY <2>4, <2>5
<1> HIDE DEF E
<1>5. Entries' = E
  BY DEF E
<1> QED  BY <1>1, <1>3, <1>4, <1>5 DEF ListInv

\* The list after a key was used.
LEMMA ListUse ==
    ASSUME Inv, ListInv, NEW k \in Keys, Has(k), Entries' = Entries,
           lru' = lruMoveToFront(lru, k), UNCHANGED <<lruSize, resizing, lapsed>>,
           Remember(UsedLast(k, {}))
    PROVE  ListInv'
<1>1. CASE lruSize = 0
  <2>1. lru' = lru /\ used' = {}
    BY <1>1 DEF lruMoveToFront, Remember
  <2> QED  BY <1>1, <2>1 DEF ListInv
<1>2. CASE lruSize # 0
  <2> DEFINE m == L!moveToFront(lru, k)
  <2>1. lru' = m
    BY <1>2 DEF lruMoveToFront
  <2>2. /\ Good(m) /\ L!Held(m) = L!Held(lru)
        /\ Single(lru) /\ k \in L!Held(lru) =>
               /\ Single(m)
               /\ L!Before(m) = Apart(L!Before(lru), k) \cup ({k} \X (L!Held(lru) \ {k}))
    BY MoveIs DEF ListInv
  <2> HIDE DEF m
  <2>3. used' = IF lapsed THEN {} ELSE UsedLast(k, {})
    BY <1>2 DEF Remember
  <2>4. KeysOf(Entries) \subseteq Keys
    BY DEF KeysOf, Entries
  <2>5. used' \subseteq Keys \X Keys /\ (lapsed => used' = {})
    BY <2>3, <2>4 DEF ListInv, UsedLast, UsedWithout
  <2>6. ASSUME ~lapsed PROVE Lists(m, Entries, used')
    <3>1. Lists(lru, Entries, used)
      BY <1>2, <2>6 DEF ListInv
    <3>2. k \in L!Held(lru)
      BY <2>6, <3>1, KeysAndEntries DEF Lists
    <3> QED  BY <2>2, <2>3, <2>6, <3>1, <3>2 DEF Lists, UsedLast, UsedWithout, Apart
  <2> QED  BY <1>2, <2>1, <2>2, <2>5, <2>6 DEF ListInv
<1> QED  BY <1>1, <1>2

\* What one oldest key leaves, taken out by removeOldest and looked for again.
LEMMA EvictedIs ==
    ASSUME NEW l, Good(l), CanEvict(l), lruSize # 0
    PROVE  LET k == L!getOldest(l)
               m == Evicted(l)
           IN  /\ k \in Keys
               /\ Good(m) /\ L!Held(m) = L!Held(l) \ {k}
               /\ Single(l) => /\ Single(m) /\ L!Before(m) = Apart(L!Before(l), k)
                               /\ k \in L!Held(l)
                               /\ \A w \in L!Held(l) \ {k} : <<w, k>> \in L!Before(l)
<1> DEFINE k == L!getOldest(l)
           o == L!removeOldest(l)
           m == L!remove(o, k)
<1>1. l.tail # undefined
  BY NoOldest DEF CanEvict
<1>2. /\ k \in Keys
      /\ Good(o) /\ L!Held(o) = L!Held(l) \ {k}
      /\ Single(l) => /\ Single(o) /\ L!Before(o) = Apart(L!Before(l), k)
                      /\ k \in L!Held(l)
                      /\ \A w \in L!Held(l) \ {k} : <<w, k>> \in L!Before(l)
  BY <1>1, OldestIs
<1>3. Evicted(l) = m
  BY DEF Evicted, lruRemove
<1> HIDE DEF k, o, m
<1>4. /\ Good(m) /\ L!Held(m) = L!Held(o) \ {k}
      /\ Single(o) => Single(m) /\ L!Before(m) = Apart(L!Before(o), k)
  BY <1>2, RemoveIs DEF m
<1>5. Apart(Apart(L!Before(l), k), k) = Apart(L!Before(l), k)
  BY DEF Apart
<1> QED  BY <1>2, <1>3, <1>4, <1>5 DEF k

\* Nobody can evict from a list that is turned off.
LEMMA EvictsFromList == ASSUME ListInv, CanEvict(lru) PROVE lruSize # 0
BY DEF ListInv, CanEvict, L!getOldest, L!EmptyList

\* Keys and numbers of the entries when one is added and some are gone.
LEMMA KeysAdd ==
    ASSUME Inv, ~lapsed, NEW k \in Keys, ~Has(k), NEW gone, \A p \in gone : Place(p[2]) = p
    PROVE  LET E == (Entries \ gone) \cup {Place(k)}
           IN  /\ KeysOf(E) = (KeysOf(Entries) \ KeysOf(gone)) \cup {k}
               /\ Cardinality(E) = Cardinality(Entries \ gone) + 1
<1>1. Place(k)[2] = k
  BY PlaceType DEF Inv
<1>2. KeysOf(Entries \ gone) = KeysOf(Entries) \ KeysOf(gone)
  BY KeysGone
<1>3. Place(k) \notin Entries /\ IsFiniteSet(Entries)
  BY KeysAndEntries DEF Inv, StoreInv
<1>4. IsFiniteSet(Entries \ gone)
  BY <1>3, FS_Subset, Entries \ gone \in SUBSET Entries
<1>5. Cardinality((Entries \ gone) \cup {Place(k)}) = Cardinality(Entries \ gone) + 1
  BY <1>3, <1>4, FS_AddElement
<1>6. KeysOf((Entries \ gone) \cup {Place(k)}) = KeysOf(Entries \ gone) \cup {k}
  BY <1>1 DEF KeysOf
<1> QED  BY <1>2, <1>5, <1>6

\* The list after an entry was added, another perhaps making room for it.
LEMMA ListAdd ==
    ASSUME Inv, ListInv, NEW k \in Keys, AddUnlisted(k) \/ AddListed(k)
    PROVE  ListInv'
<1> DEFINE list == L!addToFront(lru, k)
           old == L!getOldest(list)
<1>0. /\ ~Has(k) /\ UNCHANGED <<lruSize, resizing>>
      /\ lruSize \in Nat /\ lapsed \in BOOLEAN
  BY CacheableMemoryAssumption DEF AddUnlisted, AddListed, Added, settings, ListInv
<1>1. KeysOf(Entries) \subseteq Keys /\ KeysOf({}) = {}
  BY DEF KeysOf, Entries
<1>2. \A gone : /\ UsedLast(k, gone) \subseteq Keys \X Keys
  BY <1>1 DEF ListInv, UsedLast, UsedWithout
<1>3. CASE AddUnlisted(k)
  <2>1. lru' = lru /\ lruSize = 0 /\ used' = {} /\ lapsed' = lapsed
    BY <1>0, <1>3 DEF AddUnlisted, Added, Remember
  <2> QED  BY <1>0, <2>1 DEF ListInv
<1>4. CASE AddListed(k)
  <2>0. lruSize # 0 /\ L!HasRoom(lru, k) /\ Good(lru)
    BY <1>4 DEF AddListed, ListInv
  <2>1. /\ Good(list) /\ L!Held(list) = L!Held(lru) \cup {k}
        /\ Single(lru) /\ k \notin L!Held(lru) =>
               /\ Single(list)
               /\ L!Before(list) = L!Before(lru) \cup ({k} \X L!Held(lru))
    BY <2>0, AddIs
  <2>2. \/ /\ L!size(list) <= lruSize
           /\ UNCHANGED lapsed
           /\ Added(k, list, {})
        \/ /\ L!size(list) > lruSize /\ CanEvict(list)
           /\ UNCHANGED lapsed
           /\ Added(k, Evicted(list), {Place(old)})
        \/ /\ lapsed' = TRUE
           /\ Added(k, list, {})
    BY <1>4 DEF AddListed
  <2> HIDE DEF list, old
  <2>3. ASSUME ~lapsed
        PROVE  /\ Lists(lru, Entries, used) /\ k \notin KeysOf(Entries)
               /\ Single(list) /\ L!Held(list) = KeysOf(Entries) \cup {k}
               /\ L!Before(list) = used \cup ({k} \X KeysOf(Entries))
               /\ \A p \in used : /\ p[1] \in KeysOf(Entries) /\ p[2] \in KeysOf(Entries)
                                  /\ p[1] # k /\ p[2] # k
    <3>1. Lists(lru, Entries, used)
      BY <2>0, <2>3 DEF ListInv
    <3>2. k \notin KeysOf(Entries)
      BY <1>0, <2>3, KeysAndEntries
    <3>3. \A p \in used : p[1] \in KeysOf(Entries) /\ p[2] \in KeysOf(Entries)
      BY <2>0, <3>1, BeforeHeld DEF Lists
    <3> QED  BY <2>1, <3>1, <3>2, <3>3 DEF Lists
  <2>4. CASE lapsed' = TRUE /\ Added(k, list, {})
    <3>1. lru' = list /\ used' = {}
      BY <2>4 DEF Added, Remember
    <3> QED  BY <1>0, <2>0, <2>1, <2>4, <3>1 DEF ListInv
  <2>5. CASE L!size(list) <= lruSize /\ UNCHANGED lapsed /\ Added(k, list, {})
    <3>1. lru' = list /\ used' = IF lapsed THEN {} ELSE UsedLast(k, {})
      BY <1>0, <1>1, <2>0, <2>5 DEF Added, Remember
    <3>2. Entries' = (Entries \ {}) \cup {Place(k)}
      BY <1>0, <2>5, AddStep DEF Inv
    <3>3. ASSUME ~lapsed
          PROVE  /\ Lists(list, (Entries \ {}) \cup {Place(k)}, used')
                 /\ Cardinality((Entries \ {}) \cup {Place(k)}) <= lruSize
      <4>1. /\ KeysOf((Entries \ {}) \cup {Place(k)}) = (KeysOf(Entries) \ KeysOf({})) \cup {k}
            /\ Cardinality((Entries \ {}) \cup {Place(k)}) = Cardinality(Entries \ {}) + 1
        BY <1>0, <3>3, KeysAdd
      <4>2. used' = used \cup ({k} \X KeysOf(Entries))
        BY <2>3, <3>1, <3>3 DEF UsedLast, UsedWithout
      <4>3. Lists(list, (Entries \ {}) \cup {Place(k)}, used')
        BY <1>1, <2>3, <3>3, <4>1, <4>2 DEF Lists
      <4>4. Cardinality(KeysOf(Entries) \cup {k}) = Cardinality(Entries) + 1
        BY <2>3, <3>3, KeysAndEntries, FS_AddElement
      <4>5. L!size(list) = Cardinality(KeysOf(Entries) \cup {k})
        BY <2>3, <3>3, SameCardinality DEF L!size
      <4>6. Entries \ {} = Entries
        OBVIOUS
      <4>7. Cardinality((Entries \ {}) \cup {Place(k)}) <= lruSize
        BY <2>5, <4>1, <4>4, <4>5, <4>6
      <4> QED  BY <4>3, <4>7
    <3>4. used' \subseteq Keys \X Keys /\ (lapsed => used' = {})
      BY <1>2, <3>1
    <3> QED  BY <1>0, <2>0, <2>1, <2>5, <3>1, <3>2, <3>3, <3>4 DEF ListInv
  <2>6. CASE /\ L!size(list) > lruSize /\ CanEvict(list)
             /\ UNCHANGED lapsed
             /\ Added(k, Evicted(list), {Place(old)})
    <3> DEFINE gone == {Place(old)}
               E == (Entries \ gone) \cup {Place(k)}
               m == Evicted(list)
    <3>1. /\ old \in Keys
          /\ Good(m) /\ L!Held(m) = L!Held(list) \ {old}
          /\ Single(list) => /\ Single(m) /\ L!Before(m) = Apart(L!Before(list), old)
                             /\ old \in L!Held(list)
                             /\ \A w \in L!Held(list) \ {old} : <<w, old>> \in L!Before(list)
      BY <2>0, <2>1, <2>6, EvictedIs DEF old
    <3> HIDE DEF m
    <3>a. Place(old)[2] = old /\ KeysOf(gone) = {old}
      BY <3>1, PlaceType DEF Inv, KeysOf
    <3>2. lru' = m /\ used' = IF lapsed THEN {} ELSE UsedLast(k, {old})
      BY <1>0, <2>0, <2>6, <3>a DEF Added, Remember, m
    <3>3. Entries' = E
      BY <1>0, <2>6, AddStep DEF Inv
    <3>4. ASSUME ~lapsed
          PROVE  Lists(m, E, used') /\ (resizing \/ Cardinality(E) <= lruSize)
      <4>0. \A p \in gone : Place(p[2]) = p
        BY <3>a
      <4>1. /\ KeysOf(E) = (KeysOf(Entries) \ KeysOf(gone)) \cup {k}
            /\ Cardinality(E) = Cardinality(Entries \ gone) + 1
        BY <1>0, <3>4, <4>0, KeysAdd
      <4>2. old # k
        <5> SUFFICES ASSUME old = k PROVE FALSE
          OBVIOUS
        <5>1. KeysOf(Entries) = {}
          <6>1. ASSUME NEW w \in KeysOf(Entries) PROVE FALSE
            <7>1. w # k /\ w \in L!Held(list)
              BY <2>3, <3>4
            <7>2. <<w, k>> \in used \cup ({k} \X KeysOf(Entries))
              BY <2>3, <3>1, <3>4, <7>1
            <7>3. <<w, k>>[2] # k
              BY <2>3, <3>4, <7>1, <7>2
            <7> QED  BY <7>3
          <6> QED  BY <6>1
        <5>2. L!size(list) = 1
          <6>1. L!size(list) = Cardinality({k})
            BY <2>3, <3>4, <5>1, SameCardinality DEF L!size
          <6> QED  BY <6>1, FS_Singleton
        <5> QED  BY <1>0, <2>0, <2>6, <5>2
      <4>3. old \in KeysOf(Entries)
        BY <2>3, <3>1, <3>4, <4>2
      <4>4. KeysOf(E) = L!Held(m)
        BY <2>3, <3>1, <3>4, <3>a, <4>1, <4>2
      <4>5. L!Before(m) = used'
        <5>1. L!Before(m) = Apart(used \cup ({k} \X KeysOf(Entries)), old)
          BY <2>3, <3>1, <3>4
        <5>2. UsedWithout({old} \cup {k}) = Apart(used, old)
          BY <2>3, <3>4 DEF UsedWithout, Apart
        <5>3. used' = Apart(used, old) \cup ({k} \X (KeysOf(Entries) \ ({old} \cup {k})))
          BY <3>2, <3>4, <5>2 DEF UsedLast
        <5>4. Apart(used \cup ({k} \X KeysOf(Entries)), old)
                = Apart(used, old) \cup ({k} \X (KeysOf(Entries) \ {old}))
          BY <4>2 DEF Apart
        <5>5. KeysOf(Entries) \ ({old} \cup {k}) = KeysOf(Entries) \ {old}
          BY <2>3, <3>4
        <5> QED  BY <5>1, <5>3, <5>4, <5>5
      <4>6. resizing \/ Cardinality(E) <= lruSize
        <5>1. Place(old) \in Entries
          BY <3>1, <3>4, <4>3, KeysAndEntries
        <5>2. IsFiniteSet(Entries)
          BY DEF Inv, StoreInv
        <5>3. Cardinality(Entries \ gone) = Cardinality(Entries) - 1
          BY <5>1, <5>2, FS_RemoveElement
        <5>4. Cardinality(E) = Cardinality(Entries)
          BY <4>1, <5>2, <5>3, FS_CardinalityType
        <5>5. resizing \/ Cardinality(Entries) <= lruSize
          BY <2>0, <3>4 DEF ListInv
        <5> QED  BY <5>4, <5>5
      <4> QED  BY <2>3, <3>1, <3>4, <4>4, <4>5, <4>6 DEF Lists
    <3>5. used' \subseteq Keys \X Keys /\ (lapsed => used' = {})
      BY <1>2, <3>2
    <3> HIDE DEF E
    <3> QED  BY <1>0, <2>0, <2>6, <3>1, <3>2, <3>3, <3>4, <3>5 DEF ListInv
  <2> QED  BY <2>2, <2>4, <2>5, <2>6
<1> QED  BY <1>3, <1>4

\* An empty list fits no entries.
LEMMA EmptyFits == Lists(L!EmptyList, {}, {})
BY EmptyIs DEF Lists, KeysOf

\* In the beginning the list fits the entries.
LEMMA ListInit == Init => ListInv
<1> SUFFICES ASSUME Init PROVE ListInv
  OBVIOUS
<1>1. Entries = {}
  BY DEF Init, NoEntries, Entries
<1>2. lruSize \in Nat /\ Cardinality(Entries) = 0
  BY <1>1, FS_EmptySet, CacheableMemoryAssumption DEF Init
<1>3. Lists(lru, Entries, used) /\ Cardinality(Entries) <= lruSize
  BY <1>1, <1>2, EmptyFits DEF Init
<1> QED  BY <1>3, EmptyIs DEF Init, ListInv

\* Every step keeps the list in step with the maps.
LEMMA ListStep == Inv /\ ListInv /\ [Next]_vars => ListInv'
<1> SUFFICES ASSUME Inv, ListInv, [Next]_vars PROVE ListInv'
  OBVIOUS
<1>0. Good(lru) /\ lruSize \in LruSizes /\ LruSizes \subseteq Nat /\ lapsed \in BOOLEAN
  BY CacheableMemoryAssumption DEF ListInv
<1>1. ASSUME NEW k \in Keys
      PROVE  /\ KeysOf({Place(k)}) = {k}
             /\ \A p \in {Place(k)} : Place(p[2]) = p
             /\ LeftWithout({k}, lruRemove(lru, k))
             /\ LeftWithout({k}, lruRemove(lruMoveToFront(lru, k), k))
  <2>1. Place(k)[2] = k
    BY PlaceType DEF Inv
  <2>2. LeftWithout({k} \ {k}, lru)
    BY <1>0 DEF LeftWithout
  <2>3. LeftWithout({k}, lruRemove(lru, k))
    BY <2>2, LeftStep
  <2>4. LeftWithout({k}, lruRemove(lruMoveToFront(lru, k), k))
    <3>1. CASE lruSize = 0
      BY <2>3, <3>1 DEF lruMoveToFront
    <3>2. CASE k \notin L!Held(lru)
      <4>1. L!moveToFront(lru, k) = lru
        BY <3>2 DEF L!moveToFront, L!Held
      <4> QED  BY <2>3, <4>1 DEF lruMoveToFront
    <3>3. CASE lruSize # 0 /\ k \in L!Held(lru)
      <4> DEFINE m == L!moveToFront(lru, k)
                 r == L!remove(m, k)
      <4>1. /\ Good(m) /\ L!Held(m) = L!Held(lru)
            /\ Single(lru) => /\ Single(m)
                              /\ L!Before(m) = Apart(L!Before(lru), k)
                                                 \cup ({k} \X (L!Held(lru) \ {k}))
        BY <1>0, <3>3, MoveIs
      <4> HIDE DEF m
      <4>2. /\ Good(r) /\ L!Held(r) = L!Held(m) \ {k}
            /\ Single(m) => Single(r) /\ L!Before(r) = Apart(L!Before(m), k)
        BY <4>1, RemoveIs
      <4>3. lruRemove(lruMoveToFront(lru, k), k) = r
        BY <3>3 DEF lruRemove, lruMoveToFront, m
      <4> HIDE DEF r
      <4>4. Single(lru) =>
              L!Before(r) = {p \in L!Before(lru) : p[1] \notin {k} /\ p[2] \notin {k}}
        BY <4>1, <4>2 DEF Apart
      <4> QED  BY <3>3, <4>1, <4>2, <4>3, <4>4 DEF LeftWithout
    <3> QED  BY <3>1, <3>2, <3>3
  <2> QED  BY <2>1, <2>3, <2>4 DEF KeysOf
<1>2. ASSUME NEW k \in Keys, Expired(k) PROVE ListInv'
  <2>1. Entries' = Entries \ {Place(k)}
    BY <1>2, WithoutEntries DEF Expired, Inv
  <2>2. /\ LeftWithout(KeysOf({Place(k)}), lru') /\ UNCHANGED <<lruSize, resizing, lapsed>>
        /\ Remember(UsedWithout(KeysOf({Place(k)})))
    BY <1>1, <1>2 DEF Expired, settings
  <2> QED  BY <1>1, <2>1, <2>2, ListDrop
<1>3. ASSUME NEW k \in Keys, get(k) PROVE ListInv'
  <2>1. CASE Entry(k) = "live" /\ lru' = lruMoveToFront(lru, k)
             /\ UNCHANGED <<store, count, settings, resizing, lapsed>>
             /\ Remember(UsedLast(k, {}))
    <3>1. Has(k) /\ Entries' = Entries /\ UNCHANGED <<lruSize, resizing, lapsed>>
      BY <2>1 DEF Has, Entries, settings
    <3> QED  BY <2>1, <3>1, ListUse
  <2> QED  BY <1>2, <1>3, <2>1 DEF get
<1>4. ASSUME NEW k \in Keys, take(k) \/ delete(k) PROVE ListInv'
  <2>1. PICK list \in {lru, lruMoveToFront(lru, k)} : Removed(k, list)
    BY <1>4 DEF take, delete
  <2>2. Entries' = Entries \ {Place(k)}
    BY <2>1, WithoutEntries DEF Removed, Inv
  <2>3. /\ LeftWithout(KeysOf({Place(k)}), lru') /\ UNCHANGED <<lruSize, resizing, lapsed>>
        /\ Remember(UsedWithout(KeysOf({Place(k)})))
    BY <1>1, <2>1 DEF Removed, settings
  <2> QED  BY <1>1, <2>2, <2>3, ListDrop
<1>5. ASSUME NEW k \in Keys, set(k) PROVE ListInv'
  <2>1. CASE Overwrite(k)
    <3>1. /\ Has(k) /\ getKeyStoreHash(k) \in Shards
          /\ store' = [store EXCEPT ![getKeyStoreHash(k)][k] = "live"]
          /\ UNCHANGED <<count, storeHashSize, storeHashAlgorithm>>
      BY <2>1, PlaceType DEF Overwrite, settings, Inv
    <3>2. Entries' = Entries
      BY <3>1, AlterStep DEF Has, Entry, Inv, StoreInv
    <3>3. /\ lru' = lruMoveToFront(lru, k) /\ UNCHANGED <<lruSize, resizing, lapsed>>
          /\ Remember(UsedLast(k, {}))
      BY <2>1 DEF Overwrite, settings
    <3> QED  BY <3>1, <3>2, <3>3, ListUse
  <2> QED  BY <1>5, <2>1, ListAdd DEF set
<1>6. CASE clear
  <2>1. Entries' = {}
    BY <1>6 DEF clear, NoEntries, Entries
  <2>2. Cardinality({}) = 0
    BY FS_EmptySet
  <2>3. /\ lru' = L!EmptyList /\ lapsed' = FALSE /\ used' = {}
        /\ UNCHANGED <<lruSize, resizing>> /\ resizing \in BOOLEAN
    BY <1>6 DEF clear, settings, ListInv
  <2>4. Lists(lru', Entries', used') /\ Cardinality(Entries') <= lruSize'
    BY <1>0, <2>1, <2>2, <2>3, EmptyFits
  <2> QED  BY <1>0, <2>3, <2>4, EmptyIs DEF ListInv
<1>7. CASE checkExpiration
  <2> DEFINE old == {p \in Entries : store[p[1]][p[2]] = "expired"}
             S == KeysOf(old)
  <2>1. Entries' = Entries \ old
    BY <1>7, WithoutEntries DEF checkExpiration, Inv
  <2>2. S \in SUBSET Keys /\ IsFiniteSet(S)
    <3>1. IsFiniteSet(old)
      BY FS_Subset, old \in SUBSET Entries DEF Inv, StoreInv
    <3> DEFINE f == [p \in old |-> p[2]]
    <3>2. f \in Surjection(old, S)
      BY DEF Surjection, KeysOf
    <3>3. IsFiniteSet(S)
      BY <3>1, <3>2, FS_Surjection DEF ExistsSurjection
    <3> QED  BY <3>3 DEF KeysOf, Entries
  <2>3. ~lapsed => \A p \in old : Place(p[2]) = p
    BY DEF Inv, HomeInv
  <2>4. /\ lru' = lruRemoveAll(S) /\ UNCHANGED <<lruSize, resizing, lapsed>>
        /\ Remember(UsedWithout(S))
    BY <1>7 DEF checkExpiration, settings
  <2> HIDE DEF old
  <2>5. LeftWithout(S, lruRemoveAll(S))
    BY <1>0, <2>2, RemoveAllIs
  <2>6. LeftWithout(KeysOf(old), lru')
    BY <2>4, <2>5
  <2> QED  BY <2>1, <2>3, <2>4, <2>6, ListDrop
<1>8. ASSUME NEW n \in LruSizes, SetLruSize(n) PROVE ListInv'
  <2>1. Entries' = Entries
    BY <1>8 DEF SetLruSize, Entries
  <2>2. /\ lruSize' = n /\ n \in Nat /\ resizing' = (n # 0)
        /\ lru' = IF n = 0 THEN L!EmptyList ELSE lru
        /\ lapsed' = (lapsed \/ (lruSize = 0 /\ n # 0 /\ Entries # {}))
        /\ used' = IF lapsed' \/ lruSize' = 0 THEN {} ELSE used
    BY <1>0, <1>8 DEF SetLruSize, Remember
  <2>3. Good(lru') /\ (lruSize' = 0 => lru' = L!EmptyList)
    BY <1>0, <2>2, EmptyIs
  <2>4. ASSUME ~lapsed', lruSize' # 0 PROVE Lists(lru', Entries, used') /\ resizing'
    <3>1. ~lapsed /\ lru' = lru /\ used' = used /\ resizing'
      BY <2>2, <2>4
    <3>2. CASE lruSize = 0
      BY <2>2, <2>4, <3>1, <3>2, EmptyFits DEF ListInv
    <3>3. CASE lruSize # 0
      BY <3>1, <3>3 DEF ListInv
    <3> QED  BY <3>1, <3>2, <3>3
  <2>5. /\ used' \subseteq Keys \X Keys /\ (lapsed' \/ lruSize' = 0 => used' = {})
        /\ resizing' \in BOOLEAN /\ lapsed' \in BOOLEAN /\ lruSize' \in LruSizes
        /\ (resizing' => lruSize' # 0)
    BY <2>2 DEF ListInv
  <2> QED  BY <2>1, <2>3, <2>4, <2>5 DEF ListInv
<1>9. CASE lruResize
  <2>0. UNCHANGED <<lruSize, lapsed>> /\ resizing
    BY <1>9 DEF lruResize, settings
  <2>1. CASE /\ L!size(lru) <= lruSize
             /\ resizing' = FALSE
             /\ UNCHANGED <<store, count, lru, used>>
    <3>1. Entries' = Entries
      BY <2>1 DEF Entries
    <3>2. ~lapsed /\ lruSize # 0 => Lists(lru, Entries, used) /\ Cardinality(Entries) <= lruSize
      <4> SUFFICES ASSUME ~lapsed, lruSize # 0
                   PROVE  Lists(lru, Entries, used) /\ Cardinality(Entries) <= lruSize
        OBVIOUS
      <4>1. Lists(lru, Entries, used)
        BY DEF ListInv
      <4>2. L!size(lru) = Cardinality(KeysOf(Entries))
        BY <4>1, SameCardinality DEF L!size, Lists
      <4> QED  BY <2>1, <4>1, <4>2, KeysAndEntries
    <3> QED  BY <2>0, <2>1, <3>1, <3>2 DEF ListInv
  <2>2. CASE /\ L!size(lru) > lruSize /\ CanEvict(lru)
             /\ store' = Without({Place(L!getOldest(lru))})
             /\ lru' = Evicted(lru)
             /\ UNCHANGED resizing
             /\ Remember(UsedWithout({L!getOldest(lru)}))
    <3> DEFINE k == L!getOldest(lru)
               m == Evicted(lru)
    <3>1. lruSize # 0
      BY <2>2, EvictsFromList
    <3>2. /\ k \in Keys
          /\ Good(m) /\ L!Held(m) = L!Held(lru) \ {k}
          /\ Single(lru) => Single(m) /\ L!Before(m) = Apart(L!Before(lru), k)
      BY <1>0, <2>2, <3>1, EvictedIs
    <3>3. Entries' = Entries \ {Place(k)}
      BY <2>2, WithoutEntries DEF Inv
    <3> HIDE DEF k, m
    <3>4. LeftWithout({k}, m)
      BY <3>1, <3>2 DEF LeftWithout, Apart
    <3>5. /\ LeftWithout(KeysOf({Place(k)}), lru') /\ UNCHANGED <<lruSize, resizing, lapsed>>
          /\ Remember(UsedWithout(KeysOf({Place(k)})))
      BY <1>1, <2>0, <2>2, <3>2, <3>4 DEF k, m
    <3> QED  BY <1>1, <3>2, <3>3, <3>5, ListDrop
  <2>3. CASE UNCHANGED <<store, count, lru, resizing, used>>
    <3>1. Entries' = Entries
      BY <2>3 DEF Entries
    <3> QED  BY <2>0, <2>3, <3>1 DEF ListInv
  <2> QED  BY <1>9, <2>1, <2>2, <2>3 DEF lruResize
<1>10. ASSUME NEW n \in StoreHashSizes, SetStoreHashSize(n) PROVE ListInv'
  <2>1. Entries' = {}
    BY <1>10 DEF SetStoreHashSize, NoEntries, Entries
  <2>2. /\ lapsed' = (lapsed \/ L!Held(lru) # {})
        /\ UNCHANGED <<lru, lruSize, resizing>> /\ used' = {}
    BY <1>10 DEF SetStoreHashSize, Remember
  <2>3. ASSUME ~lapsed', lruSize # 0 PROVE Lists(lru, {}, {})
    <3>1. Single(lru) /\ L!Held(lru) = {} /\ KeysOf({}) = {}
      BY <2>2, <2>3 DEF ListInv, Lists, KeysOf
    <3>2. L!Before(lru) = {}
      BY <1>0, <3>1, BeforeHeld
    <3> QED  BY <3>1, <3>2 DEF Lists
  <2>4. Cardinality({}) = 0
    BY FS_EmptySet
  <2>5. lapsed' \in BOOLEAN
    BY <2>2
  <2> QED  BY <1>0, <2>1, <2>2, <2>3, <2>4, <2>5 DEF ListInv
<1>11. ASSUME NEW a \in HashAlgorithms, SetStoreHashAlgorithm(a) PROVE ListInv'
  <2>1. Entries' = Entries /\ UNCHANGED <<lru, lruSize, resizing>>
    BY <1>11 DEF SetStoreHashAlgorithm, Entries
  <2>2. (lapsed => lapsed') /\ lapsed' \in BOOLEAN
        /\ used' = IF lapsed' \/ lruSize' = 0 THEN {} ELSE used
    BY <1>11 DEF SetStoreHashAlgorithm, Remember
  <2> QED  BY <2>1, <2>2 DEF ListInv
<1>12. ASSUME NEW p \in Shards \X Keys, Expire(p) PROVE ListInv'
  <2>1. p[1] \in Shards /\ p[2] \in Keys
    OBVIOUS
  <2>2. Entries' = Entries
    BY <1>12, <2>1, AlterStep DEF Expire, settings, Inv, StoreInv
  <2> QED  BY <1>12, <2>2 DEF Expire, settings, ListInv
<1>13. CASE UNCHANGED vars
  <2>1. Entries' = Entries
    BY <1>13 DEF vars, Entries
  <2> QED  BY <1>13, <2>1 DEF vars, settings, ListInv
<1> QED
  BY <1>3, <1>4, <1>5, <1>6, <1>7, <1>8, <1>9, <1>10, <1>11, <1>12, <1>13 DEF Next

\* No step takes a variable out of its type.
THEOREM MemoryTyping == Spec => []TypeOK
<1>1. Inv /\ ListInv => TypeOK
  <2> SUFFICES ASSUME Inv, ListInv PROVE TypeOK
    OBVIOUS
  <2>1. count \in Nat
    BY FS_CardinalityType DEF Inv, StoreInv
  <2>2. lru \in L!Lists
    BY DEF ListInv, Good, Tidy
  <2> QED  BY <2>1, <2>2 DEF Inv, StoreInv, ListInv, TypeOK
<1> QED  BY InvInit, InvStep, ListInit, ListStep, <1>1, PTL DEF Spec

\* The pointers of the list are sound, and map, list and count describe the
\* same entries in the same order, whatever was called or set: Consistent.
THEOREM MapsAgree == Spec => []Consistent
<1>1. Inv /\ ListInv => Consistent
  <2> SUFFICES ASSUME Inv, ListInv PROVE Consistent
    OBVIOUS
  <2>1. ListSound
    BY GoodSound DEF ListInv, ListSound
  <2>2. CountIsSize
    BY DEF Inv, StoreInv, CountIsSize, sizeOfCache
  <2>3. ListMatches
    BY DEF Inv, HomeInv, ListInv, Lists, ListMatches, sizeOfCache
  <2> QED  BY <2>1, <2>2, <2>3 DEF Consistent
<1> QED  BY InvInit, InvStep, ListInit, ListStep, <1>1, PTL DEF Spec

-----------------------------------------------------------------------------
(* The promise of LruCache: every step is one it allows.                      *)

\* The keys the cache keeps.
Kept == {k \in Keys : Has(k)}

\* They are the keys of the entries, as long as nothing lapsed.
Known == lapsed \/ Kept = KeysOf(Entries)

\* The keys kept are the keys of the entries.
LEMMA KnownIs == Inv => Known
<1> SUFFICES ASSUME Inv, ~lapsed PROVE Kept = KeysOf(Entries)
  BY DEF Known
<1>1. KeysOf(Entries) \subseteq Keys
  BY DEF KeysOf, Entries
<1> QED  BY <1>1, KeysAndEntries DEF Kept

\* LruCache counts as everybody does.
LEMMA AbstractCardinality == \A S : Abstract!Cardinality(S) = Cardinality(S)
BY DEF Abstract!Cardinality, Cardinality

\* The promise allows keys to go.
LEMMA AbsDrop ==
    ASSUME ~lapsed, ~resizing, NEW gone \in SUBSET Keys, Kept' = Kept \ gone,
           used' = UsedWithout(gone), UNCHANGED <<lruSize, resizing, lapsed>>
    PROVE  Abstract!Next
<1>1. Abstract!Drop(gone)
  BY DEF Abstract!Drop, Abstract!Without, Kept, UsedWithout
<1> QED  BY <1>1 DEF Abstract!Next

\* It allows a key to be used.
LEMMA AbsUse ==
    ASSUME ~lapsed, ~resizing, NEW k \in Kept, Kept' = Kept,
           used' = IF lruSize = 0 THEN {} ELSE UsedWithout({k}) \cup ({k} \X (Kept \ {k})),
           UNCHANGED <<lruSize, resizing, lapsed>>
    PROVE  Abstract!Next
<1>0. {} \cup {k} = {k} /\ k \in Keys
  BY DEF Kept
<1>1. Abstract!Use(k)
  BY <1>0 DEF Abstract!Use, Abstract!UsedLast, Abstract!Without, Kept, UsedWithout
<1> QED  BY <1>0, <1>1 DEF Abstract!Next

\* It allows a key to come while there is room.
LEMMA AbsInsert ==
    ASSUME ~lapsed, ~resizing, NEW k \in Keys, k \notin Kept, Kept' = Kept \cup {k},
           lruSize = 0 \/ Cardinality(Kept) < lruSize,
           used' = IF lruSize = 0 THEN {} ELSE UsedWithout({k}) \cup ({k} \X (Kept \ {k})),
           UNCHANGED <<lruSize, resizing, lapsed>>
    PROVE  Abstract!Next
<1>0. {} \cup {k} = {k}
  OBVIOUS
<1>1. Abstract!Insert(k)
  BY <1>0, AbstractCardinality
  DEF Abstract!Insert, Abstract!UsedLast, Abstract!Without, Kept, UsedWithout
<1> QED  BY <1>1 DEF Abstract!Next

\* It allows a key to take the place of the oldest.
LEMMA AbsReplace ==
    ASSUME ~lapsed, ~resizing, NEW k \in Keys, k \notin Kept, NEW old \in Kept,
           \A j \in Kept \ {old} : <<j, old>> \in used,
           Kept' = (Kept \ {old}) \cup {k}, lruSize # 0, Cardinality(Kept) = lruSize,
           used' = UsedWithout({old} \cup {k}) \cup ({k} \X (Kept \ ({old} \cup {k}))),
           UNCHANGED <<lruSize, resizing, lapsed>>
    PROVE  Abstract!Next
<1>1. Abstract!Oldest(old)
  BY DEF Abstract!Oldest, Kept
<1>2. used' = Abstract!UsedLast(k, {old})
  BY DEF Abstract!UsedLast, Abstract!Without, Kept, UsedWithout
<1>3. Abstract!Replace(k)
  BY <1>1, <1>2, AbstractCardinality DEF Abstract!Replace, Kept
<1> QED  BY <1>3 DEF Abstract!Next

\* The numbers that the list and the promise go by are the same.
LEMMA SizeIsKept ==
    ASSUME Inv, ListInv, ~lapsed, lruSize # 0
    PROVE  /\ Kept = KeysOf(Entries) /\ Kept = L!Held(lru) /\ Single(lru)
           /\ L!Before(lru) = used
           /\ IsFiniteSet(Kept) /\ Cardinality(Kept) \in Nat
           /\ L!size(lru) = Cardinality(Kept)
           /\ resizing \/ Cardinality(Kept) <= lruSize
<1>1. Kept = KeysOf(Entries) /\ Lists(lru, Entries, used)
      /\ (resizing \/ Cardinality(Entries) <= lruSize)
  BY KnownIs DEF Known, ListInv
<1>2. IsFiniteSet(Kept) /\ Cardinality(Kept) = Cardinality(Entries)
  BY <1>1, KeysAndEntries
<1> QED  BY <1>1, <1>2, SameCardinality, FS_CardinalityType DEF Lists, L!size

\* An addition is an insertion, or the replacement of the oldest key.
LEMMA AddImplements ==
    ASSUME Inv, ListInv, Known, Known', ~lapsed, ~lapsed', ~resizing,
           NEW k \in Keys, AddUnlisted(k) \/ AddListed(k)
    PROVE  Abstract!Next
<1> DEFINE list == L!addToFront(lru, k)
           old == L!getOldest(list)
<1>0. ~Has(k) /\ UNCHANGED <<lruSize, resizing>> /\ lruSize \in Nat /\ lapsed' = lapsed
  BY CacheableMemoryAssumption
  DEF AddUnlisted, AddListed, Added, settings, ListInv
<1>1. k \notin Kept /\ Kept = KeysOf(Entries) /\ Kept' = KeysOf(Entries') /\ KeysOf({}) = {}
  BY <1>0 DEF Known, Kept, KeysOf
<1>2. ASSUME NEW gone, \A p \in gone : Place(p[2]) = p, Entries' = (Entries \ gone) \cup {Place(k)}
      PROVE  Kept' = (Kept \ KeysOf(gone)) \cup {k}
  BY <1>0, <1>1, <1>2, KeysAdd
<1>3. CASE AddUnlisted(k)
  <2>1. lruSize = 0 /\ Added(k, lru, {}) /\ used' = {}
    BY <1>0, <1>3 DEF AddUnlisted, Added, Remember
  <2>2. Entries' = (Entries \ {}) \cup {Place(k)}
    BY <1>0, <2>1, AddStep DEF Inv
  <2>3. Kept' = Kept \cup {k}
    BY <1>1, <1>2, <2>2
  <2> QED  BY <1>0, <1>1, <2>1, <2>3, AbsInsert
<1>4. CASE AddListed(k)
  <2>0. lruSize # 0 /\ L!HasRoom(lru, k) /\ Good(lru)
    BY <1>4 DEF AddListed, ListInv
  <2>1. /\ Good(list) /\ L!Held(list) = L!Held(lru) \cup {k}
        /\ Single(lru) /\ k \notin L!Held(lru) =>
               /\ Single(list)
               /\ L!Before(list) = L!Before(lru) \cup ({k} \X L!Held(lru))
    BY <2>0, AddIs
  <2>2. \/ /\ L!size(list) <= lruSize
           /\ Added(k, list, {})
        \/ /\ L!size(list) > lruSize /\ CanEvict(list)
           /\ Added(k, Evicted(list), {Place(old)})
    BY <1>0, <1>4 DEF AddListed
  <2> HIDE DEF list, old
  <2>3. /\ Kept = L!Held(lru) /\ Single(lru) /\ L!Before(lru) = used
        /\ IsFiniteSet(Kept) /\ Cardinality(Kept) \in Nat /\ Cardinality(Kept) <= lruSize
    BY <2>0, SizeIsKept
  <2>4. /\ Single(list) /\ L!Held(list) = Kept \cup {k}
        /\ L!Before(list) = used \cup ({k} \X Kept)
    BY <1>1, <2>1, <2>3
  <2>5. L!size(list) = Cardinality(Kept) + 1
    BY <1>1, <2>3, <2>4, SameCardinality, FS_AddElement DEF L!size
  <2>6. CASE L!size(list) <= lruSize /\ Added(k, list, {})
    <3>1. Entries' = (Entries \ {}) \cup {Place(k)}
      BY <1>0, <2>6, AddStep DEF Inv
    <3>2. Kept' = Kept \cup {k}
      BY <1>1, <1>2, <3>1
    <3>3. used' = UsedLast(k, {})
      BY <1>0, <1>1, <2>0, <2>6 DEF Added, Remember
    <3>4. used' = UsedWithout({k}) \cup ({k} \X (Kept \ {k}))
      BY <1>1, <3>3, {} \cup {k} = {k} DEF UsedLast
    <3>5. Cardinality(Kept) < lruSize
      BY <1>0, <2>3, <2>5, <2>6
    <3> QED  BY <1>0, <1>1, <2>0, <3>2, <3>4, <3>5, AbsInsert
  <2>7. CASE L!size(list) > lruSize /\ CanEvict(list) /\ Added(k, Evicted(list), {Place(old)})
    <3>1. /\ old \in Keys /\ old \in L!Held(list)
          /\ \A w \in L!Held(list) \ {old} : <<w, old>> \in L!Before(list)
      BY <2>0, <2>1, <2>4, <2>7, EvictedIs DEF old
    <3>2. Place(old)[2] = old /\ KeysOf({Place(old)}) = {old}
      BY <3>1, PlaceType DEF Inv, KeysOf
    <3>3. Entries' = (Entries \ {Place(old)}) \cup {Place(k)}
      BY <1>0, <2>7, AddStep DEF Inv
    <3>4. Kept' = (Kept \ {old}) \cup {k}
      BY <1>2, <3>2, <3>3
    <3>5. Cardinality(Kept) = lruSize
      BY <1>0, <2>3, <2>5, <2>7
    <3>6. \A p \in used : p[1] \in Kept /\ p[2] \in Kept
      BY <2>0, <2>3, BeforeHeld
    <3>7. old # k
      <4> SUFFICES ASSUME old = k PROVE FALSE
        OBVIOUS
      <4>1. Kept # {}
        BY <1>0, <2>0, <3>5, FS_EmptySet
      <4>2. PICK w \in Kept : w # k
        BY <1>1, <4>1
      <4>3. <<w, k>> \in used \cup ({k} \X Kept)
        BY <2>4, <3>1, <4>2
      <4>4. <<w, k>>[2] \in Kept
        BY <1>1, <3>6, <4>2, <4>3
      <4> QED  BY <1>1, <4>4
    <3>8. old \in Kept /\ \A j \in Kept \ {old} : <<j, old>> \in used
      BY <1>1, <2>4, <3>1, <3>7
    <3>9. used' = UsedLast(k, {old})
      BY <1>0, <2>0, <2>7, <3>2 DEF Added, Remember
    <3>10. used' = UsedWithout({old} \cup {k}) \cup ({k} \X (Kept \ ({old} \cup {k})))
      BY <1>1, <3>9 DEF UsedLast
    <3> QED  BY <1>0, <1>1, <2>0, <3>4, <3>5, <3>8, <3>10, AbsReplace
  <2> QED  BY <2>2, <2>6, <2>7
<1> QED  BY <1>3, <1>4

\* A turn of lruResize is a turn of trimming, or none.
LEMMA ResizeImplements ==
    ASSUME Inv, ListInv, Known, Known', ~lapsed, lruResize
    PROVE  Abstract!Next \/ UNCHANGED <<Kept, used, lruSize, resizing, lapsed>>
<1>0. UNCHANGED <<lruSize, lapsed>> /\ resizing /\ lruSize \in Nat /\ lruSize # 0
  BY CacheableMemoryAssumption DEF lruResize, settings, ListInv
<1>1. Kept = KeysOf(Entries) /\ Kept' = KeysOf(Entries')
  BY <1>0 DEF Known
<1>2. /\ Kept = L!Held(lru) /\ Single(lru) /\ L!Before(lru) = used
      /\ L!size(lru) = Cardinality(Kept) /\ Cardinality(Kept) \in Nat
  BY <1>0, SizeIsKept
<1>3. CASE /\ L!size(lru) <= lruSize /\ resizing' = FALSE
           /\ UNCHANGED <<store, count, lru, used>>
  <2>1. Entries' = Entries
    BY <1>3 DEF Entries
  <2>2. Kept' = Kept
    BY <1>1, <2>1
  <2>3. ~(Cardinality(Kept) > lruSize)
    BY <1>0, <1>2, <1>3
  <2>4. Abstract!Trim
    BY <1>0, <1>3, <2>2, <2>3, AbstractCardinality DEF Abstract!Trim, Kept
  <2> QED  BY <1>0, <2>4 DEF Abstract!Next
<1>4. CASE /\ L!size(lru) > lruSize /\ CanEvict(lru)
           /\ store' = Without({Place(L!getOldest(lru))})
           /\ lru' = Evicted(lru)
           /\ UNCHANGED resizing
           /\ Remember(UsedWithout({L!getOldest(lru)}))
  <2> DEFINE old == L!getOldest(lru)
  <2>1. /\ old \in Keys /\ old \in Kept
        /\ \A w \in Kept \ {old} : <<w, old>> \in used
    BY <1>0, <1>2, <1>4, EvictedIs DEF ListInv
  <2>2. Entries' = Entries \ {Place(old)}
    BY <1>4, WithoutEntries DEF Inv
  <2>3. used' = UsedWithout({old})
    BY <1>0, <1>4 DEF Remember
  <2> HIDE DEF old
  <2>4. Place(old)[2] = old /\ KeysOf({Place(old)}) = {old}
    BY <2>1, PlaceType DEF Inv, KeysOf
  <2>5. KeysOf(Entries \ {Place(old)}) = KeysOf(Entries) \ {old}
    BY <1>0, <2>4, KeysGone
  <2>6. Kept' = Kept \ {old}
    BY <1>1, <2>2, <2>5
  <2>7. Abstract!Oldest(old)
    BY <2>1 DEF Abstract!Oldest, Kept
  <2>8. Cardinality(Kept) > lruSize
    BY <1>2, <1>4
  <2>9. used' = Abstract!Without({old})
    BY <2>3 DEF Abstract!Without, UsedWithout
  <2>10. Abstract!Trim
    BY <1>0, <1>4, <2>1, <2>6, <2>7, <2>8, <2>9, AbstractCardinality
    DEF Abstract!Trim, Kept
  <2> QED  BY <1>0, <2>10 DEF Abstract!Next
<1>5. CASE UNCHANGED <<store, count, lru, resizing, used>>
  <2>1. Entries' = Entries
    BY <1>5 DEF Entries
  <2> QED  BY <1>0, <1>1, <1>5, <2>1
<1> QED  BY <1>3, <1>4, <1>5 DEF lruResize

\* The keys left when entries have gone, and the uses of them.
LEMMA DropImplements ==
    ASSUME Inv, ListInv, Known, Known', ~lapsed, ~resizing,
           NEW places, \A p \in places : Place(p[2]) = p /\ p[2] \in Keys,
           store' = Without(places), UNCHANGED <<lruSize, resizing, lapsed>>,
           Remember(UsedWithout(KeysOf(places)))
    PROVE  Abstract!Next
<1>1. Entries' = Entries \ places
  BY WithoutEntries DEF Inv
<1>2. KeysOf(Entries \ places) = KeysOf(Entries) \ KeysOf(places)
  BY KeysGone
<1>3. Kept' = Kept \ KeysOf(places)
  BY <1>1, <1>2 DEF Known
<1>4. KeysOf(places) \in SUBSET Keys
  BY DEF KeysOf
<1>5. used' = UsedWithout(KeysOf(places))
  BY DEF Remember, ListInv, UsedWithout
<1> QED  BY <1>3, <1>4, <1>5, AbsDrop

\* The use of a key with an entry.
LEMMA UseImplements ==
    ASSUME Inv, ListInv, Known, Known', ~lapsed, ~resizing, NEW k \in Keys, Has(k),
           Entries' = Entries, UNCHANGED <<lruSize, resizing, lapsed>>,
           Remember(UsedLast(k, {}))
    PROVE  Abstract!Next
<1>1. Kept = KeysOf(Entries) /\ Kept' = KeysOf(Entries')
  BY DEF Known
<1>2. Kept' = Kept /\ k \in Kept
  BY <1>1 DEF Kept
<1>3. used' = IF lruSize = 0 THEN {} ELSE UsedLast(k, {})
  BY DEF Remember
<1>4. UsedLast(k, {}) = UsedWithout({k}) \cup ({k} \X (Kept \ {k}))
  BY <1>1, {} \cup {k} = {k} DEF UsedLast
<1> QED  BY <1>2, <1>3, <1>4, AbsUse

\* Every step is a step of the cache that LruCache describes, or none.
LEMMA StepImplements ==
    Inv /\ ListInv /\ Known /\ Known' /\ [Next]_vars => [Abstract!Next]_(Abstract!vars)
<1> SUFFICES ASSUME Inv, ListInv, Known, Known', [Next]_vars
             PROVE  Abstract!Next \/ UNCHANGED <<Kept, used, lruSize, resizing, lapsed>>
  BY DEF Abstract!vars, Kept
<1>1. CASE lapsed'
  BY <1>1 DEF Abstract!Next
<1>2. CASE clear
  <2>1. Entries' = {} /\ lapsed' = FALSE
    BY <1>2 DEF clear, NoEntries, Entries
  <2>2. Kept' = {}
    BY <2>1 DEF Known, KeysOf
  <2>3. Abstract!Clear
    BY <1>2, <2>2 DEF Abstract!Clear, clear, settings, Kept
  <2> QED  BY <2>3 DEF Abstract!Next
<1>3. CASE ~lapsed' /\ ~clear
  <2>1. ~lapsed
    BY <1>3 DEF Next, vars, settings, get, Expired, take, delete, Removed, set, Overwrite,
       AddUnlisted, AddListed, Added, checkExpiration, SetLruSize, lruResize,
       SetStoreHashSize, SetStoreHashAlgorithm, Expire, ListInv
  <2>2. Kept = KeysOf(Entries) /\ Kept' = KeysOf(Entries')
    BY <1>3, <2>1 DEF Known
  <2>3. ASSUME NEW k \in Keys
        PROVE  /\ KeysOf({Place(k)}) = {k}
               /\ \A p \in {Place(k)} : Place(p[2]) = p /\ p[2] \in Keys
    BY PlaceType DEF Inv, KeysOf
  <2>4. ASSUME NEW k \in Keys, ~resizing, Expired(k) \/ \E list : Removed(k, list)
        PROVE  Abstract!Next
    <3>1. /\ store' = Without({Place(k)}) /\ UNCHANGED <<lruSize, resizing, lapsed>>
          /\ Remember(UsedWithout(KeysOf({Place(k)})))
      BY <2>3, <2>4 DEF Expired, Removed, settings
    <3> QED  BY <2>1, <2>3, <2>4, <3>1, DropImplements
  <2>5. ASSUME NEW k \in Keys, get(k) PROVE Abstract!Next
    <3>1. CASE Entry(k) = "live" /\ UNCHANGED <<store, count, settings, resizing, lapsed>>
               /\ Remember(UsedLast(k, {}))
      <4>1. Has(k) /\ Entries' = Entries /\ UNCHANGED <<lruSize, resizing, lapsed>>
        BY <3>1 DEF Has, Entries, settings
      <4> QED  BY <2>1, <2>5, <3>1, <4>1, UseImplements DEF get
    <3> QED  BY <2>4, <2>5, <3>1 DEF get
  <2>6. ASSUME NEW k \in Keys, take(k) \/ delete(k) PROVE Abstract!Next
    BY <2>4, <2>6 DEF take, delete
  <2>7. ASSUME NEW k \in Keys, set(k) PROVE Abstract!Next
    <3>1. CASE Overwrite(k)
      <4>1. /\ Has(k) /\ getKeyStoreHash(k) \in Shards
            /\ store' = [store EXCEPT ![getKeyStoreHash(k)][k] = "live"]
            /\ UNCHANGED <<count, storeHashSize, storeHashAlgorithm>>
        BY <3>1, PlaceType DEF Overwrite, settings, Inv
      <4>2. Entries' = Entries
        BY <4>1, AlterStep DEF Has, Entry, Inv, StoreInv
      <4>3. UNCHANGED <<lruSize, resizing, lapsed>> /\ Remember(UsedLast(k, {}))
        BY <3>1 DEF Overwrite, settings
      <4> QED  BY <2>1, <2>7, <4>1, <4>2, <4>3, UseImplements DEF set
    <3> QED  BY <1>3, <2>1, <2>7, <3>1, AddImplements DEF set
  <2>8. CASE checkExpiration
    <3> DEFINE old == {p \in Entries : store[p[1]][p[2]] = "expired"}
    <3>1. /\ store' = Without(old) /\ UNCHANGED <<lruSize, resizing, lapsed>>
          /\ Remember(UsedWithout(KeysOf(old))) /\ ~resizing
      BY <2>8 DEF checkExpiration, settings
    <3>2. \A p \in old : Place(p[2]) = p /\ p[2] \in Keys
      BY <2>1 DEF Inv, HomeInv, Entries
    <3> HIDE DEF old
    <3> QED  BY <2>1, <3>1, <3>2, DropImplements
  <2>9. ASSUME NEW n \in LruSizes, SetLruSize(n) PROVE Abstract!Next
    <3>1. Entries' = Entries
      BY <2>9 DEF SetLruSize, Entries
    <3>2. Kept' = Kept
      BY <2>2, <3>1
    <3>3. lruSize = 0 /\ n # 0 => Kept = {}
      BY <1>3, <2>2, <2>9 DEF SetLruSize, KeysOf
    <3>4. used' = IF n = 0 THEN {} ELSE used
      BY <1>3, <2>9 DEF SetLruSize, Remember
    <3>5. lapsed' = lapsed
      BY <1>3, <2>1, <2>9 DEF SetLruSize, ListInv
    <3>6. Abstract!SetLimit(n)
      BY <2>9, <3>2, <3>3, <3>4, <3>5 DEF SetLruSize, Abstract!SetLimit, Kept
    <3> QED  BY <2>1, <2>9, <3>6 DEF SetLruSize, Abstract!Next
  <2>10. CASE lruResize
    BY <2>1, <2>10, ResizeImplements
  <2>11. ASSUME NEW n \in StoreHashSizes, SetStoreHashSize(n) PROVE Abstract!Next
    <3>1. Entries' = {} /\ L!Held(lru) = {} /\ used' = {} /\ ~resizing
          /\ UNCHANGED <<lruSize, resizing>>
      BY <1>3, <2>11 DEF SetStoreHashSize, NoEntries, Entries, Remember
    <3>2. used = {}
      <4>1. CASE lruSize = 0
        BY <4>1 DEF ListInv
      <4>2. CASE lruSize # 0
        <5>1. L!Before(lru) = used /\ Single(lru) /\ Good(lru)
          BY <2>1, <4>2, SizeIsKept DEF ListInv
        <5> QED  BY <3>1, <5>1, BeforeHeld
      <4> QED  BY <4>1, <4>2
    <3>3. Kept' = Kept \ Kept /\ Kept \in SUBSET Keys
      BY <2>2, <3>1 DEF KeysOf, Kept
    <3>4. lapsed' = lapsed
      BY <1>3, <2>1, <2>11 DEF SetStoreHashSize, ListInv
    <3>5. used' = UsedWithout(Kept)
      BY <3>1, <3>2 DEF UsedWithout
    <3> QED  BY <2>1, <3>1, <3>3, <3>4, <3>5, AbsDrop
  <2>12. ASSUME NEW a \in HashAlgorithms, SetStoreHashAlgorithm(a)
         PROVE  UNCHANGED <<Kept, used, lruSize, resizing, lapsed>>
    <3>1. Entries' = Entries /\ UNCHANGED <<lruSize, resizing>>
      BY <2>12 DEF SetStoreHashAlgorithm, Entries
    <3>2. used' = used
      BY <1>3, <2>12, <3>1 DEF SetStoreHashAlgorithm, Remember, ListInv
    <3>3. lapsed' = lapsed
      BY <1>3, <2>1, <2>12 DEF SetStoreHashAlgorithm, ListInv
    <3> QED  BY <2>2, <3>1, <3>2, <3>3
  <2>13. ASSUME NEW p \in Shards \X Keys, Expire(p)
         PROVE  UNCHANGED <<Kept, used, lruSize, resizing, lapsed>>
    <3>1. p[1] \in Shards /\ p[2] \in Keys
      OBVIOUS
    <3>2. Entries' = Entries
      BY <2>13, <3>1, AlterStep DEF Expire, settings, Inv, StoreInv
    <3> QED  BY <2>2, <2>13, <3>2 DEF Expire, settings
  <2>14. CASE UNCHANGED vars
    <3>1. Entries' = Entries
      BY <2>14 DEF vars, Entries
    <3> QED  BY <2>2, <2>14, <3>1 DEF vars, settings
  <2> QED
    BY <1>3, <2>5, <2>6, <2>7, <2>8, <2>9, <2>10, <2>11, <2>12, <2>13, <2>14 DEF Next
<1> QED  BY <1>1, <1>2, <1>3

\* The cache keeps what LruCache promises: it evicts the key least recently
\* read or written and no other, and never keeps more than its limit.
THEOREM KeepsLruPromise == Spec => Implements
<1>1. Init => Abstract!Init
  <2> SUFFICES ASSUME Init PROVE Abstract!Init
    OBVIOUS
  <2>1. \A k \in Keys : ~Has(k)
    <3>1. Inv
      BY InvInit
    <3> QED  BY <3>1, PlaceType DEF Init, NoEntries, Has, Entry, Inv
  <2> QED  BY <2>1 DEF Init, Abstract!Init
<1> QED
  BY <1>1, InvInit, InvStep, ListInit, ListStep, KnownIs, StepImplements, PTL
  DEF Spec, Implements, Abstract!Spec

-----------------------------------------------------------------------------
(* The FlatCache of a FileEntryCache is such a cache in memory with a file    *)
(* beside it: FileEntryCache, for any number of files, texts and times, and   *)
(* whatever becomes of the saves.                                             *)

\* What an inspection saw and the meta it left go together; a hash the
\* inspection did not compute may be older.
Describes(meta, view) ==
    /\ meta = None <=> view = None
    /\ view # None =>
           /\ meta.size = view.size /\ meta.mtime = view.mtime
           /\ view.read # None => meta.hash = view.read

\* The history of the cache file describes what a load of it would give.
FileDescribed ==
    IF disk \in {None, Torn} THEN saved = NotSeen
    ELSE \A f \in Files : Describes(disk[f], saved[f])

\* The inductive invariant of ReportRight: views describe metas, in memory, in
\* the file and in what a comparison is made with.
Described ==
    /\ FileDescribed
    /\ \A f \in Files : /\ Describes(cache[f], seen[f])
                         /\ Describes(Against(f), settled[f])

\* What is described by what was seen is there just if something was seen.
LEMMA DescribedAlike ==
    ASSUME NEW meta, NEW view, Describes(meta, view)
    PROVE  (meta = None) = (view = None)
BY DEF Describes

\* A process that may die in a save leaves a file whose history is known.
LEMMA DescribedReload ==
    ASSUME FileTypeOK, FileDescribed, LoadAgain, Saved(FALSE, NotSeen)
    PROVE  FileDescribed'
BY DEF FileTypeOK, FlatTypeOK, FileDescribed, LoadAgain, Saved

\* The cache has entries, the flag is a Boolean and the file is well typed
\* after every save.
LEMMA SaveType ==
    ASSUME FlatTypeOK, NEW contents \in Contents, NEW changed \in BOOLEAN,
           Save(contents, changed)
    PROVE  /\ dirty' \in BOOLEAN /\ disk' \in Contents \cup {None, Torn}
           /\ parted' \in BOOLEAN
BY DEF FlatTypeOK, Save

\* So is what is known of the file, whatever came of the save.
LEMMA SavedType ==
    ASSUME FileTypeOK, NEW view \in [Files -> Views \cup {None}], NEW changed,
           Saved(changed, view)
    PROVE  saved' \in [Files -> Views \cup {None}]
BY DEF FileTypeOK, Saved, NotSeen

\* A removed entry leaves no trace in memory.
LEMMA RemoveType ==
    ASSUME FileTypeOK, NEW f \in Files, RemoveEntry(f)
    PROVE  /\ FlatTypeOK'
           /\ baseline' \in [Files -> Metas \cup {None, Unvisited}]
           /\ {seen', settled', saved'} \subseteq [Files -> Views \cup {None}]
           /\ \A g \in Files : (cache'[g] = None) = (seen'[g] = None)
<1>1. FlatTypeOK'
  BY DEF FileTypeOK, FlatTypeOK, RemoveEntry, RemoveKey, SetKey, Contents
<1>2. \A g \in Files : (cache'[g] = None) = (seen'[g] = None)
  BY DEF FileTypeOK, FlatTypeOK, RemoveEntry, RemoveKey, SetKey, Contents
<1> QED  BY <1>1, <1>2 DEF FileTypeOK, RemoveEntry

\* What an inspection puts into the cache and into the history is well typed.
LEMMA InspectType ==
    ASSUME FileTypeOK, NEW f \in Files, NEW checkSum \in BOOLEAN, Inspect(f, checkSum)
    PROVE  FileTypeOK'
<1>1. PICK later \in IF checkSum THEN OnDisk ELSE {files[f]} :
         /\ files' = [files EXCEPT ![f] = later]
         /\ SetKey(f, [size |-> SizeOf[files[f].text], mtime |-> files[f].mtime,
                       hash |-> IF checkSum THEN later.text ELSE OldHash(f)])
         /\ seen' = [seen EXCEPT ![f] =
                       [size |-> SizeOf[files[f].text], mtime |-> files[f].mtime,
                        read |-> IF checkSum THEN later.text ELSE None]]
  BY DEF Inspect
<1> DEFINE meta == [size |-> SizeOf[files[f].text], mtime |-> files[f].mtime,
                    hash |-> IF checkSum THEN later.text ELSE OldHash(f)]
           view == [size |-> SizeOf[files[f].text], mtime |-> files[f].mtime,
                    read |-> IF checkSum THEN later.text ELSE None]
<1>2. files[f] \in OnDisk /\ later \in OnDisk
  BY <1>1 DEF Inspect
<1>3. OldHash(f) \in Texts \cup {None}
  BY DEF FileTypeOK, FlatTypeOK, Contents, OldHash, Metas
<1>4. SizeOf[files[f].text] \in Sizes
  BY <1>2 DEF Sizes, OnDisk
<1>5. meta \in Metas /\ view \in Views
  BY <1>2, <1>3, <1>4 DEF Metas, Views, OnDisk
<1>6. /\ cache' = [cache EXCEPT ![f] = meta] /\ dirty' = TRUE
      /\ seen' = [seen EXCEPT ![f] = view] /\ UNCHANGED <<disk, parted>>
  BY <1>1 DEF SetKey
<1> HIDE DEF meta, view
<1>7. FlatTypeOK'
  BY <1>5, <1>6 DEF FileTypeOK, FlatTypeOK, Contents
<1>8. files' \in [Files -> FileStates]
  BY <1>1, <1>2 DEF FileTypeOK, FileStates
<1>9. baseline' \in [Files -> Metas \cup {None, Unvisited}]
  BY DEF Inspect, Against, FileTypeOK, FlatTypeOK, Contents
<1>10. {seen', settled', saved'} \subseteq [Files -> Views \cup {None}]
  BY <1>5, <1>6 DEF Inspect, FileTypeOK
<1>11. meta # None /\ view # None
  BY <1>5, FileEntryCacheAssumption DEF Views
<1>12. \A g \in Files : (cache'[g] = None) = (seen'[g] = None)
  BY <1>6, <1>11 DEF FileTypeOK, FlatTypeOK, Contents
<1> QED  BY <1>7, <1>8, <1>9, <1>10, <1>12 DEF FileTypeOK

\* No step takes a variable out of its type; the load of a file needs its history.
LEMMA FileTypeStep ==
    FileTypeOK /\ FileDescribed /\ [FileNext]_fileVars => FileTypeOK'
<1> SUFFICES ASSUME FileTypeOK, FileDescribed, [FileNext]_fileVars PROVE FileTypeOK'
  OBVIOUS
<1>1. ASSUME NEW f \in Files, Look(f) PROVE FileTypeOK'
  <2>1. ASSUME NEW checkSum \in BOOLEAN, InspectFails(f, checkSum) PROVE FileTypeOK'
    <3>1. files' \in [Files -> FileStates]
      BY <2>1 DEF InspectFails, FileTypeOK, FileStates
    <3> QED  BY <2>1, <3>1, RemoveType DEF InspectFails, FileTypeOK
  <2> QED  BY <1>1, <2>1, InspectType DEF Look
<1>2. ASSUME NEW f \in Files, Forget(f) PROVE FileTypeOK'
  BY <1>2, RemoveType DEF Forget, FileTypeOK
<1>3. ASSUME NEW f \in Files, Edit(f) PROVE FileTypeOK'
  BY <1>3 DEF Edit, FileTypeOK, FlatTypeOK, FileStates
<1>4. CASE Reconcile
  <2> DEFINE left == [f \in Files |-> IF Gone(f) THEN None ELSE cache[f]]
             changed == dirty \/ \E f \in Files : Gone(f)
  <2>1. /\ cache' = left /\ Save(left, changed) /\ Saved(changed, seen')
        /\ baseline' = [f \in Files |-> Promoted(f, left)]
        /\ seen' = [f \in Files |-> IF Gone(f) THEN None ELSE seen[f]]
        /\ settled' = seen' /\ UNCHANGED files
    BY <1>4 DEF Reconcile
  <2>2. left \in Contents /\ changed \in BOOLEAN
    BY DEF FileTypeOK, FlatTypeOK, Contents
  <2>3. FlatTypeOK'
    BY <2>1, <2>2, SaveType DEF FileTypeOK, FlatTypeOK
  <2>4. seen' \in [Files -> Views \cup {None}]
    BY <2>1 DEF FileTypeOK
  <2>5. saved' \in [Files -> Views \cup {None}]
    BY <2>1, <2>4, SavedType
  <2>6. baseline' \in [Files -> Metas \cup {None, Unvisited}]
    BY <2>1, <2>2 DEF Promoted, Contents
  <2>7. \A f \in Files : (cache'[f] = None) = (seen'[f] = None)
    BY <2>1 DEF FileTypeOK
  <2> QED  BY <2>1, <2>3, <2>4, <2>5, <2>6, <2>7 DEF FileTypeOK
<1>5. CASE Persist
  <2>1. FlatTypeOK'
    BY <1>5, SaveType DEF Persist, FileTypeOK, FlatTypeOK
  <2>2. saved' \in [Files -> Views \cup {None}]
    BY <1>5, SavedType DEF Persist, FileTypeOK
  <2> QED  BY <1>5, <2>1, <2>2 DEF Persist, FileTypeOK
<1>6. CASE ClearCache
  <2>1. Empty \in Contents /\ NotSeen \in [Files -> Views \cup {None}]
    BY DEF Empty, Contents, NotSeen
  <2>2. FlatTypeOK'
    BY <1>6, <2>1, SaveType DEF ClearCache, FlatClear, FileTypeOK, FlatTypeOK
  <2>3. saved' \in [Files -> Views \cup {None}]
    BY <1>6, <2>1, SavedType DEF ClearCache
  <2>4. settled' \in [Files -> Views \cup {None}]
    BY <1>6 DEF ClearCache, FileTypeOK
  <2>5. \A f \in Files : cache'[f] = None /\ seen'[f] = None
    BY <1>6 DEF ClearCache, FlatClear, Empty, NotSeen
  <2> QED  BY <1>6, <2>1, <2>2, <2>3, <2>4, <2>5 DEF ClearCache, FileTypeOK
<1>7. CASE LoadCache
  <2>1. disk \in Contents
    BY <1>7 DEF LoadCache, Load, FileTypeOK, FlatTypeOK
  <2>2. FlatTypeOK'
    BY <1>7, <2>1 DEF LoadCache, Load, FileTypeOK, FlatTypeOK, Contents
  <2>3. {seen', settled', saved'} \subseteq [Files -> Views \cup {None}]
    BY <1>7 DEF LoadCache, FileTypeOK
  <2>4. \A f \in Files : (cache'[f] = None) = (seen'[f] = None)
    BY <1>7, DescribedAlike DEF LoadCache, Load, FileTypeOK, FileDescribed
  <2> QED  BY <1>7, <2>2, <2>3, <2>4 DEF LoadCache, FileTypeOK
<1>8. CASE DeleteCacheFile
  BY <1>8 DEF DeleteCacheFile, RemoveCacheFile, FileTypeOK, FlatTypeOK, NotSeen
<1>9. CASE Destroy
  <2>1. FlatTypeOK'
    BY <1>9 DEF Destroy, FlatDestroy, FileTypeOK, FlatTypeOK, Empty, Contents
  <2>2. NotSeen \in [Files -> Views \cup {None}]
    BY DEF NotSeen
  <2>3. saved' \in [Files -> Views \cup {None}]
    BY <1>9, <2>2, SavedType DEF Destroy
  <2>4. \A f \in Files : cache'[f] = None /\ seen'[f] = None
    BY <1>9 DEF Destroy, FlatDestroy, Empty, NotSeen
  <2> QED  BY <1>9, <2>1, <2>2, <2>3, <2>4 DEF Destroy, FileTypeOK
<1>10. CASE Restart
  <2>1. NotSeen \in [Files -> Views \cup {None}] /\ Empty \in Contents
    BY DEF NotSeen, Empty, Contents
  <2>2. saved' \in [Files -> Views \cup {None}]
    BY <1>10, <2>1, SavedType DEF Restart
  <2>3. FlatTypeOK'
    BY <1>10, <2>1 DEF Restart, LoadAgain, Loaded, FileTypeOK, FlatTypeOK
  <2>4. FileDescribed'
    BY <1>10, DescribedReload DEF Restart
  <2>5. \A f \in Files : (cache'[f] = None) = (seen'[f] = None)
    BY <1>10, <2>4, DescribedAlike
    DEF Restart, LoadAgain, Loaded, FileDescribed, Empty, NotSeen
  <2> QED  BY <1>10, <2>1, <2>2, <2>3, <2>5 DEF Restart, FileTypeOK
<1>11. CASE UNCHANGED fileVars
  BY <1>11 DEF fileVars, FileTypeOK, FlatTypeOK
<1> QED
  BY <1>1, <1>2, <1>3, <1>4, <1>5, <1>6, <1>7, <1>8, <1>9, <1>10, <1>11 DEF FileNext

\* A save leaves in the file what it held, or what was to be saved.
LEMMA SaveDescribes ==
    ASSUME FileDescribed, NEW contents \in Contents, NEW changed \in BOOLEAN,
           NEW view, Save(contents, changed), Saved(changed, view),
           \A f \in Files : Describes(contents[f], view[f])
    PROVE  FileDescribed'
<1>1. CASE ~changed
  BY <1>1 DEF Save, Saved, FileDescribed
<1>2. CASE changed /\ dirty' = FALSE /\ disk' = contents
  BY <1>2, FileEntryCacheAssumption DEF Saved, FileDescribed, Contents
<1>3. CASE changed /\ dirty' = TRUE /\ disk' \in {disk, Torn}
  BY <1>3 DEF Saved, FileDescribed
<1> QED  BY <1>1, <1>2, <1>3 DEF Save

\* A file without an entry was not seen.
LEMMA NothingDescribed == Describes(None, None)
BY DEF Describes

\* A removed entry is forgotten everywhere but in the file.
LEMMA RemoveDescribes ==
    ASSUME FileTypeOK, Described, NEW f \in Files, RemoveEntry(f)
    PROVE  Described'
<1>1. FileDescribed'
  BY DEF Described, FileDescribed, RemoveEntry, RemoveKey, SetKey
<1>2. ASSUME NEW g \in Files
      PROVE  Describes(cache'[g], seen'[g]) /\ Describes(Against(g)', settled'[g])
  <2>1. CASE g = f
    <3>1. cache'[g] = None /\ seen'[g] = None /\ settled'[g] = None
          /\ baseline'[g] = Unvisited
      BY <2>1 DEF RemoveEntry, RemoveKey, SetKey, FileTypeOK, FlatTypeOK, Contents
    <3> QED  BY <3>1, NothingDescribed DEF Against
  <2>2. CASE g # f
    <3>1. cache'[g] = cache[g] /\ seen'[g] = seen[g] /\ settled'[g] = settled[g]
          /\ baseline'[g] = baseline[g]
      BY <2>2 DEF RemoveEntry, RemoveKey, SetKey, FileTypeOK, FlatTypeOK, Contents
    <3> QED  BY <3>1 DEF Described, Against
  <2> QED  BY <2>1, <2>2
<1> QED  BY <1>1, <1>2 DEF Described

\* An inspection moves no baseline.
LEMMA InspectKeepsBaseline ==
    ASSUME FileTypeOK, NEW f \in Files, NEW checkSum, Inspect(f, checkSum),
           NEW g \in Files
    PROVE  Against(g)' = Against(g)
<1>1. Against(f) # Unvisited
  BY FileEntryCacheAssumption DEF Against, FileTypeOK, FlatTypeOK, Contents
<1>2. CASE g = f
  <2>1. baseline'[g] = Against(f)
    BY <1>2 DEF Inspect, FileTypeOK
  <2> QED  BY <1>1, <1>2, <2>1 DEF Against
<1>3. CASE g # f
  <2>1. baseline'[g] = baseline[g] /\ cache'[g] = cache[g]
    BY <1>3 DEF Inspect, SetKey, FileTypeOK, FlatTypeOK, Contents
  <2> QED  BY <2>1 DEF Against
<1> QED  BY <1>2, <1>3

\* An inspection puts into the cache what it saw.
LEMMA InspectDescribes ==
    ASSUME FileTypeOK, Described, NEW f \in Files, NEW checkSum \in BOOLEAN,
           Inspect(f, checkSum)
    PROVE  Described'
<1>1. PICK later \in IF checkSum THEN OnDisk ELSE {files[f]} :
         /\ SetKey(f, [size |-> SizeOf[files[f].text], mtime |-> files[f].mtime,
                       hash |-> IF checkSum THEN later.text ELSE OldHash(f)])
         /\ seen' = [seen EXCEPT ![f] =
                       [size |-> SizeOf[files[f].text], mtime |-> files[f].mtime,
                        read |-> IF checkSum THEN later.text ELSE None]]
  BY DEF Inspect
<1> DEFINE meta == [size |-> SizeOf[files[f].text], mtime |-> files[f].mtime,
                    hash |-> IF checkSum THEN later.text ELSE OldHash(f)]
           view == [size |-> SizeOf[files[f].text], mtime |-> files[f].mtime,
                    read |-> IF checkSum THEN later.text ELSE None]
<1>2. meta # None /\ view # None
  <2>1. files[f] \in OnDisk /\ later \in OnDisk
    BY <1>1 DEF Inspect
  <2>2. OldHash(f) \in Texts \cup {None}
    BY DEF FileTypeOK, FlatTypeOK, Contents, OldHash, Metas
  <2>3. SizeOf[files[f].text] \in Sizes
    BY <2>1 DEF Sizes, OnDisk
  <2>4. meta \in Metas /\ view \in Views
    BY <2>1, <2>2, <2>3 DEF Metas, Views, OnDisk
  <2> QED  BY <2>4, FileEntryCacheAssumption DEF Views
<1>3. Describes(meta, view)
  BY <1>2 DEF Describes
<1>4. cache' = [cache EXCEPT ![f] = meta] /\ seen' = [seen EXCEPT ![f] = view]
  BY <1>1 DEF SetKey
<1> HIDE DEF meta, view
<1>5. \A g \in Files : Describes(cache'[g], seen'[g])
  BY <1>3, <1>4 DEF Described, FileTypeOK, FlatTypeOK, Contents
<1>6. UNCHANGED <<settled, saved, disk>>
  BY DEF Inspect, SetKey
<1>7. \A g \in Files : Describes(Against(g)', settled'[g])
  BY <1>6, InspectKeepsBaseline DEF Described
<1>8. FileDescribed'
  BY <1>6 DEF Described, FileDescribed
<1> QED  BY <1>5, <1>7, <1>8 DEF Described

\* No step makes views and metas disagree.
LEMMA DescribedStep ==
    FileTypeOK /\ Described /\ [FileNext]_fileVars => Described'
<1> SUFFICES ASSUME FileTypeOK, Described, [FileNext]_fileVars PROVE Described'
  OBVIOUS
<1>0. FileDescribed
  BY DEF Described
<1>1. ASSUME NEW f \in Files, Look(f) PROVE Described'
  BY <1>1, InspectDescribes, RemoveDescribes DEF Look, InspectFails
<1>2. ASSUME NEW f \in Files, Forget(f) PROVE Described'
  BY <1>2, RemoveDescribes DEF Forget
<1>3. ASSUME NEW f \in Files, Edit(f) PROVE Described'
  BY <1>3 DEF Edit, Described, FileDescribed, Against
<1>4. CASE Reconcile
  <2> DEFINE left == [f \in Files |-> IF Gone(f) THEN None ELSE cache[f]]
             changed == dirty \/ \E f \in Files : Gone(f)
  <2>1. /\ cache' = left /\ Save(left, changed) /\ Saved(changed, seen')
        /\ baseline' = [f \in Files |-> Promoted(f, left)]
        /\ seen' = [f \in Files |-> IF Gone(f) THEN None ELSE seen[f]]
        /\ settled' = seen'
    BY <1>4 DEF Reconcile
  <2>2. left \in Contents /\ changed \in BOOLEAN
    BY DEF FileTypeOK, FlatTypeOK, Contents
  <2>3. \A f \in Files : Describes(left[f], seen'[f])
    BY <2>1, NothingDescribed DEF Described
  <2>4. FileDescribed'
    BY <1>0, <2>1, <2>2, <2>3, SaveDescribes
  <2>5. \A f \in Files : Against(f)' = left[f]
    BY <2>1, <2>2, FileEntryCacheAssumption DEF Against, Promoted, Contents
  <2> QED  BY <2>1, <2>3, <2>4, <2>5 DEF Described
<1>5. CASE Persist
  <2>1. cache \in Contents /\ dirty \in BOOLEAN
    BY DEF FileTypeOK, FlatTypeOK
  <2>2. FileDescribed'
    BY <1>0, <1>5, <2>1, SaveDescribes DEF Persist, Described
  <2> QED  BY <1>5, <2>2 DEF Persist, Described, Against
<1>6. CASE ClearCache
  <2>1. Empty \in Contents /\ \A f \in Files : Describes(Empty[f], NotSeen[f])
    BY NothingDescribed DEF Empty, Contents, NotSeen
  <2>2. FileDescribed'
    BY <1>0, <1>6, <2>1, SaveDescribes DEF ClearCache, FlatClear
  <2>3. \A f \in Files : Describes(Against(f)', settled'[f])
    BY <1>6, NothingDescribed DEF ClearCache, FlatClear, Empty, Against, Described
  <2> QED  BY <1>6, <2>1, <2>2, <2>3 DEF ClearCache, FlatClear, Described
<1>7. CASE LoadCache
  <2>1. disk \notin {None, Torn} /\ disk' = disk /\ saved' = saved
    BY <1>7 DEF LoadCache, Load
  <2>2. ASSUME NEW f \in Files
        PROVE  /\ cache'[f] = IF disk[f] = None THEN cache[f] ELSE disk[f]
               /\ seen'[f] = IF disk[f] = None THEN seen[f] ELSE saved[f]
               /\ settled'[f] = IF disk[f] = None \/ baseline[f] # Unvisited
                                THEN settled[f] ELSE saved[f]
               /\ baseline'[f] = baseline[f]
               /\ Describes(disk[f], saved[f])
    BY <1>0, <1>7, <2>1 DEF LoadCache, Load, FileDescribed
  <2>3. FileDescribed'
    BY <1>0, <2>1 DEF FileDescribed
  <2>4. \A f \in Files : Describes(cache'[f], seen'[f])
    BY <2>2 DEF Described
  <2>5. \A f \in Files : Describes(Against(f)', settled'[f])
    BY <2>2 DEF Described, Against
  <2> QED  BY <2>3, <2>4, <2>5 DEF Described
<1>8. CASE DeleteCacheFile
  BY <1>8 DEF DeleteCacheFile, RemoveCacheFile, Described, FileDescribed, Against
<1>9. CASE Destroy
  <2>1. FileDescribed'
    BY <1>0, <1>9 DEF Destroy, FlatDestroy, Saved, FileDescribed
  <2>2. \A f \in Files : /\ cache'[f] = None /\ seen'[f] = None
                         /\ settled'[f] = None /\ baseline'[f] = Unvisited
    BY <1>9 DEF Destroy, FlatDestroy, Empty, NotSeen
  <2> QED  BY <2>1, <2>2, NothingDescribed DEF Described, Against
<1>10. CASE Restart
  <2>1. FileDescribed'
    BY <1>0, <1>10, DescribedReload DEF Restart
  <2>2. \A f \in Files : Describes(cache'[f], saved'[f])
    BY <1>10, <2>1, NothingDescribed
    DEF Restart, LoadAgain, Loaded, FileDescribed, Empty, NotSeen
  <2> QED  BY <1>10, <2>1, <2>2 DEF Restart, Described, Against
<1>11. CASE UNCHANGED fileVars
  BY <1>11 DEF fileVars, Described, FileDescribed, Against
<1> QED
  BY <1>1, <1>2, <1>3, <1>4, <1>5, <1>6, <1>7, <1>8, <1>9, <1>10, <1>11 DEF FileNext

\* What the file and the cache say of a file is what the inspection behind it
\* saw, after any number of inspections, saves that failed, loads and restarts.
THEOREM ViewsDescribe ==
    FileSpec => [](FileTypeOK /\ Described)
<1>1. FileInit => FileTypeOK
  <2> SUFFICES ASSUME FileInit PROVE FileTypeOK
    OBVIOUS
  <2>1. FlatTypeOK
    BY DEF FileInit, FlatInit, FlatTypeOK, Empty, Contents
  <2>2. {seen, settled, saved} \subseteq [Files -> Views \cup {None}]
    BY DEF FileInit, NotSeen
  <2>3. \A f \in Files : (cache[f] = None) = (seen[f] = None)
    BY DEF FileInit, FlatInit, Empty, NotSeen
  <2> QED  BY <2>1, <2>2, <2>3 DEF FileInit, FileTypeOK
<1>2. FileInit => Described
  BY NothingDescribed
  DEF FileInit, FlatInit, Empty, NotSeen, Described, FileDescribed, Against
<1>3. FileTypeOK /\ Described => FileDescribed
  BY DEF Described
<1> QED  BY <1>1, <1>2, <1>3, FileTypeStep, DescribedStep, PTL DEF FileSpec

\* Types, and the cache has an entry just for what was seen.
THEOREM FilesTyping ==
    FileSpec => []FileTypeOK
BY ViewsDescribe, PTL

\* A file is reported changed just if it differs from what was seen of it when it
\* was last settled.
THEOREM ReportsRight ==
    FileSpec => []ReportRight
<1>1. FileTypeOK /\ Described => ReportRight
  <2> SUFFICES ASSUME FileTypeOK, Described,
                      NEW f \in Files, NEW file \in OnDisk,
                      NEW checkSum \in BOOLEAN, NEW modifiedTime \in BOOLEAN,
                      settled[f] # None /\ checkSum => ~OldHashKept(f)
               PROVE  Changed(f, file, checkSum, modifiedTime) <=>
                        \/ settled[f] = None
                        \/ settled[f].size # SizeOf[file.text]
                        \/ modifiedTime /\ settled[f].mtime # file.mtime
                        \/ checkSum /\ settled[f].read # file.text
    BY DEF ReportRight
  <2>1. Describes(Against(f), settled[f])
    BY DEF Described
  <2>2. CASE settled[f] = None
    BY <2>1, <2>2 DEF Describes, Changed
  <2>3. CASE settled[f] # None
    <3>1. file.text # None
      BY FileEntryCacheAssumption DEF OnDisk
    <3>2. checkSum => (Against(f).hash # file.text <=> settled[f].read # file.text)
      BY <2>1, <2>3, <3>1 DEF Describes, OldHashKept
    <3> QED  BY <2>1, <2>3, <3>2 DEF Describes, Changed
  <2> QED  BY <2>2, <2>3
<1> QED  BY <1>1, ViewsDescribe, PTL

\* While the flag is down the cache file holds what memory holds, after any
\* failed saves: a save that is skipped loses nothing.
THEOREM SkippedSavesLoseNothing ==
    FileSpec => []CleanMeansSaved
<1>1. FileInit => CleanMeansSaved
  BY DEF FileInit, FlatInit, CleanMeansSaved, FlatClean, Loaded
<1>2. FileTypeOK /\ CleanMeansSaved /\ [FileNext]_fileVars => CleanMeansSaved'
  <2> SUFFICES ASSUME FileTypeOK, CleanMeansSaved, [FileNext]_fileVars, ~dirty', ~parted'
               PROVE  Loaded(disk') = cache'
    BY DEF CleanMeansSaved, FlatClean
  <2>1. ASSUME NEW f \in Files, Look(f) \/ Forget(f) PROVE FALSE
    BY <2>1 DEF Look, Forget, Inspect, InspectFails, RemoveEntry, RemoveKey, SetKey
  <2>2. ASSUME NEW f \in Files, Edit(f) PROVE Loaded(disk') = cache'
    BY <2>2 DEF Edit, CleanMeansSaved, FlatClean
  <2>3. ASSUME NEW contents \in Contents, NEW changed \in BOOLEAN,
               Save(contents, changed), changed \/ (~dirty /\ contents = cache)
        PROVE  Loaded(disk') = contents
    <3>1. CASE ~changed
      BY <2>3, <3>1 DEF Save, CleanMeansSaved, FlatClean
    <3>2. CASE changed
      BY <2>3, <3>2, FileEntryCacheAssumption DEF Save, Loaded, Contents
    <3> QED  BY <3>1, <3>2
  <2>4. CASE Reconcile
    <3> DEFINE left == [f \in Files |-> IF Gone(f) THEN None ELSE cache[f]]
               changed == dirty \/ \E f \in Files : Gone(f)
    <3>1. cache' = left /\ Save(left, changed)
      BY <2>4 DEF Reconcile
    <3>2. left \in Contents /\ changed \in BOOLEAN
      BY DEF FileTypeOK, FlatTypeOK, Contents
    <3>3. ~changed => ~dirty /\ left = cache
      BY DEF FileTypeOK, FlatTypeOK, Contents
    <3> QED  BY <2>3, <3>1, <3>2, <3>3
  <2>5. CASE Persist
    BY <2>3, <2>5 DEF Persist, FileTypeOK, FlatTypeOK
  <2>6. CASE ClearCache
    <3>1. Empty \in Contents
      BY DEF Empty, Contents
    <3> QED  BY <2>3, <2>6, <3>1 DEF ClearCache, FlatClear
  <2>7. CASE LoadCache
    BY <2>7 DEF LoadCache, Load
  <2>8. CASE DeleteCacheFile
    BY <2>8 DEF DeleteCacheFile, RemoveCacheFile
  <2>9. CASE Destroy
    BY <2>9 DEF Destroy, FlatDestroy, Loaded
  <2>10. CASE Restart
    BY <2>10 DEF Restart, LoadAgain, Loaded
  <2>11. CASE UNCHANGED fileVars
    BY <2>11 DEF fileVars, CleanMeansSaved, FlatClean
  <2> QED
    BY <2>1, <2>2, <2>4, <2>5, <2>6, <2>7, <2>8, <2>9, <2>10, <2>11 DEF FileNext
<1> QED  BY <1>1, <1>2, FilesTyping, PTL DEF FileSpec

\* No inspection changes a report: what a comparison is made with stays.
THEOREM LooksAreHarmless ==
    FileSpec => LookingIsHarmless
<1>1. FileTypeOK /\ [FileNext]_fileVars =>
        ((\E f \in Files, checkSum \in BOOLEAN : Inspect(f, checkSum))
          => \A f \in Files, file \in OnDisk, checkSum, modifiedTime \in BOOLEAN :
               Changed(f, file, checkSum, modifiedTime)'
                   = Changed(f, file, checkSum, modifiedTime))
  BY InspectKeepsBaseline DEF Changed
<1> QED  BY <1>1, FilesTyping, PTL DEF FileSpec, LookingIsHarmless

=============================================================================
