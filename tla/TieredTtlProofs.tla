-------------------------- MODULE TieredTtlProofs --------------------------
(***************************************************************************)
(* Proofs about TieredTtl, for every choice of store defaults, instance     *)
(* settings, caller and hook TTLs, and without a bound on time.            *)
(* Then about GetOrSet, whose callers get values that live that long.      *)
(***************************************************************************)
EXTENDS TieredTtl, GetOrSet, TLAPS

-----------------------------------------------------------------------------
(* The TTL operators, for every number of milliseconds.                     *)

\* A resolved TTL is a TTL: no operator leaves the numbers and `undefined`.
LEMMA CascadeType ==
    ASSUME NEW a \in TtlValue, NEW b \in TtlValue, NEW c \in TtlValue
    PROVE  getCascadingTtl(a, b, c) \in TtlValue
BY DEF getCascadingTtl, Or

\* A capped TTL is a TTL.
LEMMA CapType ==
    ASSUME NEW t \in TtlValue, NEW m \in TtlValue
    PROVE  capTtl(t, m) \in TtlValue
BY UndefAssumption DEF capTtl, MinOf, TtlValue

\* A store's expiry time is undefined or a number.
LEMMA KeyvType ==
    ASSUME NEW t \in TtlValue, NEW d \in TtlValue, NEW date \in Int
    PROVE  keyvExpires(t, d, date) \in TtlValue
BY UndefAssumption DEF keyvExpires, Truthy, Or, TtlValue

\* The TTL of tag metadata is a TTL.
LEMMA MaxStoreType ==
    ASSUME NEW h \in BOOLEAN, NEW p \in TtlValue, NEW s \in TtlValue
    PROVE  maxStoreTtl(h, p, s) \in TtlValue
BY UndefAssumption DEF maxStoreTtl, MaxOf, Truthy, TtlValue

\* The TTL of a back-fill is a TTL.
LEMMA CalculateType ==
    ASSUME NEW t \in TtlValue, NEW e \in TtlValue, NEW date \in Int
    PROVE  calculateTtlFromExpiration(t, e, date) \in TtlValue
BY UndefAssumption
DEF calculateTtlFromExpiration, getTtlFromExpires, Truthy, TtlValue

\* capTtl yields a TTL within a positive cap, or the 0 that was passed to it:
\* zero is the only TTL that escapes maxTtl (capTtl).
THEOREM CapBounds ==
    ASSUME NEW t \in TtlValue, NEW m \in Nat \ {0}
    PROVE  /\ capTtl(t, m) \in 0 .. m
           /\ capTtl(t, m) = 0 <=> t = 0
BY UndefAssumption DEF capTtl, MinOf, TtlValue

\* Without a cap capTtl still never lets a negative TTL through (capTtl).
LEMMA CapNonNegative ==
    ASSUME NEW t \in TtlValue
    PROVE  capTtl(t, Undef) = Undef \/ capTtl(t, Undef) \in Nat
BY UndefAssumption DEF capTtl, TtlValue

\* Before an entry's expiry the TTL of its copy is positive and ends no later
\* than the entry, whatever default TTL competes with it
\* (calculateTtlFromExpiration: the smaller of the two).
THEOREM CalculateBounds ==
    ASSUME NEW t \in {Undef} \cup (Nat \ {0}), NEW e \in Int, NEW date \in Nat,
           e > date
    PROVE  LET c == calculateTtlFromExpiration(t, e, date)
           IN  /\ c \in Nat \ {0} /\ date + c <= e
               /\ t # Undef => c = MinOf(t, e - date)
<1> DEFINE c == calculateTtlFromExpiration(t, e, date)
<1>1. getTtlFromExpires(e, date) = e - date
  BY UndefAssumption DEF getTtlFromExpires
<1>2. Truthy(e)
  BY UndefAssumption DEF Truthy
<1>3. CASE t = Undef
  <2>1. c = e - date
    BY <1>1, <1>3, UndefAssumption
    DEF calculateTtlFromExpiration, Truthy
  <2> QED  BY <2>1, <1>3
<1>4. CASE t \in Nat \ {0}
  <2>1. Truthy(t)
    BY <1>4, UndefAssumption DEF Truthy
  <2>2. c = IF e > date + t THEN t ELSE e - date
    BY <1>1, <1>2, <2>1, UndefAssumption DEF calculateTtlFromExpiration
  <2> QED  BY <2>2, <1>4 DEF MinOf
<1> QED  BY <1>3, <1>4

\* The TTL of a tag snapshot is at least each store's TTL, and it is unlimited
\* when either of them is (maxStoreTtl).
THEOREM MaxStoreCovers ==
    ASSUME NEW p \in {Undef} \cup Nat, NEW s \in {Undef} \cup Nat
    PROVE  LET m == maxStoreTtl(TRUE, p, s)
           IN  /\ m = Undef \/ (m \in Nat /\ Truthy(p) /\ Truthy(s)
                                  /\ p <= m /\ s <= m)
               /\ m = Undef <=> ~Truthy(p) \/ ~Truthy(s)
BY UndefAssumption DEF maxStoreTtl, MaxOf, Truthy

-----------------------------------------------------------------------------
(* The two tiers.                                                           *)

\* Every default TTL is a TTL.
LEMMA DefaultsAreTtls == DefaultTtl \subseteq TtlValue
BY DEF DefaultTtl, TtlValue

\* What the ttl and maxTtl setters store is a setting.
LEMMA PositiveType ==
    ASSUME NEW t \in TtlValue
    PROVE  positiveOrUndef(t) \in DefaultTtl
BY UndefAssumption DEF positiveOrUndef, DefaultTtl, TtlValue

\* The settings in force are settings.
LEMMA SettingTypes ==
    TypeOK => now \in Int /\ ttl \in TtlValue /\ maxTtl \in TtlValue
BY DefaultsAreTtls DEF TypeOK

\* What a write stores is a copy, and the tag store's default is a default.
LEMMA WrittenType ==
    ASSUME TypeOK, NEW t \in TtlValue, NEW d \in DefaultTtl
    PROVE  Written(t, d) \in Copy
<1>1. keyvExpires(t, d, now) \in TtlValue
  BY KeyvType, DefaultsAreTtls, SettingTypes
<1>2. Undef \in TtlValue
  BY DEF TtlValue
<1> QED
  BY <1>1, <1>2, SettingTypes DEF Written, Copy, TypeOK

\* The tag store's default is one of the defaults.
LEMMA TagStoreType == TagStoreDefault \in DefaultTtl
BY TieredTtlAssumption DEF TagStoreDefault

\* The version of a tag is a natural number.
LEMMA VersionType == TypeOK => Version \in Nat
BY NoneAssumption DEF TypeOK, Version, Live, Meta

\* A write keeps the types of copies and tag metadata.
LEMMA StoreType ==
    ASSUME TypeOK, NEW p \in TtlValue, NEW s \in TtlValue, NEW b \in BOOLEAN,
           Store(p, s, b)
    PROVE  TypeOK'
<1>1. Written(p, PrimaryDefault) \in Copy
      /\ Written(s, SecondaryDefault) \in Copy
  BY WrittenType, TieredTtlAssumption
<1>2. maxStoreTtl(HasSecondary, p, s) \in TtlValue
  BY MaxStoreType, TieredTtlAssumption
<1>3. keyvExpires(maxStoreTtl(HasSecondary, p, s), TagStoreDefault, now)
        \in TtlValue
  BY <1>2, KeyvType, TagStoreType, DefaultsAreTtls, SettingTypes
<1>4. snapshot' \in Meta \cup {None}
  BY <1>3, VersionType DEF Store, TagSnapshot, SnapshotOf, Meta
<1> QED  BY <1>1, <1>4 DEF Store, TagSnapshot, SnapshotOf, TypeOK

\* A resolved TTL is undefined or a number.
LEMMA ResolvedType ==
    ASSUME TypeOK, NEW d \in DefaultTtl, NEW t \in TtlValue
    PROVE  /\ getCascadingTtl(ttl, d, t) \in TtlValue
           /\ resolveStoreTtl(ttl, d, t, maxTtl) \in TtlValue
<1>1. getCascadingTtl(ttl, d, t) \in TtlValue
  BY CascadeType, DefaultsAreTtls, SettingTypes
<1> QED
  BY <1>1, CapType, SettingTypes DEF resolveStoreTtl

\* The two ttls with which set writes the stores.
LEMMA SetStores ==
    ASSUME TypeOK, NEW options \in TtlOptions, NEW hook \in HookChoices,
           NEW b \in BOOLEAN, Set(options, hook, b)
    PROVE  \E p, s \in TtlValue :
             Store(capTtl(p, maxTtl), capTtl(s, maxTtl), b)
<1> DEFINE cp == getCascadingTtl(ttl, PrimaryDefault, options.primary)
           cs == getCascadingTtl(ttl, SecondaryDefault, options.secondary)
           ep == CASE hook.kind = "untouched" -> capTtl(cp, maxTtl)
                   [] hook.kind = "object" -> Or(hook.primary, cp)
                   [] hook.kind = "scalar" -> hook.primary
           es == CASE hook.kind = "untouched" -> cs
                   [] hook.kind = "object" -> Or(hook.secondary, cs)
                   [] hook.kind = "scalar" -> hook.primary
<1>1. options.primary \in TtlValue /\ options.secondary \in TtlValue
      /\ hook.primary \in TtlValue /\ hook.secondary \in TtlValue
      /\ hook.kind \in {"untouched", "scalar", "object"}
  BY TieredTtlAssumption
<1>2. cp \in TtlValue /\ cs \in TtlValue
  BY <1>1, ResolvedType, TieredTtlAssumption
<1>3. capTtl(cp, maxTtl) \in TtlValue
  BY <1>2, CapType, SettingTypes
<1>4. ep \in TtlValue /\ es \in TtlValue
  <2> HIDE DEF cp, cs
  <2>1. CASE hook.kind = "untouched"  BY <2>1, <1>2, <1>3
  <2>2. CASE hook.kind = "object"  BY <2>2, <1>1, <1>2 DEF Or
  <2>3. CASE hook.kind = "scalar"  BY <2>3, <1>1
  <2> QED  BY <2>1, <2>2, <2>3, <1>1
<1>5. Store(capTtl(ep, maxTtl), capTtl(es, maxTtl), b)
  BY DEF Set
<1> QED  BY <1>4, <1>5

-----------------------------------------------------------------------------
\* Every reachable state is well typed, for every setting of the instance and
\* of the stores.
THEOREM Typing == Spec => []TypeOK
<1>1. Init => TypeOK
  <2> SUFFICES ASSUME Init PROVE TypeOK
    OBVIOUS
  <2>1. PICK t \in InstanceTtls, m \in MaxTtls :
          ttl = positiveOrUndef(t) /\ maxTtl = positiveOrUndef(m)
    BY DEF Init
  <2>2. t \in TtlValue /\ m \in TtlValue
    BY TieredTtlAssumption
  <2> QED  BY <2>1, <2>2, PositiveType DEF Init, TypeOK
<1>2. TypeOK /\ [Next]_vars => TypeOK'
  <2> SUFFICES ASSUME TypeOK, [Next]_vars PROVE TypeOK'
    OBVIOUS
  <2>1. ASSUME NEW options \in TtlOptions, NEW hook \in HookChoices,
               NEW b \in BOOLEAN, Set(options, hook, b)
        PROVE  TypeOK'
    <3>1. PICK p, s \in TtlValue :
            Store(capTtl(p, maxTtl), capTtl(s, maxTtl), b)
      BY <2>1, SetStores
    <3>2. capTtl(p, maxTtl) \in TtlValue /\ capTtl(s, maxTtl) \in TtlValue
      BY CapType, SettingTypes
    <3> QED  BY <3>1, <3>2, StoreType
  <2>2. ASSUME NEW options \in TtlOptions, NEW b \in BOOLEAN,
               SetMany(options, b)
        PROVE  TypeOK'
    <3>1. options.primary \in TtlValue /\ options.secondary \in TtlValue
      BY TieredTtlAssumption
    <3> QED
      BY <2>2, <3>1, ResolvedType, StoreType, TieredTtlAssumption
      DEF SetMany
  <2>3. CASE Delete  BY <2>3 DEF Delete, TypeOK
  <2>4. CASE Clear  BY <2>4 DEF Clear, TypeOK
  <2>5. CASE GetStale  BY <2>5 DEF GetStale, Delete, TypeOK
  <2>6. CASE GetSecondary
    <3>1. secondary \in Copy
      BY <2>6 DEF GetSecondary, Live, TypeOK
    <3> QED  BY <2>6, <3>1 DEF GetSecondary, TypeOK, Backfill, Copy, TtlValue
  <2>7. CASE ComputeTtl
    <3>1. backfill \in Backfill
      BY <2>7 DEF ComputeTtl, TypeOK
    <3>2. getCascadingTtl(ttl, PrimaryDefault, Undef) \in TtlValue
      BY ResolvedType, TieredTtlAssumption DEF TtlValue
    <3>3. calculateTtlFromExpiration(
              getCascadingTtl(ttl, PrimaryDefault, Undef),
              backfill.expires, now) \in TtlValue
      BY <3>1, <3>2, CalculateType DEF Backfill, TypeOK
    <3> HIDE DEF TtlValue
    <3> QED  BY <2>7, <3>1, <3>3 DEF ComputeTtl, TypeOK, Backfill
  <2>8. CASE WritePrimary
    <3>1. backfill \in Backfill
      BY <2>8 DEF WritePrimary, TypeOK
    <3>2. keyvExpires(backfill.ttl, PrimaryDefault, now) \in TtlValue
      BY <3>1, KeyvType, TieredTtlAssumption, DefaultsAreTtls, SettingTypes
      DEF Backfill
    <3>3. CASE Stale  BY <2>8, <3>3 DEF WritePrimary, TypeOK
    <3>4. CASE ~Stale
      <4>1. now - backfill.computed \in Int
        BY <3>1 DEF Backfill, TypeOK
      <4> DEFINE copy == [expires |->
                            keyvExpires(backfill.ttl, PrimaryDefault, now),
                          written |-> now, asked |-> backfill.ttl,
                          cap |-> maxTtl, promoted |-> TRUE,
                          deadline |-> backfill.expires,
                          late |-> ComputedLate(backfill),
                          lag |-> now - backfill.computed]
      <4>2. ComputedLate(backfill) \in BOOLEAN
        BY DEF ComputedLate
      <4>3. copy \in Copy
        BY <3>1, <3>2, <4>1, <4>2, SettingTypes DEF TypeOK, Copy, Backfill
      <4>4. primary' = copy /\ UNCHANGED <<secondary, snapshot, tagged,
                                           invalidated>>
        BY <2>8, <3>4 DEF WritePrimary
      <4> HIDE DEF copy
      <4> QED  BY <2>8, <4>3, <4>4 DEF WritePrimary, TypeOK
    <3> QED  BY <3>3, <3>4
  <2>9. CASE InvalidateTag
    <3>1. Undef \in TtlValue
      BY DEF TtlValue
    <3>2. keyvExpires(Undef, TagStoreDefault, now) \in TtlValue
      BY <3>1, KeyvType, TagStoreType, DefaultsAreTtls, SettingTypes
    <3> QED  BY <2>9, <3>2, VersionType DEF InvalidateTag, TypeOK, Meta
  <2>10. ASSUME NEW t \in InstanceTtls, AssignTtl(t) PROVE TypeOK'
    BY <2>10, TieredTtlAssumption, PositiveType DEF AssignTtl, TypeOK
  <2>11. ASSUME NEW t \in MaxTtls, AssignMaxTtl(t) PROVE TypeOK'
    BY <2>11, TieredTtlAssumption, PositiveType DEF AssignMaxTtl, TypeOK
  <2>12. CASE Tick  BY <2>12 DEF Tick, TypeOK
  <2>13. CASE UNCHANGED vars  BY <2>13 DEF vars, TypeOK
  <2> QED
    BY <2>1, <2>2, <2>3, <2>4, <2>5, <2>6, <2>7, <2>8, <2>9, <2>10, <2>11,
       <2>12, <2>13 DEF Next
<1> QED  BY <1>1, <1>2, PTL DEF Spec

-----------------------------------------------------------------------------
\* Every step, as far as the stored copies and the tag metadata go.
LEMMA StepCases ==
    ASSUME TypeOK, [Next]_vars
    PROVE  \/ /\ backfill = None
              /\ \E p, s \in TtlValue, b \in BOOLEAN :
                   Store(capTtl(p, maxTtl), capTtl(s, maxTtl), b)
           \/ Delete \/ Clear \/ GetSecondary \/ ComputeTtl \/ WritePrimary
           \/ InvalidateTag
           \/ now' \in Int /\ now' >= now
              /\ UNCHANGED <<primary, secondary, snapshot, counter, backfill,
                             tagged, invalidated>>
<1>1. ASSUME NEW options \in TtlOptions, NEW hook \in HookChoices,
             NEW b \in BOOLEAN, Set(options, hook, b)
      PROVE  /\ backfill = None
             /\ \E p, s \in TtlValue :
                  Store(capTtl(p, maxTtl), capTtl(s, maxTtl), b)
  <2>1. backfill = None
    BY <1>1 DEF Set
  <2> QED  BY <1>1, <2>1, SetStores
<1>2. ASSUME NEW options \in TtlOptions, NEW b \in BOOLEAN, SetMany(options, b)
      PROVE  /\ backfill = None
             /\ \E p, s \in TtlValue :
                  Store(capTtl(p, maxTtl), capTtl(s, maxTtl), b)
  <2>1. options.primary \in TtlValue /\ options.secondary \in TtlValue
    BY TieredTtlAssumption
  <2>2. /\ getCascadingTtl(ttl, PrimaryDefault, options.primary) \in TtlValue
        /\ getCascadingTtl(ttl, SecondaryDefault, options.secondary)
             \in TtlValue
    BY <2>1, ResolvedType, TieredTtlAssumption
  <2> QED  BY <1>2, <2>2 DEF SetMany, resolveStoreTtl
<1>3. GetStale => Delete
  BY DEF GetStale
<1>4. \/ \E t \in InstanceTtls : AssignTtl(t)
      \/ \E t \in MaxTtls : AssignMaxTtl(t)
      \/ Tick
      \/ UNCHANGED vars
      => now' \in Int /\ now' >= now
         /\ UNCHANGED <<primary, secondary, snapshot, counter, backfill,
                        tagged, invalidated>>
  BY DEF AssignTtl, AssignMaxTtl, Tick, vars, TypeOK
<1>5. CASE \E options \in TtlOptions, hook \in HookChoices, b \in BOOLEAN :
             Set(options, hook, b)
  BY <1>1, <1>5
<1>6. CASE \E options \in TtlOptions, b \in BOOLEAN : SetMany(options, b)
  BY <1>2, <1>6
<1> QED  BY <1>3, <1>4, <1>5, <1>6 DEF Next

\* The TTL handed to a store: none, or not negative, and within the cap.
LEMMA CappedTtl ==
    ASSUME TypeOK, NEW t \in TtlValue
    PROVE  /\ capTtl(t, maxTtl) \in {Undef} \cup Nat
           /\ maxTtl # Undef => capTtl(t, maxTtl) # Undef
                                  /\ capTtl(t, maxTtl) <= maxTtl
<1>1. CASE maxTtl = Undef  BY <1>1, CapNonNegative
<1>2. CASE maxTtl # Undef
  BY <1>2, CapBounds, UndefAssumption DEF TypeOK, DefaultTtl
<1> QED  BY <1>1, <1>2

\* A copy written under a maximum expires within it, unless its TTL is 0.
LEMMA WrittenWithinCap ==
    ASSUME TypeOK, NEW t \in TtlValue, NEW d \in DefaultTtl,
           maxTtl # Undef, capTtl(t, maxTtl) # 0
    PROVE  LET c == Written(capTtl(t, maxTtl), d)
           IN  c.expires # Undef /\ c.expires <= c.written + c.cap
<1> DEFINE u == capTtl(t, maxTtl)
<1>1. u \in Nat \ {0} /\ u <= maxTtl
  BY CappedTtl
<1> HIDE DEF u
<1>2. keyvExpires(u, d, now) = now + u
  BY <1>1, UndefAssumption DEF keyvExpires, Truthy, Or
<1>3. maxTtl \in Nat /\ now \in Nat
  BY UndefAssumption DEF TypeOK, DefaultTtl
<1>4. now + u # Undef /\ now + u <= now + maxTtl
  BY <1>1, <1>3, UndefAssumption
<1> QED  BY <1>2, <1>4 DEF Written, u

\* No write with a nonzero TTL outlives maxTtl.
THEOREM CapHolds == Spec => []CapRespected
<1>1. Init => CapRespected
  BY DEF Init, CapRespected, Copies
<1>2. TypeOK /\ CapRespected /\ [Next]_vars => CapRespected'
  <2> SUFFICES ASSUME TypeOK, CapRespected, [Next]_vars PROVE CapRespected'
    OBVIOUS
  <2>1. ASSUME NEW p \in TtlValue, NEW s \in TtlValue, NEW b \in BOOLEAN,
               Store(capTtl(p, maxTtl), capTtl(s, maxTtl), b)
        PROVE  CapRespected'
    <3>1. /\ primary' = Written(capTtl(p, maxTtl), PrimaryDefault)
          /\ secondary' \in {Written(capTtl(s, maxTtl), SecondaryDefault),
                             None}
      BY <2>1 DEF Store, TagSnapshot, SnapshotOf
    <3>2. ASSUME NEW t \in TtlValue, NEW d \in DefaultTtl,
                 Written(capTtl(t, maxTtl), d).cap # Undef,
                 Written(capTtl(t, maxTtl), d).asked # 0
          PROVE  LET c == Written(capTtl(t, maxTtl), d)
                 IN  c.expires # Undef /\ c.expires <= c.written + c.cap
      BY <3>2, WrittenWithinCap DEF Written
    <3> QED
      BY <3>1, <3>2, TieredTtlAssumption DEF CapRespected, Copies
  <2>2. CASE Delete \/ Clear
    BY <2>2 DEF Delete, Clear, CapRespected, Copies
  <2>3. CASE GetSecondary  BY <2>3 DEF GetSecondary, CapRespected, Copies
  <2>4. CASE WritePrimary  BY <2>4 DEF WritePrimary, CapRespected, Copies
  <2>5. CASE UNCHANGED <<primary, secondary>>
    BY <2>5 DEF CapRespected, Copies
  <2> QED
    BY <2>1, <2>2, <2>3, <2>4, <2>5, StepCases DEF ComputeTtl, InvalidateTag
<1> QED  BY <1>1, <1>2, Typing, PTL DEF Spec

-----------------------------------------------------------------------------
\* The TTL computed inside a back-fill, as long as it was computed in time.
BackfillTtlOK ==
    backfill # None /\ backfill.step = "write"
    /\ backfill.expires # Undef /\ backfill.expires > backfill.computed
    => backfill.ttl \in Nat \ {0}
       /\ backfill.computed + backfill.ttl <= backfill.expires

BackfillInv == BackfillTtlOK /\ BackfillBounded

\* A copy back-filled in time is bounded by its original.
LEMMA PromotedBounded ==
    ASSUME TypeOK, BackfillTtlOK, backfill # None, backfill.step = "write",
           backfill.expires # Undef, backfill.expires > backfill.computed
    PROVE  LET e == keyvExpires(backfill.ttl, PrimaryDefault, now)
           IN  e # Undef /\ e \in Int
               /\ e <= backfill.expires + (now - backfill.computed)
<1>1. backfill.ttl \in Nat \ {0}
      /\ backfill.computed + backfill.ttl <= backfill.expires
  BY DEF BackfillTtlOK
<1>2. keyvExpires(backfill.ttl, PrimaryDefault, now) = now + backfill.ttl
  BY <1>1, UndefAssumption DEF keyvExpires, Truthy, Or
<1>3. backfill.computed \in Nat /\ now \in Nat /\ backfill.expires \in Int
  BY UndefAssumption DEF TypeOK, Backfill, TtlValue
<1> QED  BY <1>1, <1>2, <1>3, UndefAssumption

\* A copy back-filled in time lives no longer than what it was copied from.
THEOREM BackfillHolds == Spec => []BackfillInv
<1>1. Init => BackfillInv
  BY DEF Init, BackfillInv, BackfillTtlOK, BackfillBounded, Copies
<1>2. TypeOK /\ BackfillInv /\ [Next]_vars => BackfillInv'
  <2> SUFFICES ASSUME TypeOK, BackfillInv, [Next]_vars PROVE BackfillInv'
    OBVIOUS
  <2> USE DEF BackfillInv
  <2>1. ASSUME NEW p \in TtlValue, NEW s \in TtlValue, NEW b \in BOOLEAN,
               Store(capTtl(p, maxTtl), capTtl(s, maxTtl), b), backfill = None
        PROVE  BackfillInv'
    BY <2>1 DEF Store, TagSnapshot, SnapshotOf, Written, BackfillTtlOK, BackfillBounded, Copies
  <2>2. CASE Delete \/ Clear
    BY <2>2 DEF Delete, Clear, BackfillTtlOK, BackfillBounded, Copies
  <2>3. CASE GetSecondary
    BY <2>3 DEF GetSecondary, BackfillTtlOK, BackfillBounded, Copies
  <2>4. CASE ComputeTtl
    <3>1. backfill \in Backfill /\ now \in Nat
      BY <2>4 DEF ComputeTtl, TypeOK
    <3>2. getCascadingTtl(ttl, PrimaryDefault, Undef) \in DefaultTtl
      BY TieredTtlAssumption DEF getCascadingTtl, Or, TypeOK
    <3>3. backfill.expires # Undef /\ backfill.expires > now
          => LET c == calculateTtlFromExpiration(
                        getCascadingTtl(ttl, PrimaryDefault, Undef),
                        backfill.expires, now)
             IN  c \in Nat \ {0} /\ now + c <= backfill.expires
      BY <3>1, <3>2, CalculateBounds DEF Backfill, TtlValue, DefaultTtl
    <3> QED
      BY <2>4, <3>1, <3>3
      DEF ComputeTtl, BackfillTtlOK, BackfillBounded, Copies, Backfill
  <2>5. CASE WritePrimary
    <3>1. backfill' = None
      BY <2>5 DEF WritePrimary
    <3>2. CASE Stale
      BY <2>5, <3>1, <3>2
      DEF WritePrimary, BackfillTtlOK, BackfillBounded, Copies
    <3>3. CASE ~Stale
      <4>1. /\ primary'.deadline = backfill.expires
            /\ primary'.lag = now - backfill.computed
            /\ primary'.expires =
                 keyvExpires(backfill.ttl, PrimaryDefault, now)
            /\ primary'.late = ComputedLate(backfill)
            /\ secondary' = secondary
        BY <2>5, <3>3 DEF WritePrimary
      <4>2. backfill # None /\ backfill.step = "write"
        BY <2>5 DEF WritePrimary
      <4>3. backfill.expires # Undef => backfill.expires \in Int
            /\ backfill.computed \in Nat
        BY <4>2 DEF TypeOK, Backfill, TtlValue
      <4>4. ~primary'.late /\ primary'.deadline # Undef
            => primary'.expires # Undef
               /\ primary'.expires <= primary'.deadline + primary'.lag
        <5> SUFFICES ASSUME ~primary'.late, primary'.deadline # Undef
                     PROVE  /\ primary'.expires # Undef
                            /\ primary'.expires
                                 <= primary'.deadline + primary'.lag
          OBVIOUS
        <5>1. ~ComputedLate(backfill) /\ backfill.expires # Undef
          BY <4>1
        <5>2. backfill.expires > backfill.computed
          BY <4>3, <5>1 DEF ComputedLate
        <5> QED  BY <4>1, <4>2, <5>1, <5>2, PromotedBounded
      <4> QED
        BY <3>1, <4>1, <4>4 DEF BackfillTtlOK, BackfillBounded, Copies
    <3> QED  BY <3>2, <3>3
  <2>6. CASE UNCHANGED <<primary, secondary, backfill>>
    BY <2>6 DEF BackfillTtlOK, BackfillBounded, Copies
  <2> QED
    BY <2>1, <2>2, <2>3, <2>4, <2>5, <2>6, StepCases DEF InvalidateTag
<1> QED  BY <1>1, <1>2, Typing, PTL DEF Spec

\* The property itself, for every run of the specification.
THEOREM BackfillNeverOutlives == Spec => []BackfillBounded
BY BackfillHolds, PTL DEF BackfillInv

-----------------------------------------------------------------------------
\* The tag snapshot covers copy c; the tag store adds no expiry of its own.
Covers(c) ==
    /\ snapshot # None
    /\ \/ snapshot.expires = Undef
       \/ c.expires # Undef /\ c.expires <= snapshot.expires + c.lag

TagStoreKeeps == HasSecondary => SecondaryDefault = Undef

\* What a back-fill carries is covered as the secondary copy was, and that one
\* is always a plain write.
SecondaryPlain ==
    secondary # None =>
        ~secondary.promoted /\ ~secondary.late /\ secondary.lag = 0

BackfillCovered ==
    tagged /\ backfill # None =>
        /\ snapshot # None
        /\ \/ snapshot.expires = Undef
           \/ /\ backfill.expires # Undef
              /\ backfill.expires <= snapshot.expires

SnapshotInv == SnapshotCovers /\ BackfillCovered /\ SecondaryPlain

\* After a set the snapshot outlives the copies the set wrote.
LEMMA StoreCovers ==
    ASSUME TypeOK, TagStoreKeeps, NEW p \in {Undef} \cup Nat,
           NEW s \in {Undef} \cup Nat, Store(p, s, TRUE)
    PROVE  /\ Covers(primary)'
           /\ secondary' # None => Covers(secondary)'
<1> DEFINE m == maxStoreTtl(HasSecondary, p, s)
<1>0. p \in TtlValue /\ s \in TtlValue
  BY DEF TtlValue
<1>1. /\ primary' # None /\ snapshot' # None
      /\ primary'.lag = 0 /\ primary'.expires = keyvExpires(p, PrimaryDefault, now)
      /\ snapshot'.expires = keyvExpires(m, TagStoreDefault, now)
  <2>1. Written(p, PrimaryDefault) \in Copy
    BY <1>0, WrittenType, TieredTtlAssumption
  <2>2. Written(p, PrimaryDefault).lag = 0
        /\ Written(p, PrimaryDefault).expires =
             keyvExpires(p, PrimaryDefault, now)
    BY DEF Written
  <2>3. m \in TtlValue
    BY <1>0, MaxStoreType, TieredTtlAssumption
  <2>4. keyvExpires(m, TagStoreDefault, now) \in TtlValue
    BY <2>3, KeyvType, TagStoreType, DefaultsAreTtls, SettingTypes
  <2>5. snapshot' = [expires |-> keyvExpires(m, TagStoreDefault, now),
                     version |-> Version]
    BY DEF Store, TagSnapshot, SnapshotOf
  <2>6. snapshot' \in Meta
    BY <2>4, <2>5, VersionType DEF Meta
  <2> QED  BY <2>1, <2>2, <2>5, <2>6, NoneAssumption DEF Store, TagSnapshot, SnapshotOf
<1>2. now \in Nat /\ PrimaryDefault \in {Undef} \cup (Nat \ {0})
  BY TieredTtlAssumption DEF TypeOK, DefaultTtl
<1>3. CASE ~HasSecondary
  <2>1. m = p /\ TagStoreDefault = PrimaryDefault /\ secondary' = None
    BY <1>3 DEF maxStoreTtl, TagStoreDefault, Store, TagSnapshot, SnapshotOf
  <2>2. primary'.expires = snapshot'.expires
    BY <1>1, <2>1
  <2>3. primary'.expires \in TtlValue
    BY <1>0, <1>1, KeyvType, TieredTtlAssumption, DefaultsAreTtls,
       SettingTypes
  <2> QED  BY <1>1, <2>1, <2>2, <2>3 DEF Covers, TtlValue
<1>4. CASE HasSecondary
  <2>1. TagStoreDefault = Undef /\ SecondaryDefault = Undef
        /\ HasSecondary = TRUE
    BY <1>4, TieredTtlAssumption DEF TagStoreKeeps, TagStoreDefault
  <2>2. /\ secondary' # None /\ secondary'.lag = 0
        /\ secondary'.expires = keyvExpires(s, SecondaryDefault, now)
    <3>1. Written(s, SecondaryDefault) \in Copy
      BY <1>0, WrittenType, TieredTtlAssumption
    <3> QED  BY <1>4, <3>1, NoneAssumption DEF Store, TagSnapshot, SnapshotOf, Written
  <2>3. CASE ~Truthy(p) \/ ~Truthy(s)
    <3>1. m = Undef
      BY <2>1, <2>3, MaxStoreCovers
    <3>2. snapshot'.expires = Undef
      BY <1>1, <2>1, <3>1 DEF keyvExpires, Or, Truthy
    <3> QED  BY <1>1, <2>2, <3>2 DEF Covers
  <2>4. CASE Truthy(p) /\ Truthy(s)
    <3>1. p \in Nat \ {0} /\ s \in Nat \ {0}
      BY <2>4 DEF Truthy
    <3>2. m \in Nat \ {0} /\ p <= m /\ s <= m
      <4> DEFINE n == maxStoreTtl(TRUE, p, s)
      <4>1. n \in Nat /\ p <= n /\ s <= n
        BY <2>4, MaxStoreCovers
      <4>2. m = n
        BY <2>1
      <4> HIDE DEF m, n
      <4> QED  BY <3>1, <4>1, <4>2
    <3> HIDE DEF m
    <3>3. ASSUME NEW t \in Nat \ {0}, NEW d
          PROVE  keyvExpires(t, d, now) = now + t
      BY UndefAssumption DEF keyvExpires, Or, Truthy
    <3> QED
      BY <1>1, <1>2, <2>2, <3>1, <3>2, <3>3, UndefAssumption DEF Covers
  <2> QED  BY <2>3, <2>4
<1> QED  BY <1>3, <1>4, TieredTtlAssumption

\* Unless the tag store's Keyv has a default TTL of its own, the snapshot of a
\* tagged write outlives every copy of it, for all TTLs of caller, hook, store
\* and instance, and through back-fills and changes of the settings.
THEOREM SnapshotHolds ==
    ASSUME TagStoreKeeps
    PROVE  Spec => []SnapshotInv
<1>1. Init => SnapshotInv
  BY DEF Init, SnapshotInv, SnapshotCovers, BackfillCovered, SecondaryPlain,
         Copies
<1>2. TypeOK /\ BackfillInv /\ SnapshotInv /\ [Next]_vars
      => SnapshotInv'
  <2> SUFFICES ASSUME TypeOK, BackfillInv, SnapshotInv, [Next]_vars
               PROVE  SnapshotInv'
    OBVIOUS
  <2> USE DEF SnapshotInv
  <2>1. ASSUME NEW p \in TtlValue, NEW s \in TtlValue, NEW b \in BOOLEAN,
               Store(capTtl(p, maxTtl), capTtl(s, maxTtl), b), backfill = None
        PROVE  SnapshotInv'
    <3>1. SecondaryPlain' /\ BackfillCovered'
      BY <2>1 DEF Store, TagSnapshot, SnapshotOf, Written, SecondaryPlain, BackfillCovered
    <3>2. CASE b = TRUE
      <4>1. capTtl(p, maxTtl) \in {Undef} \cup Nat
            /\ capTtl(s, maxTtl) \in {Undef} \cup Nat
        BY CappedTtl
      <4> QED  BY <2>1, <3>1, <3>2, <4>1, StoreCovers
               DEF SnapshotCovers, Copies, Covers
    <3>3. CASE b = FALSE
      BY <2>1, <3>1, <3>3 DEF Store, TagSnapshot, SnapshotOf, SnapshotCovers
    <3> QED  BY <3>2, <3>3
  <2>2. CASE Delete \/ Clear
    BY <2>2
    DEF Delete, Clear, SnapshotCovers, SecondaryPlain, BackfillCovered, Copies
  <2>3. CASE GetSecondary
    <3>1. /\ secondary # None /\ primary' = None
          /\ UNCHANGED <<secondary, snapshot, tagged>>
          /\ backfill'.expires = secondary.expires
      BY <2>3 DEF GetSecondary, Live
    <3>2. SecondaryPlain' /\ SnapshotCovers'
      BY <3>1 DEF SecondaryPlain, SnapshotCovers, Copies
    <3>3. tagged => /\ snapshot # None
                    /\ \/ snapshot.expires = Undef
                       \/ /\ secondary.expires # Undef
                          /\ secondary.expires <= snapshot.expires + 0
      BY <3>1 DEF SnapshotCovers, SecondaryPlain, Copies
    <3>4. snapshot # None => snapshot.expires \in TtlValue
      BY DEF TypeOK, Meta
    <3>5. BackfillCovered'
      BY <3>1, <3>3, <3>4 DEF BackfillCovered, TtlValue
    <3> QED  BY <3>2, <3>5
  <2>4. CASE ComputeTtl
    <3>1. UNCHANGED <<primary, secondary, snapshot, tagged>>
          /\ backfill # None
      BY <2>4 DEF ComputeTtl
    <3>2. backfill'.expires = backfill.expires
      BY <2>4, <3>1 DEF ComputeTtl, TypeOK, Backfill
    <3> QED
      BY <3>1, <3>2 DEF SnapshotCovers, SecondaryPlain, BackfillCovered, Copies
  <2>5. CASE WritePrimary
    <3>1. backfill' = None /\ backfill # None
      BY <2>5 DEF WritePrimary
    <3>2. CASE Stale
      BY <2>5, <3>1, <3>2
      DEF WritePrimary, SnapshotCovers, SecondaryPlain, BackfillCovered, Copies
    <3>3. CASE ~Stale
      <4>1. /\ primary'.deadline = backfill.expires
            /\ primary'.late = ComputedLate(backfill)
            /\ primary'.promoted = TRUE
            /\ UNCHANGED <<secondary, snapshot, tagged>>
        BY <2>5, <3>3 DEF WritePrimary
      <4>2. SecondaryPlain' /\ BackfillCovered'
        BY <3>1, <4>1 DEF SecondaryPlain, BackfillCovered
      <4>3. ASSUME tagged, ~ComputedLate(backfill)
            PROVE  Covers(primary)'
        <5>1. snapshot # None /\ (snapshot.expires = Undef
                \/ (backfill.expires # Undef
                      /\ backfill.expires <= snapshot.expires))
          BY <3>1, <4>3 DEF BackfillCovered
        <5>2. CASE snapshot.expires = Undef
          BY <4>1, <5>1, <5>2 DEF Covers
        <5>3. CASE snapshot.expires # Undef
          <6>1. /\ backfill.expires # Undef
                /\ backfill.expires <= snapshot.expires
            BY <5>1, <5>3
          <6>2. /\ backfill.step = "write"
                /\ primary'.expires =
                     keyvExpires(backfill.ttl, PrimaryDefault, now)
                /\ primary'.lag = now - backfill.computed
            BY <2>5, <3>3 DEF WritePrimary
          <6>3. backfill.computed \in Nat /\ backfill.expires \in Int
                /\ snapshot.expires \in Int /\ now \in Nat
            BY <3>1, <5>1, <5>3, <6>1 DEF TypeOK, Backfill, Meta, TtlValue
          <6>4. backfill.expires > backfill.computed
            BY <4>3, <6>1, <6>3 DEF ComputedLate
          <6>5. /\ primary'.expires # Undef /\ primary'.expires \in Int
                /\ primary'.expires <=
                     backfill.expires + (now - backfill.computed)
            BY <3>1, <6>1, <6>2, <6>4, PromotedBounded DEF BackfillInv
          <6> QED  BY <4>1, <5>1, <6>1, <6>2, <6>3, <6>5 DEF Covers
        <5> QED  BY <5>2, <5>3
      <4>4. SnapshotCovers'
        BY <4>1, <4>3 DEF SnapshotCovers, Covers, Copies
      <4> QED  BY <4>2, <4>4
    <3> QED  BY <3>2, <3>3
  <2>6. CASE InvalidateTag
    BY <2>6
    DEF InvalidateTag, SnapshotCovers, SecondaryPlain, BackfillCovered, Copies
  <2>7. CASE UNCHANGED <<primary, secondary, snapshot, backfill, tagged>>
    BY <2>7 DEF SnapshotCovers, SecondaryPlain, BackfillCovered, Copies
  <2> QED  BY <2>1, <2>2, <2>3, <2>4, <2>5, <2>6, <2>7, StepCases
<1> QED  BY <1>1, <1>2, Typing, BackfillHolds, PTL DEF Spec

\* The tag snapshot outlives every copy, if the store that keeps it adds no expiry.
THEOREM SnapshotOutlivesCopies ==
    ASSUME TagStoreKeeps
    PROVE  Spec => []SnapshotCovers
BY SnapshotHolds, PTL DEF SnapshotInv

-----------------------------------------------------------------------------
\* Counters stay, a snapshot never runs ahead of the counter, and the history
\* variables say exactly when it lags behind.
TagStoreImmortal == TagStoreDefault = Undef

CounterStays == counter # None => counter.expires = Undef

SnapshotVersion ==
    /\ invalidated => tagged
    /\ snapshot # None =>
          /\ tagged
          /\ invalidated => snapshot.version < Version
          /\ ~invalidated => snapshot.version = Version

VersionInv == CounterStays /\ SnapshotVersion

\* A version written without expiry does not change with time.
LEMMA VersionStays ==
    ASSUME TypeOK, CounterStays, counter' = counter
    PROVE  Version' = Version
BY DEF CounterStays, Version, Live, notExpired

\* If the tag store keeps what it is given, an invalidated key is found stale
\* and a key nothing invalidated is not.
THEOREM VersionHolds ==
    ASSUME TagStoreImmortal
    PROVE  Spec => []VersionInv
<1>1. Init => VersionInv
  BY DEF Init, VersionInv, CounterStays, SnapshotVersion
<1>2. TypeOK /\ VersionInv /\ [Next]_vars => VersionInv'
  <2> SUFFICES ASSUME TypeOK, VersionInv, [Next]_vars PROVE VersionInv'
    OBVIOUS
  <2> USE DEF VersionInv
  <2>1. ASSUME NEW p \in TtlValue, NEW s \in TtlValue, NEW b \in BOOLEAN,
               Store(capTtl(p, maxTtl), capTtl(s, maxTtl), b)
        PROVE  VersionInv'
    <3>1. counter' = counter /\ Version' = Version
      BY <2>1, VersionStays DEF Store, TagSnapshot, SnapshotOf
    <3>2. CASE b
      BY <2>1, <3>1, <3>2 DEF Store, TagSnapshot, SnapshotOf, CounterStays, SnapshotVersion
    <3>3. CASE ~b
      BY <2>1, <3>1, <3>3 DEF Store, TagSnapshot, SnapshotOf, CounterStays, SnapshotVersion
    <3> QED  BY <3>2, <3>3
  <2>2. CASE Delete  BY <2>2 DEF Delete, CounterStays, SnapshotVersion
  <2>3. CASE Clear  BY <2>3 DEF Clear, CounterStays, SnapshotVersion
  <2>4. CASE WritePrimary
    <3>1. counter' = counter /\ Version' = Version
      BY <2>4, VersionStays DEF WritePrimary
    <3>2. CASE Stale
      BY <2>4, <3>1, <3>2 DEF WritePrimary, CounterStays, SnapshotVersion
    <3>3. CASE ~Stale
      BY <2>4, <3>1, <3>3 DEF WritePrimary, CounterStays, SnapshotVersion
    <3> QED  BY <3>2, <3>3
  <2>5. CASE InvalidateTag
    <3>1. counter'.expires = Undef /\ counter'.version = Version + 1
          /\ UNCHANGED <<snapshot, tagged, now>> /\ invalidated' = tagged
      BY <2>5
      DEF InvalidateTag, TagStoreImmortal, keyvExpires, Or, Truthy
    <3>2. counter' # None
      <4>1. Undef \in TtlValue /\ Version + 1 \in Nat
        BY VersionType DEF TtlValue
      <4>2. keyvExpires(Undef, TagStoreDefault, now) \in TtlValue
        BY <4>1, KeyvType, TagStoreType, DefaultsAreTtls, SettingTypes
      <4>3. counter' \in Meta
        BY <2>5, <4>1, <4>2 DEF InvalidateTag, Meta
      <4> QED  BY <4>3, NoneAssumption
    <3>3. Version' = Version + 1
      BY <3>1, <3>2 DEF Version, Live, notExpired
    <3>4. snapshot # None => snapshot.version < Version + 1
      BY VersionType DEF SnapshotVersion, TypeOK, Meta
    <3> QED  BY <3>1, <3>2, <3>3, <3>4 DEF CounterStays, SnapshotVersion
  <2>6. CASE UNCHANGED <<snapshot, counter, tagged, invalidated>>
    <3>1. Version' = Version
      BY <2>6, VersionStays
    <3> QED  BY <2>6, <3>1 DEF CounterStays, SnapshotVersion
  <2> QED
    BY <2>1, <2>2, <2>3, <2>4, <2>5, <2>6, StepCases
    DEF GetSecondary, ComputeTtl
<1> QED  BY <1>1, <1>2, Typing, PTL DEF Spec

\* No get serves a copy of a value one of whose tags was invalidated.
THEOREM InvalidationReaches ==
    ASSUME TagStoreImmortal
    PROVE  Spec => []InvalidationReachesCopies
<1>1. TypeOK /\ SnapshotInv /\ VersionInv => InvalidationReachesCopies
  <2> SUFFICES ASSUME TypeOK, SnapshotInv, VersionInv, invalidated,
                      NEW c \in Copies, ~c.late,
                      c.expires = Undef \/ now + c.lag <= c.expires
               PROVE  Stale
    BY DEF InvalidationReachesCopies
  <2>1. snapshot # None
        /\ (snapshot.expires = Undef
              \/ (c.expires # Undef
                    /\ c.expires <= snapshot.expires + c.lag))
    BY DEF SnapshotInv, SnapshotCovers, VersionInv, SnapshotVersion
  <2>2. snapshot \in Meta /\ c \in Copy /\ now \in Nat
    BY <2>1 DEF TypeOK, Copies
  <2>3. Live(snapshot)
    BY <2>1, <2>2, UndefAssumption
    DEF Live, notExpired, Meta, Copy, TtlValue
  <2>4. snapshot.version < Version
    BY <2>1 DEF VersionInv, SnapshotVersion
  <2> QED  BY <2>2, <2>3, <2>4, VersionType DEF Stale, Meta
<1>2. TagStoreKeeps
  BY DEF TagStoreImmortal, TagStoreKeeps, TagStoreDefault
<1> QED  BY <1>1, <1>2, Typing, SnapshotHolds, VersionHolds, PTL

\* A value nothing invalidated is never taken for stale.
THEOREM FreshNeverStale ==
    ASSUME TagStoreImmortal
    PROVE  Spec => []FreshStaysFresh
<1>1. VersionInv => FreshStaysFresh
  BY DEF VersionInv, SnapshotVersion, FreshStaysFresh, Stale, Live
<1> QED  BY <1>1, VersionHolds, PTL

\* Copies respect maxTtl and do not outlive what they were made from.
THEOREM LifetimesHold == Spec => []LifetimesBounded
BY CapHolds, BackfillNeverOutlives, PTL DEF LifetimesBounded

-----------------------------------------------------------------------------
(* getOrSet, whose values those are: its callers, for any number of them.  *)


\* An outcome is well typed if its value or reason is.
LEMMA OutcomeType ==
    ASSUME NEW v \in Content
    PROVE  Resolved(v) \in Outcome /\ Rejected(v) \in Outcome
BY DEF Resolved, Rejected, Outcome

\* The outcome after an error is one of the two.
LEMMA ErrorType ==
    ASSUME NEW o, NEW t, NEW e \in Content, NEW v \in Content
    PROVE  AfterError(o, t, e, v) \in Outcome
BY OutcomeType DEF AfterError

\* So is what the followers get.
LEMMA SharedType ==
    ASSUME NEW o \in Outcome
    PROVE  Shared(o) \in Outcome
BY OutcomeType DEF Shared, Content

\* A caller that is done is well typed.
LEMMA DoneType ==
    ASSUME CallersTypeOK, NEW p \in Callers, NEW o \in Outcome
    PROVE  /\ Done(p, o) \in Caller
           /\ Done(p, o).at = "done" /\ Done(p, o).outcome = o
           /\ Done(p, o).excuse = caller[p].excuse /\ ~Done(p, o).held
<1>1. caller[p] \in Caller
  BY DEF CallersTypeOK
<1> QED  BY <1>1 DEF Done, Caller, Content

\* A change of the content changes history only.
LEMMA HeldType ==
    ASSUME CallersTypeOK, NEW v
    PROVE  /\ Held(v) \in [Callers -> Caller]
           /\ \A q \in Callers :
                 /\ Held(v)[q].at = caller[q].at
                 /\ Held(v)[q].value = caller[q].value
                 /\ Held(v)[q].outcome = caller[q].outcome
                 /\ Held(v)[q].excuse = caller[q].excuse
                 /\ Held(v)[q].held => caller[q].held /\ v # undefined
<1>1. \A q \in Callers : caller[q] \in Caller
  BY DEF CallersTypeOK
<1> DEFINE h(q) == caller[q].held /\ v # undefined
<1>2. \A q \in Callers : h(q) \in BOOLEAN /\ (h(q) => caller[q].held /\ v # undefined)
  BY <1>1 DEF Caller
<1>3. Held(v) = [q \in Callers |-> [caller[q] EXCEPT !.held = h(q)]]
  BY DEF Held
<1> HIDE DEF h
<1>4. Held(v) \in [Callers -> Caller]
  BY <1>1, <1>2, <1>3 DEF Caller
<1> QED  BY <1>1, <1>2, <1>3, <1>4 DEF Caller

\* An excuse changes history only, of a leader and its followers.
LEMMA ExcusedType ==
    ASSUME CallersTypeOK, NEW p \in Callers
    PROVE  /\ Excused(p) \in [Callers -> Caller]
           /\ \A q \in Callers :
                 /\ Excused(p)[q].at = caller[q].at
                 /\ Excused(p)[q].value = caller[q].value
                 /\ Excused(p)[q].outcome = caller[q].outcome
                 /\ Excused(p)[q].held = caller[q].held
                 /\ Excused(p)[q].excuse
                        <=> (caller[q].excuse \/ q = p \/ q \in callbacks)
<1>1. \A q \in Callers : caller[q] \in Caller
  BY DEF CallersTypeOK
<1> DEFINE x(q) == caller[q].excuse \/ q = p \/ q \in callbacks
<1>2. \A q \in Callers :
         /\ x(q) \in BOOLEAN
         /\ x(q) <=> (caller[q].excuse \/ q = p \/ q \in callbacks)
  BY <1>1 DEF Caller
<1>3. Excused(p) = [q \in Callers |-> [caller[q] EXCEPT !.excuse = x(q)]]
  BY DEF Excused
<1> HIDE DEF x
<1>4. Excused(p) \in [Callers -> Caller]
  BY <1>1, <1>2, <1>3 DEF Caller
<1> QED  BY <1>1, <1>2, <1>3, <1>4 DEF Caller

\* Every reachable state is well typed.
THEOREM CallersTyping == CallersSpec => []CallersTypeOK
<1>1. CallersInit => CallersTypeOK
  BY DEF CallersInit, CallersTypeOK, Content
<1>2. CallersTypeOK /\ [CallersNext]_callerVars => CallersTypeOK'
  <2> SUFFICES ASSUME CallersTypeOK, [CallersNext]_callerVars PROVE CallersTypeOK'
    OBVIOUS
  <2>0. \A q \in Callers : caller[q] \in Caller
    BY DEF CallersTypeOK
  <2>1. ASSUME NEW p \in Callers, NEW o \in Options, Call(p, o) PROVE CallersTypeOK'
    <3> DEFINE h == store # undefined
    <3>1. Resolved(undefined) \in Outcome /\ undefined \in Content /\ h \in BOOLEAN
      BY OutcomeType DEF Content
    <3>2. caller' = [caller EXCEPT ![p] =
             [at |-> "get", options |-> o, value |-> undefined,
              outcome |-> Resolved(undefined), held |-> h, excuse |-> FALSE]]
      BY <2>1 DEF Call
    <3> HIDE DEF h
    <3>3. [at |-> "get", options |-> o, value |-> undefined,
           outcome |-> Resolved(undefined), held |-> h, excuse |-> FALSE] \in Caller
      BY <3>1 DEF Caller
    <3> QED  BY <2>1, <3>2, <3>3 DEF Call, CallersTypeOK
  <2>2. ASSUME NEW p \in Callers, ReadStore(p) PROVE CallersTypeOK'
    <3> DEFINE s == [caller[p] EXCEPT !.at = "read", !.value = store]
    <3>1. s \in Caller
      BY <2>0 DEF CallersTypeOK, Caller
    <3>2. caller' = [caller EXCEPT ![p] = s]
      BY <2>2 DEF ReadStore, CallersTypeOK
    <3> HIDE DEF s
    <3> QED  BY <2>2, <3>1, <3>2 DEF ReadStore, CallersTypeOK
  <2>3. ASSUME NEW p \in Callers, Hit(p) PROVE CallersTypeOK'
    <3>1. Done(p, Resolved(caller[p].value)) \in Caller
      BY <2>0, OutcomeType, DoneType DEF Caller
    <3> QED  BY <2>3, <3>1 DEF Hit, CallersTypeOK
  <2>4. ASSUME NEW p \in Callers, Lead(p) PROVE CallersTypeOK'
    BY <2>0, <2>4 DEF Lead, CallersTypeOK, Caller, addKey
  <2>5. ASSUME NEW p \in Callers, enqueue(p) PROVE CallersTypeOK'
    <3> DEFINE x == \E q \in Callers : Leading(q) /\ caller[q].excuse
    <3>1. x \in BOOLEAN
      OBVIOUS
    <3>2. caller' = [caller EXCEPT ![p].at = "wait", ![p].excuse = x]
      BY <2>5 DEF enqueue
    <3> HIDE DEF x
    <3>3. [caller[p] EXCEPT !.at = "wait", !.excuse = x] \in Caller
      BY <2>0, <3>1 DEF Caller
    <3>4. caller' = [caller EXCEPT
                        ![p] = [caller[p] EXCEPT !.at = "wait", !.excuse = x]]
      BY <3>2 DEF CallersTypeOK
    <3> QED  BY <2>5, <3>3, <3>4 DEF enqueue, CallersTypeOK
  <2>6. ASSUME NEW p \in Callers, coalesce(p) PROVE CallersTypeOK'
    <3>1. \A q \in Callers : Done(q, Shared(caller[p].outcome)) \in Caller
                              /\ Done(q, caller[p].outcome) \in Caller
      BY <2>0, SharedType, DoneType DEF Caller
    <3>2. \A q \in Callers : caller'[q] \in Caller
      BY <2>0, <2>6, <3>1 DEF coalesce
    <3> QED  BY <2>6, <3>2 DEF coalesce, CallersTypeOK, removeKey
  <2>7. ASSUME NEW p \in Callers, LandSet(p) PROVE CallersTypeOK'
    <3> DEFINE c == Held(caller[p].value)
               w == Resolved(caller[p].value)
               s == [c[p] EXCEPT !.at = "settle", !.outcome = w]
    <3>1. c \in [Callers -> Caller] /\ w \in Outcome
      BY <2>0, HeldType, OutcomeType DEF Caller
    <3>2. caller' = [c EXCEPT ![p].at = "settle", ![p].outcome = w]
      BY <2>7 DEF LandSet
    <3> HIDE DEF c, w
    <3>3. s \in Caller
      BY <3>1 DEF Caller
    <3>4. caller' = [c EXCEPT ![p] = s]
      BY <3>1, <3>2
    <3> QED  BY <2>0, <2>7, <3>1, <3>3, <3>4 DEF LandSet, CallersTypeOK, Caller
  <2>8. ASSUME NEW p \in Callers, LandError(p) PROVE CallersTypeOK'
    <3> DEFINE c == Held(caller[p].value)
    <3>1. c \in [Callers -> Caller]
      BY HeldType
    <3>2. caller' = [c EXCEPT ![p].at = "settle"]
      BY <2>8 DEF LandError
    <3> HIDE DEF c
    <3>3. [c[p] EXCEPT !.at = "settle"] \in Caller
      BY <3>1 DEF Caller
    <3>4. caller' \in [Callers -> Caller]
      BY <3>1, <3>2, <3>3
    <3> QED  BY <2>0, <2>8, <3>4 DEF LandError, CallersTypeOK, Caller
  <2>9. ASSUME NEW p \in Callers, RejectError(p) PROVE CallersTypeOK'
    BY <2>0, <2>9 DEF RejectError, CallersTypeOK, Caller
  <2>10. ASSUME NEW p \in Callers, NEW v \in Values \cup {undefined},
                RunReturns(p, v)
         PROVE  CallersTypeOK'
    <3> DEFINE c == IF v = undefined THEN Excused(p) ELSE caller
               s == [c[p] EXCEPT !.at = "set", !.value = v]
    <3>1. c \in [Callers -> Caller] /\ v \in Content
      BY ExcusedType DEF Content, CallersTypeOK
    <3>2. caller' = [c EXCEPT ![p].at = "set", ![p].value = v]
      BY <2>10 DEF RunReturns
    <3> HIDE DEF c
    <3>3. s \in Caller
      BY <3>1 DEF Caller
    <3>4. caller' = [c EXCEPT ![p] = s]
      BY <3>1, <3>2
    <3> QED  BY <2>10, <3>1, <3>3, <3>4 DEF RunReturns, CallersTypeOK
  <2>11. ASSUME NEW p \in Callers, NEW e \in Errors \cup {undefined},
                RunRejects(p, e)
         PROVE  CallersTypeOK'
    <3> DEFINE c == Excused(p)
               w == AfterError(caller[p].options, "function", e, undefined)
               t == IF caller[p].options.cacheErrors THEN "setError" ELSE "settle"
               s == [c[p] EXCEPT !.at = t, !.value = e, !.outcome = w]
    <3>1. c \in [Callers -> Caller] /\ e \in Content
      BY ExcusedType DEF Content
    <3>2. w \in Outcome /\ t \in {"setError", "settle"}
      BY <3>1, ErrorType DEF Content
    <3>3. caller' = [c EXCEPT ![p].at = t, ![p].value = e, ![p].outcome = w]
      BY <2>11 DEF RunRejects
    <3> HIDE DEF c, w, t
    <3>4. s \in Caller
      BY <3>1, <3>2 DEF Caller
    <3>5. caller' = [c EXCEPT ![p] = s]
      BY <3>1, <3>3
    <3> HIDE DEF s
    <3>6. caller' \in [Callers -> Caller]
      BY <3>1, <3>4, <3>5
    <3> QED  BY <2>11, <3>6 DEF RunRejects, CallersTypeOK
  <2>12. ASSUME NEW p \in Callers, NEW e \in Errors, RejectRead(p, e)
         PROVE  CallersTypeOK'
    <3>1. Done(p, Rejected(e)) \in Caller /\ undefined \in Content
      BY OutcomeType, DoneType DEF Content
    <3> DEFINE s == [caller[p] EXCEPT !.at = "read", !.value = undefined,
                                       !.held = FALSE]
    <3>2. s \in Caller
      BY <2>0, <3>1 DEF Caller
    <3>3. caller' = [caller EXCEPT ![p] = s]
          \/ caller' = [caller EXCEPT ![p] = Done(p, Rejected(e))]
      BY <2>12 DEF RejectRead, CallersTypeOK
    <3> HIDE DEF s
    <3> QED  BY <2>12, <3>1, <3>2, <3>3 DEF RejectRead, CallersTypeOK
  <2>13. ASSUME NEW p \in Callers, NEW e \in Errors, RejectSet(p, e)
         PROVE  CallersTypeOK'
    <3>1. AfterError(caller[p].options, "store", e, caller[p].value) \in Outcome
      BY <2>0, ErrorType DEF Caller, Content
    <3> DEFINE w == AfterError(caller[p].options, "store", e, caller[p].value)
               s == [caller[p] EXCEPT !.at = "settle", !.outcome = w]
    <3>2. caller' = [caller EXCEPT ![p] = s]
      BY <2>13 DEF RejectSet, CallersTypeOK
    <3> HIDE DEF w
    <3>3. s \in Caller
      BY <2>0, <3>1 DEF Caller, w
    <3> HIDE DEF s
    <3> QED  BY <2>13, <3>2, <3>3 DEF RejectSet, CallersTypeOK
  <2>14. ASSUME NEW v \in Values \cup {undefined}, Write(v) PROVE CallersTypeOK'
    BY <2>14, HeldType DEF Write, CallersTypeOK, Content
  <2>15. CASE UNCHANGED callerVars
    BY <2>15 DEF callerVars, CallersTypeOK
  <2> QED
    BY <2>1, <2>2, <2>3, <2>4, <2>5, <2>6, <2>7, <2>8, <2>9, <2>10, <2>11,
       <2>12, <2>13, <2>14, <2>15 DEF CallersNext, Run
<1> QED  BY <1>1, <1>2, PTL DEF CallersSpec

-----------------------------------------------------------------------------
\* A caller whose value was never removed has yet to find it, or has found it.
HeldAt(p) ==
    caller[p].held =>
        /\ store # undefined
        /\ caller[p].at = "get" \/ (caller[p].at = "read" /\ caller[p].value # undefined)

\* Whoever holds `undefined` as a result has an excuse.
ExcuseAt(p) ==
    /\ caller[p].at = "set" /\ caller[p].value = undefined => caller[p].excuse
    /\ caller[p].at = "setError" => caller[p].excuse
    /\ caller[p].at = "settle" /\ caller[p].outcome.value = undefined
           => caller[p].excuse
    /\ caller[p].at = "done" /\ caller[p].outcome = Resolved(undefined)
           => caller[p].excuse

\* The followers of a leader with an excuse have it too.
ExcuseShared ==
    \A p, q \in Callers :
        Leading(p) /\ caller[p].excuse /\ caller[q].at = "wait"
            => caller[q].excuse

GroupInv ==
    /\ SingleFlight
    /\ \A p \in Callers : HeldAt(p) /\ ExcuseAt(p)
    /\ ExcuseShared

\* A step that neither begins nor ends a run, nor joins one.
LEMMA InsideStep ==
    ASSUME CallersTypeOK, GroupInv, NEW p \in Callers,
           UNCHANGED <<hasKey, callbacks>>,
           Leading(p)' <=> Leading(p),
           caller[p].at # "wait", caller'[p].at # "wait",
           HeldAt(p)', ExcuseAt(p)',
           Leading(p) /\ caller'[p].excuse =>
               caller[p].excuse \/ \A q \in callbacks : caller'[q].excuse,
           \A q \in Callers \ {p} :
               /\ caller'[q].at = caller[q].at
               /\ caller'[q].value = caller[q].value
               /\ caller'[q].outcome = caller[q].outcome
               /\ caller'[q].held => caller[q].held /\ store' # undefined
               /\ caller[q].excuse => caller'[q].excuse
               /\ caller'[q].excuse => caller[q].excuse \/ q \in callbacks
    PROVE  GroupInv'
<1>1. \A q \in Callers : Leading(q)' <=> Leading(q)
  BY DEF Leading
<1>2. SingleFlight'
  <2>1. {q \in Callers : caller'[q].at = "wait"}
            = {q \in Callers : caller[q].at = "wait"}
    OBVIOUS
  <2>2. (\E q \in Callers : Leading(q))' <=> \E q \in Callers : Leading(q)
    BY <1>1
  <2> QED  BY <1>1, <2>1, <2>2 DEF SingleFlight, GroupInv
<1>3. ASSUME NEW q \in Callers PROVE HeldAt(q)' /\ ExcuseAt(q)'
  <2>1. CASE q = p
    BY <2>1
  <2>2. CASE q # p
    BY <2>2 DEF HeldAt, ExcuseAt, GroupInv
  <2> QED  BY <2>1, <2>2
<1>4. ASSUME NEW q \in Callers, NEW r \in Callers,
             Leading(q)', caller'[q].excuse, caller'[r].at = "wait"
      PROVE  caller'[r].excuse
  <2>1. /\ Leading(q) /\ caller[r].at = "wait" /\ r # p
        /\ r \in callbacks /\ q \notin callbacks
    BY <1>1, <1>4 DEF SingleFlight, GroupInv, Leading
  <2>2. caller[q].excuse \/ \A x \in callbacks : caller'[x].excuse
    BY <1>4, <2>1
  <2>3. CASE caller[q].excuse
    <3>1. caller[r].excuse
      BY <2>1, <2>3 DEF ExcuseShared, GroupInv
    <3> QED  BY <2>1, <3>1
  <2> QED  BY <2>1, <2>2, <2>3
<1> QED  BY <1>2, <1>3, <1>4 DEF GroupInv, ExcuseShared

\* A step that changes only caller p, which waits neither before nor after it.
LEMMA SoloStep ==
    ASSUME CallersTypeOK, GroupInv, NEW p \in Callers, NEW s,
           UNCHANGED <<store, hasKey, callbacks>>,
           caller' = [caller EXCEPT ![p] = s],
           Leading(p)' <=> Leading(p),
           caller[p].at # "wait", s.at # "wait",
           HeldAt(p)', ExcuseAt(p)',
           Leading(p) /\ s.excuse => caller[p].excuse
    PROVE  GroupInv'
<1>1. /\ caller'[p] = s
      /\ \A q \in Callers \ {p} : caller'[q] = caller[q]
  BY DEF CallersTypeOK
<1>2. \A q \in Callers : caller[q].held => store # undefined
  BY DEF GroupInv, HeldAt
<1> QED  BY <1>1, <1>2, InsideStep

\* The inductive invariant behind the statements below.
THEOREM GroupHolds == CallersSpec => []GroupInv
<1>1. CallersInit => GroupInv
  BY DEF CallersInit, GroupInv, SingleFlight, HeldAt, ExcuseAt, ExcuseShared, Leading
<1>2. CallersTypeOK /\ GroupInv /\ [CallersNext]_callerVars => GroupInv'
  <2> SUFFICES ASSUME CallersTypeOK, GroupInv, [CallersNext]_callerVars PROVE GroupInv'
    OBVIOUS
  <2>0. \A q \in Callers : caller[q] \in Caller
    BY DEF CallersTypeOK
  <2>1. ASSUME NEW p \in Callers, NEW o \in Options, Call(p, o)
        PROVE  GroupInv'
    <3> DEFINE h == store # undefined
               s == [at |-> "get", options |-> o, value |-> undefined,
                     outcome |-> Resolved(undefined), held |-> h,
                     excuse |-> FALSE]
    <3>1. caller' = [caller EXCEPT ![p] = s]
      BY <2>1 DEF Call
    <3>2. h => store # undefined
      OBVIOUS
    <3> HIDE DEF h
    <3>3. s.at = "get" /\ s.held = h /\ s.excuse = FALSE
      OBVIOUS
    <3> HIDE DEF s
    <3> QED
      BY <2>1, <3>1, <3>2, <3>3, SoloStep
      DEF Call, InFlight, Leading, HeldAt, ExcuseAt, CallersTypeOK
  <2>2. ASSUME NEW p \in Callers, ReadStore(p) PROVE GroupInv'
    <3> DEFINE s == [caller[p] EXCEPT !.at = "read", !.value = store]
    <3>1. caller' = [caller EXCEPT ![p] = s]
      BY <2>2 DEF ReadStore, CallersTypeOK
    <3>2. /\ s.at = "read" /\ s.value = store /\ s.held = caller[p].held
      BY <2>0 DEF Caller
    <3>3. caller[p].held => store # undefined
      BY DEF GroupInv, HeldAt
    <3> HIDE DEF s
    <3> QED
      BY <2>2, <3>1, <3>2, <3>3, SoloStep
      DEF ReadStore, Leading, HeldAt, ExcuseAt, CallersTypeOK
  <2>3. ASSUME NEW p \in Callers, Hit(p) PROVE GroupInv'
    <3> DEFINE s == Done(p, Resolved(caller[p].value))
    <3>1. caller' = [caller EXCEPT ![p] = s]
      BY <2>3 DEF Hit
    <3>2. /\ s.at = "done" /\ ~s.held
          /\ s.outcome = Resolved(caller[p].value)
      BY <2>0, OutcomeType, DoneType DEF Caller
    <3>3. s.outcome # Resolved(undefined)
      BY <2>3, <3>2 DEF Resolved, Hit
    <3> HIDE DEF s
    <3> QED
      BY <2>3, <3>1, <3>2, <3>3, SoloStep
      DEF Hit, Leading, HeldAt, ExcuseAt, CallersTypeOK
  <2>4. ASSUME NEW p \in Callers, NEW e \in Errors, RejectRead(p, e)
        PROVE  GroupInv'
    <3>1. CASE Throws(caller[p].options, "store")
      <4> DEFINE s == Done(p, Rejected(e))
      <4>1. caller' = [caller EXCEPT ![p] = s]
        BY <2>4, <3>1 DEF RejectRead
      <4>2. s.at = "done" /\ ~s.held /\ s.outcome = Rejected(e)
        BY OutcomeType, DoneType DEF Content
      <4>3. s.outcome # Resolved(undefined)
        BY <4>2 DEF Resolved, Rejected
      <4> HIDE DEF s
      <4> QED
        BY <2>4, <4>1, <4>2, <4>3, SoloStep
        DEF RejectRead, Leading, HeldAt, ExcuseAt, CallersTypeOK
    <3>2. CASE ~Throws(caller[p].options, "store")
      <4> DEFINE s == [caller[p] EXCEPT !.at = "read", !.value = undefined,
                                         !.held = FALSE]
      <4>1. caller' = [caller EXCEPT ![p] = s]
        BY <2>4, <3>2 DEF RejectRead, CallersTypeOK
      <4>2. s.at = "read" /\ ~s.held
        BY <2>0 DEF Caller
      <4> HIDE DEF s
      <4> QED
        BY <2>4, <4>1, <4>2, SoloStep
        DEF RejectRead, Leading, HeldAt, ExcuseAt, CallersTypeOK
    <3> QED  BY <3>1, <3>2
  <2>5. ASSUME NEW p \in Callers, RejectError(p) PROVE GroupInv'
    <3> DEFINE s == [caller[p] EXCEPT !.at = "settle"]
    <3>1. caller' = [caller EXCEPT ![p] = s]
      BY <2>5 DEF RejectError, CallersTypeOK
    <3>2. /\ s.at = "settle" /\ s.held = caller[p].held
          /\ s.excuse = caller[p].excuse
      BY <2>0 DEF Caller
    <3>3. ~caller[p].held /\ caller[p].excuse
      BY <2>5 DEF GroupInv, HeldAt, ExcuseAt, RejectError
    <3> HIDE DEF s
    <3> QED
      BY <2>5, <3>1, <3>2, <3>3, SoloStep
      DEF RejectError, Leading, HeldAt, ExcuseAt, CallersTypeOK
  <2>6. ASSUME NEW p \in Callers, NEW e \in Errors, RejectSet(p, e)
        PROVE  GroupInv'
    <3> DEFINE w == AfterError(caller[p].options, "store", e, caller[p].value)
               s == [caller[p] EXCEPT !.at = "settle", !.outcome = w]
    <3>1. caller' = [caller EXCEPT ![p] = s]
      BY <2>6 DEF RejectSet, CallersTypeOK
    <3>2. w.value = undefined => caller[p].value = undefined
      BY GetOrSetAssumption DEF AfterError, Resolved, Rejected
    <3> HIDE DEF w
    <3>3. /\ s.at = "settle" /\ s.held = caller[p].held
          /\ s.excuse = caller[p].excuse /\ s.outcome = w
      BY <2>0 DEF Caller
    <3>4. ~caller[p].held /\ (caller[p].value = undefined => caller[p].excuse)
      BY <2>6 DEF GroupInv, HeldAt, ExcuseAt, RejectSet
    <3> HIDE DEF s
    <3> QED
      BY <2>6, <3>1, <3>2, <3>3, <3>4, SoloStep
      DEF RejectSet, Leading, HeldAt, ExcuseAt, CallersTypeOK
  <2>7. ASSUME NEW p \in Callers, LandSet(p) PROVE GroupInv'
    <3> DEFINE c == Held(caller[p].value)
               w == Resolved(caller[p].value)
               s == [c[p] EXCEPT !.at = "settle", !.outcome = w]
    <3>1. /\ c \in [Callers -> Caller] /\ w.value = caller[p].value
          /\ c[p].excuse = caller[p].excuse
          /\ c[p].held => caller[p].held
          /\ \A q \in Callers :
                 /\ c[q].at = caller[q].at
                 /\ c[q].value = caller[q].value
                 /\ c[q].outcome = caller[q].outcome
                 /\ c[q].excuse = caller[q].excuse
                 /\ c[q].held => caller[q].held /\ store' # undefined
      BY <2>7, HeldType DEF Resolved, LandSet
    <3>2. caller' = [c EXCEPT ![p].at = "settle", ![p].outcome = w]
      BY <2>7 DEF LandSet
    <3> HIDE DEF c, w
    <3>3. caller'[p] = s /\ \A q \in Callers \ {p} : caller'[q] = c[q]
      BY <3>1, <3>2
    <3>4. /\ s.at = "settle" /\ s.outcome = w
          /\ s.excuse = c[p].excuse /\ s.held = c[p].held
      BY <3>1 DEF Caller
    <3>5. ~caller[p].held /\ (caller[p].value = undefined => caller[p].excuse)
      BY <2>7 DEF GroupInv, HeldAt, ExcuseAt, LandSet
    <3> HIDE DEF s
    <3>6. HeldAt(p)' /\ ExcuseAt(p)'
      BY <3>1, <3>3, <3>4, <3>5 DEF HeldAt, ExcuseAt
    <3>7. /\ caller[p].at = "set" /\ UNCHANGED <<hasKey, callbacks>>
          /\ Leading(p)' <=> Leading(p)
      BY <2>7, <3>3, <3>4 DEF LandSet, Leading
    <3>8. ASSUME NEW q \in Callers \ {p}
          PROVE  /\ caller'[q].at = caller[q].at
                 /\ caller'[q].value = caller[q].value
                 /\ caller'[q].outcome = caller[q].outcome
                 /\ caller'[q].held => caller[q].held /\ store' # undefined
                 /\ caller'[q].excuse = caller[q].excuse
      BY <3>1, <3>3
    <3>9. caller'[p].excuse = caller[p].excuse /\ caller'[p].at = "settle"
      BY <3>1, <3>3, <3>4
    <3> QED  BY <3>6, <3>7, <3>8, <3>9, InsideStep
  <2>8. ASSUME NEW p \in Callers, LandError(p) PROVE GroupInv'
    <3> DEFINE c == Held(caller[p].value)
               s == [c[p] EXCEPT !.at = "settle"]
    <3>1. /\ c \in [Callers -> Caller]
          /\ \A q \in Callers :
                 /\ c[q].at = caller[q].at
                 /\ c[q].value = caller[q].value
                 /\ c[q].outcome = caller[q].outcome
                 /\ c[q].excuse = caller[q].excuse
                 /\ c[q].held => caller[q].held /\ store' # undefined
      BY <2>8, HeldType DEF LandError
    <3>2. caller' = [c EXCEPT ![p].at = "settle"]
      BY <2>8 DEF LandError
    <3> HIDE DEF c
    <3>3. caller'[p] = s /\ \A q \in Callers \ {p} : caller'[q] = c[q]
      BY <3>1, <3>2
    <3>4. /\ s.at = "settle" /\ s.excuse = c[p].excuse
          /\ s.held = c[p].held
      BY <3>1 DEF Caller
    <3>5. ~caller[p].held /\ caller[p].excuse
      BY <2>8 DEF GroupInv, HeldAt, ExcuseAt, LandError
    <3> HIDE DEF s
    <3>6. HeldAt(p)' /\ ExcuseAt(p)'
      BY <3>1, <3>3, <3>4, <3>5 DEF HeldAt, ExcuseAt
    <3>7. /\ caller[p].at = "setError" /\ UNCHANGED <<hasKey, callbacks>>
          /\ Leading(p)' <=> Leading(p)
      BY <2>8, <3>3, <3>4 DEF LandError, Leading
    <3>8. ASSUME NEW q \in Callers \ {p}
          PROVE  /\ caller'[q].at = caller[q].at
                 /\ caller'[q].value = caller[q].value
                 /\ caller'[q].outcome = caller[q].outcome
                 /\ caller'[q].held => caller[q].held /\ store' # undefined
                 /\ caller'[q].excuse = caller[q].excuse
      BY <3>1, <3>3
    <3>9. caller'[p].excuse = caller[p].excuse /\ caller'[p].at = "settle"
      BY <3>1, <3>3, <3>4
    <3> QED  BY <3>6, <3>7, <3>8, <3>9, InsideStep
  <2>9. ASSUME NEW p \in Callers, NEW v \in Values \cup {undefined},
               RunReturns(p, v)
        PROVE  GroupInv'
    <3> DEFINE c == IF v = undefined THEN Excused(p) ELSE caller
               s == [c[p] EXCEPT !.at = "set", !.value = v]
    <3>1. /\ c \in [Callers -> Caller]
          /\ v = undefined => c[p].excuse /\ \A q \in callbacks : c[q].excuse
          /\ v # undefined => c[p].excuse = caller[p].excuse
          /\ \A q \in Callers :
                 /\ c[q].at = caller[q].at
                 /\ c[q].value = caller[q].value
                 /\ c[q].outcome = caller[q].outcome
                 /\ c[q].held = caller[q].held
                 /\ caller[q].excuse => c[q].excuse
                 /\ c[q].excuse => caller[q].excuse \/ q = p \/ q \in callbacks
      BY ExcusedType DEF CallersTypeOK
    <3>2. caller' = [c EXCEPT ![p].at = "set", ![p].value = v]
      BY <2>9 DEF RunReturns
    <3> HIDE DEF c
    <3>3. caller'[p] = s /\ \A q \in Callers \ {p} : caller'[q] = c[q]
      BY <3>1, <3>2
    <3>4. /\ s.at = "set" /\ s.value = v
          /\ s.excuse = c[p].excuse /\ s.held = c[p].held
      BY <3>1 DEF Caller
    <3>5. /\ caller[p].at = "run" /\ UNCHANGED <<store, hasKey, callbacks>>
      BY <2>9 DEF RunReturns
    <3>6. ~caller[p].held /\ \A q \in Callers : caller[q].held => store # undefined
      BY <3>5 DEF GroupInv, HeldAt
    <3> HIDE DEF s
    <3>7. HeldAt(p)' /\ ExcuseAt(p)' /\ (Leading(p)' <=> Leading(p))
      BY <3>1, <3>3, <3>4, <3>5, <3>6 DEF HeldAt, ExcuseAt, Leading
    <3>8. ASSUME NEW q \in Callers \ {p}
          PROVE  /\ caller'[q].at = caller[q].at
                 /\ caller'[q].value = caller[q].value
                 /\ caller'[q].outcome = caller[q].outcome
                 /\ caller'[q].held => caller[q].held /\ store' # undefined
                 /\ caller[q].excuse => caller'[q].excuse
                 /\ caller'[q].excuse => caller[q].excuse \/ q \in callbacks
      BY <3>1, <3>3, <3>5, <3>6
    <3>9. p \notin callbacks /\ callbacks \subseteq Callers
      BY <3>5 DEF GroupInv, SingleFlight, CallersTypeOK
    <3>10. caller'[p].excuse =>
               caller[p].excuse \/ \A q \in callbacks : caller'[q].excuse
      BY <3>1, <3>3, <3>4, <3>9
    <3> QED  BY <3>3, <3>4, <3>5, <3>7, <3>8, <3>10, InsideStep
  <2>10. ASSUME NEW p \in Callers, NEW e \in Errors \cup {undefined},
                RunRejects(p, e)
         PROVE  GroupInv'
    <3> DEFINE c == Excused(p)
               w == AfterError(caller[p].options, "function", e, undefined)
               t == IF caller[p].options.cacheErrors THEN "setError" ELSE "settle"
               s == [c[p] EXCEPT !.at = t, !.value = e, !.outcome = w]
    <3>1. /\ c \in [Callers -> Caller]
          /\ c[p].excuse /\ \A q \in callbacks : c[q].excuse
          /\ \A q \in Callers :
                 /\ c[q].at = caller[q].at
                 /\ c[q].value = caller[q].value
                 /\ c[q].outcome = caller[q].outcome
                 /\ c[q].held = caller[q].held
                 /\ caller[q].excuse => c[q].excuse
                 /\ c[q].excuse => caller[q].excuse \/ q = p \/ q \in callbacks
          /\ t \in {"setError", "settle"}
      BY ExcusedType DEF CallersTypeOK
    <3>2. caller' = [c EXCEPT ![p].at = t, ![p].value = e, ![p].outcome = w]
      BY <2>10 DEF RunRejects
    <3> HIDE DEF c, w, t
    <3>3. caller'[p] = s /\ \A q \in Callers \ {p} : caller'[q] = c[q]
      BY <3>1, <3>2
    <3>4. s.at = t /\ s.excuse = c[p].excuse /\ s.held = c[p].held
      BY <3>1 DEF Caller
    <3>5. /\ caller[p].at = "run" /\ UNCHANGED <<store, hasKey, callbacks>>
      BY <2>10 DEF RunRejects
    <3>6. ~caller[p].held /\ \A q \in Callers : caller[q].held => store # undefined
      BY <3>5 DEF GroupInv, HeldAt
    <3> HIDE DEF s
    <3>7. HeldAt(p)' /\ ExcuseAt(p)' /\ (Leading(p)' <=> Leading(p))
      BY <3>1, <3>3, <3>4, <3>5, <3>6 DEF HeldAt, ExcuseAt, Leading
    <3>8. ASSUME NEW q \in Callers \ {p}
          PROVE  /\ caller'[q].at = caller[q].at
                 /\ caller'[q].value = caller[q].value
                 /\ caller'[q].outcome = caller[q].outcome
                 /\ caller'[q].held => caller[q].held /\ store' # undefined
                 /\ caller[q].excuse => caller'[q].excuse
                 /\ caller'[q].excuse => caller[q].excuse \/ q \in callbacks
      BY <3>1, <3>3, <3>5, <3>6
    <3>9. p \notin callbacks /\ callbacks \subseteq Callers
      BY <3>5 DEF GroupInv, SingleFlight, CallersTypeOK
    <3>10. \A q \in callbacks : caller'[q].excuse
      BY <3>1, <3>3, <3>9
    <3> QED  BY <3>1, <3>3, <3>4, <3>5, <3>7, <3>8, <3>10, InsideStep
  <2>11. ASSUME NEW p \in Callers, Lead(p) PROVE GroupInv'
    <3> DEFINE s == [caller[p] EXCEPT !.at = "run"]
    <3>1. /\ caller'[p] = s /\ \A q \in Callers \ {p} : caller'[q] = caller[q]
          /\ hasKey' = TRUE /\ UNCHANGED <<store, callbacks>>
          /\ caller[p].at = "read" /\ caller[p].value = undefined /\ ~hasKey
      BY <2>11 DEF Lead, Miss, addKey, CallersTypeOK
    <3>2. s.at = "run" /\ s.held = caller[p].held
      BY <2>0 DEF Caller
    <3> HIDE DEF s
    <3>3. callbacks = {} /\ \A q \in Callers : ~Leading(q)
                                             /\ caller[q].at # "wait"
      BY <3>1 DEF GroupInv, SingleFlight
    <3>4. \A q \in Callers :
             /\ Leading(q)' <=> (q = p)
             /\ caller'[q].at # "wait"
      BY <3>1, <3>2, <3>3 DEF Leading
    <3>5. SingleFlight'
      <4>1. {q \in Callers : caller'[q].at = "wait"} = {}
        BY <3>4
      <4>2. (\E q \in Callers : Leading(q))' /\ callbacks' = {}
        BY <3>1, <3>3, <3>4
      <4> QED  BY <3>1, <3>4, <4>1, <4>2 DEF SingleFlight
    <3>6. ~caller[p].held
      BY <3>1 DEF GroupInv, HeldAt
    <3>7. ASSUME NEW q \in Callers PROVE HeldAt(q)' /\ ExcuseAt(q)'
      <4>1. CASE q = p
        <5>1. caller'[q].at = "run" /\ ~caller'[q].held
          BY <3>1, <3>2, <3>6, <4>1
        <5> QED  BY <5>1 DEF HeldAt, ExcuseAt
      <4>2. CASE q # p
        BY <3>1, <4>2 DEF GroupInv, HeldAt, ExcuseAt
      <4> QED  BY <4>1, <4>2
    <3>8. ExcuseShared'
      BY <3>4 DEF ExcuseShared
    <3> QED  BY <3>5, <3>7, <3>8 DEF GroupInv
  <2>12. ASSUME NEW p \in Callers, enqueue(p) PROVE GroupInv'
    <3> DEFINE x == \E q \in Callers : Leading(q) /\ caller[q].excuse
               s == [caller[p] EXCEPT !.at = "wait", !.excuse = x]
    <3>1. /\ caller'[p] = s /\ \A q \in Callers \ {p} : caller'[q] = caller[q]
          /\ callbacks' = callbacks \cup {p} /\ UNCHANGED <<store, hasKey>>
          /\ caller[p].at = "read" /\ caller[p].value = undefined /\ hasKey
      BY <2>12 DEF enqueue, Miss, CallersTypeOK
    <3>2. x \in BOOLEAN /\ \A q \in Callers : Leading(q) /\ caller[q].excuse => x
      OBVIOUS
    <3> HIDE DEF x
    <3>3. s.at = "wait" /\ s.held = caller[p].held /\ s.excuse = x
      BY <2>0, <3>2 DEF Caller
    <3> HIDE DEF s
    <3>4. \A q \in Callers :
             /\ Leading(q)' <=> Leading(q)
             /\ caller'[q].at = "wait" <=> caller[q].at = "wait" \/ q = p
             /\ Leading(q) => caller'[q].excuse = caller[q].excuse
      BY <3>1, <3>3 DEF Leading
    <3>5. SingleFlight'
      <4>1. callbacks' = {q \in Callers : caller'[q].at = "wait"}
        BY <3>1, <3>4 DEF GroupInv, SingleFlight
      <4>2. (\E q \in Callers : Leading(q))' <=> \E q \in Callers : Leading(q)
        BY <3>4
      <4> QED  BY <3>1, <3>4, <4>1, <4>2 DEF GroupInv, SingleFlight
    <3>6. ~caller[p].held
      BY <3>1 DEF GroupInv, HeldAt
    <3>7. ASSUME NEW q \in Callers PROVE HeldAt(q)' /\ ExcuseAt(q)'
      <4>1. CASE q = p
        BY <3>1, <3>3, <3>6, <4>1 DEF HeldAt, ExcuseAt
      <4>2. CASE q # p
        BY <3>1, <4>2 DEF GroupInv, HeldAt, ExcuseAt
      <4> QED  BY <4>1, <4>2
    <3>8. ASSUME NEW q \in Callers, NEW r \in Callers,
                 Leading(q)', caller'[q].excuse, caller'[r].at = "wait"
          PROVE  caller'[r].excuse
      <4>1. Leading(q) /\ caller[q].excuse
        BY <3>4, <3>8
      <4>2. CASE r = p
        BY <3>1, <3>2, <3>3, <4>1, <4>2
      <4>3. CASE r # p
        BY <3>1, <3>4, <3>8, <4>1, <4>3 DEF GroupInv, ExcuseShared
      <4> QED  BY <4>2, <4>3
    <3> QED  BY <3>5, <3>7, <3>8 DEF GroupInv, ExcuseShared
  <2>13. ASSUME NEW p \in Callers, coalesce(p) PROVE GroupInv'
    <3> DEFINE o == caller[p].outcome
    <3>1. /\ caller[p].at = "settle" /\ Leading(p) /\ o \in Outcome
          /\ hasKey' = FALSE /\ callbacks' = {} /\ store' = store
      BY <2>0, <2>13 DEF coalesce, removeKey, Leading, Caller
    <3>2. \A q \in Callers :
             /\ Leading(q) => q = p
             /\ q \in callbacks <=> caller[q].at = "wait"
      BY <3>1 DEF GroupInv, SingleFlight
    <3>3. ASSUME NEW q \in Callers, q = p
          PROVE  /\ caller'[q].at = "done" /\ ~caller'[q].held
                 /\ caller'[q].outcome = o
                 /\ caller'[q].excuse = caller[q].excuse
      <4>1. caller'[q] = Done(q, o)
        BY <2>13, <3>3 DEF coalesce
      <4> QED  BY <3>1, <4>1, DoneType
    <3>4. ASSUME NEW q \in Callers, q # p, q \in callbacks
          PROVE  /\ caller'[q].at = "done" /\ ~caller'[q].held
                 /\ caller'[q].outcome = Shared(o)
                 /\ caller'[q].excuse = caller[q].excuse
      <4>1. caller'[q] = Done(q, Shared(o))
        BY <2>13, <3>4 DEF coalesce
      <4>2. Shared(o) \in Outcome
        BY <3>1, SharedType
      <4> QED  BY <4>1, <4>2, DoneType
    <3>5. ASSUME NEW q \in Callers, q # p, q \notin callbacks
          PROVE  caller'[q] = caller[q]
      BY <2>13, <3>5 DEF coalesce
    <3>6. ASSUME NEW q \in Callers
          PROVE  ~Leading(q)' /\ caller'[q].at # "wait"
      <4>1. CASE caller'[q].at = "done"
        BY <4>1 DEF Leading
      <4>2. CASE caller'[q] = caller[q] /\ q # p /\ q \notin callbacks
        BY <3>2, <4>2 DEF Leading
      <4> QED  BY <3>3, <3>4, <3>5, <4>1, <4>2
    <3>7. SingleFlight'
      BY <3>1, <3>6 DEF SingleFlight
    <3>8. o.value = undefined => caller[p].excuse
      BY <3>1 DEF GroupInv, ExcuseAt
    <3>9. ASSUME NEW q \in Callers PROVE HeldAt(q)' /\ ExcuseAt(q)'
      <4>1. CASE q = p
        <5>1. o = Resolved(undefined) => o.value = undefined
          BY DEF Resolved
        <5> QED  BY <3>3, <3>8, <4>1, <5>1 DEF HeldAt, ExcuseAt
      <4>2. CASE q # p /\ q \in callbacks
        <5>1. Shared(o) = Resolved(undefined) => o.value = undefined
          BY DEF Shared, Resolved
        <5>2. caller[p].excuse => caller[q].excuse
          <6>1. Leading(p) /\ caller[q].at = "wait"
            BY <3>1, <3>2, <4>2
          <6> QED  BY <6>1 DEF GroupInv, ExcuseShared
        <5> QED  BY <3>4, <3>8, <4>2, <5>1, <5>2 DEF HeldAt, ExcuseAt
      <4>3. CASE q # p /\ q \notin callbacks
        BY <3>1, <3>5, <4>3 DEF GroupInv, HeldAt, ExcuseAt
      <4> QED  BY <4>1, <4>2, <4>3
    <3> QED  BY <3>6, <3>7, <3>9 DEF GroupInv, ExcuseShared
  <2>14. ASSUME NEW v \in Values \cup {undefined}, Write(v) PROVE GroupInv'
    <3>1. /\ store' = v /\ UNCHANGED <<hasKey, callbacks>>
          /\ \A q \in Callers :
                 /\ caller'[q].at = caller[q].at
                 /\ caller'[q].value = caller[q].value
                 /\ caller'[q].outcome = caller[q].outcome
                 /\ caller'[q].excuse = caller[q].excuse
                 /\ caller'[q].held => caller[q].held /\ v # undefined
      BY <2>14, HeldType DEF Write
    <3>2. \A q \in Callers : Leading(q)' <=> Leading(q)
      BY <3>1 DEF Leading
    <3>3. SingleFlight'
      <4>1. {q \in Callers : caller'[q].at = "wait"}
                = {q \in Callers : caller[q].at = "wait"}
        BY <3>1
      <4>2. (\E q \in Callers : Leading(q))' <=> \E q \in Callers : Leading(q)
        BY <3>2
      <4> QED  BY <3>1, <3>2, <4>1, <4>2 DEF GroupInv, SingleFlight
    <3>4. ASSUME NEW q \in Callers PROVE HeldAt(q)' /\ ExcuseAt(q)'
      BY <3>1 DEF GroupInv, HeldAt, ExcuseAt
    <3>5. ExcuseShared'
      BY <3>1, <3>2 DEF GroupInv, ExcuseShared
    <3> QED  BY <3>3, <3>4, <3>5 DEF GroupInv
  <2>15. CASE UNCHANGED callerVars
    <3>1. \A q \in Callers : Leading(q)' <=> Leading(q)
      BY <2>15 DEF callerVars, Leading
    <3> QED
      BY <2>15, <3>1
      DEF callerVars, GroupInv, SingleFlight, HeldAt, ExcuseAt, ExcuseShared
  <2> QED
    BY <2>1, <2>2, <2>3, <2>4, <2>5, <2>6, <2>7, <2>8, <2>9, <2>10, <2>11,
       <2>12, <2>13, <2>14, <2>15 DEF CallersNext, Run
<1> QED  BY <1>1, <1>2, CallersTyping, PTL DEF CallersSpec

\* At most one caller runs the function, and nobody waits for one that has gone.
THEOREM OneFlight == CallersSpec => []SingleFlight
BY GroupHolds, PTL DEF GroupInv

\* A value that nobody removes saves its readers the function.
THEOREM NoNeedless == CallersSpec => []NoNeedlessRun
<1>1. GroupInv => NoNeedlessRun
  BY DEF GroupInv, HeldAt, NoNeedlessRun, Leading
<1> QED  BY <1>1, GroupHolds, PTL

\* `undefined` comes only of a run that returned it or failed.
THEOREM ResultsKept == CallersSpec => []NoResultLost
<1>1. GroupInv => NoResultLost
  BY DEF GroupInv, ExcuseAt, NoResultLost
<1> QED  BY <1>1, GroupHolds, PTL
=============================================================================
