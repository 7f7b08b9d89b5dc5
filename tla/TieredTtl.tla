----------------------------- MODULE TieredTtl -----------------------------
(***************************************************************************)
(* One key of a Cacheable with a primary and a secondary store, seen       *)
(* through its expiry times.  Calls are sequential, time may pass inside   *)
(* the back-fill of the primary store; races between calls are the subject *)
(* of module Cacheable.  A copy's fields other than expires are history:   *)
(* the code does not have them and no action reads them.                   *)
(***************************************************************************)
EXTENDS Ttl

CONSTANTS
    PrimaryDefault,     \* default ttl of the primary Keyv
    SecondaryDefault,   \* default ttl of the secondary Keyv
    InstanceTtls,       \* values assigned to the instance's ttl
    MaxTtls,            \* values assigned to the instance's maxTtl
    TtlOptions,         \* per-store ttls a caller passes to set and setMany
    HookChoices,        \* what a BEFORE_SET hook leaves behind
    HasSecondary,
    None,               \* an absent entry
    MaxTime, MaxVersion \* bounds of the model

DefaultTtl == {Undef} \cup (Nat \ {0})

ASSUME TieredTtlAssumption ==
    /\ HasSecondary \in BOOLEAN
    /\ PrimaryDefault \in DefaultTtl /\ SecondaryDefault \in DefaultTtl
    /\ InstanceTtls \subseteq TtlValue /\ MaxTtls \subseteq TtlValue
    /\ TtlOptions \subseteq [primary : TtlValue, secondary : TtlValue]
    /\ HookChoices \subseteq [kind : {"untouched", "scalar", "object"},
                              primary : TtlValue, secondary : TtlValue]
    /\ MaxTime \in Nat /\ MaxVersion \in Nat

VARIABLES
    now,
    ttl, maxTtl,        \* instance settings
    primary, secondary, \* the key's copies
    snapshot, counter,  \* tag metadata, in the secondary store if there is one
    backfill,           \* a get between reading secondary and writing primary
    tagged, invalidated \* history: of the latest write

vars == <<now, ttl, maxTtl, primary, secondary, snapshot, counter, backfill,
          tagged, invalidated>>

Copy == [expires : TtlValue,
         written : Nat, asked : TtlValue, cap : TtlValue, promoted : BOOLEAN,
         deadline : TtlValue, late : BOOLEAN, lag : Int]
Meta == [expires : TtlValue, version : Nat]
Backfill == [step : {"compute", "write"}, expires : TtlValue, ttl : TtlValue,
             computed : Nat]

ASSUME NoneAssumption == None \notin Copy \cup Meta \cup Backfill

Live(e) == e # None /\ notExpired(e.expires, now)

TagStoreDefault == IF HasSecondary THEN SecondaryDefault ELSE PrimaryDefault

Version == IF Live(counter) THEN counter.version ELSE 0

Stale == Live(snapshot) /\ snapshot.version # Version

-----------------------------------------------------------------------------
\* The copy a store keeps of a value set now with ttl t.
Written(t, default) ==
    [expires |-> keyvExpires(t, default, now),
     written |-> now, asked |-> t, cap |-> maxTtl, promoted |-> FALSE,
     deadline |-> Undef, late |-> FALSE, lag |-> 0]

SnapshotOf(primaryTtl, secondaryTtl) ==
    [expires |-> keyvExpires(
         maxStoreTtl(HasSecondary, primaryTtl, secondaryTtl),
         TagStoreDefault, now),
     version |-> Version]

\* Mutant: a set without tags leaves the snapshot of an earlier one.
TagSnapshot_Kept(primaryTtl, secondaryTtl, withTags) ==
    IF withTags THEN SnapshotOf(primaryTtl, secondaryTtl) ELSE snapshot

\* Written by a set with tags, removed by a set without.
TagSnapshot(primaryTtl, secondaryTtl, withTags) ==
    IF withTags THEN SnapshotOf(primaryTtl, secondaryTtl) ELSE None

\* The value and its tag metadata reach the stores with these two ttls.
Store(primaryTtl, secondaryTtl, withTags) ==
    /\ primary' = Written(primaryTtl, PrimaryDefault)
    /\ secondary' = IF HasSecondary
                    THEN Written(secondaryTtl, SecondaryDefault) ELSE None
    /\ snapshot' = TagSnapshot(primaryTtl, secondaryTtl, withTags)
    /\ tagged' = withTags
    /\ invalidated' = FALSE
    /\ UNCHANGED <<now, ttl, maxTtl, counter, backfill>>

\* Without a secondary store the code leaves the secondary ttl undefined, or
\* caps an undefined one; nothing reads it.
Set(options, hook, withTags) ==
    LET cascadePrimary ==
            getCascadingTtl(ttl, PrimaryDefault, options.primary)
        cascadeSecondary ==
            getCascadingTtl(ttl, SecondaryDefault, options.secondary)
        effPrimary ==
            CASE hook.kind = "untouched" -> capTtl(cascadePrimary, maxTtl)
              [] hook.kind = "object" -> Or(hook.primary, cascadePrimary)
              [] hook.kind = "scalar" -> hook.primary
        effSecondary ==
            CASE hook.kind = "untouched" -> cascadeSecondary
              [] hook.kind = "object" -> Or(hook.secondary, cascadeSecondary)
              [] hook.kind = "scalar" -> hook.primary
    IN  /\ backfill = None
        /\ Store(capTtl(effPrimary, maxTtl), capTtl(effSecondary, maxTtl),
                 withTags)

SetMany(options, withTags) ==
    /\ backfill = None
    /\ Store(resolveStoreTtl(ttl, PrimaryDefault, options.primary, maxTtl),
             resolveStoreTtl(ttl, SecondaryDefault, options.secondary, maxTtl),
             withTags)

Delete ==
    /\ backfill = None
    /\ primary' = None /\ secondary' = None /\ snapshot' = None
    /\ tagged' = FALSE /\ invalidated' = FALSE
    /\ UNCHANGED <<now, ttl, maxTtl, counter, backfill>>

Clear ==
    /\ backfill = None
    /\ primary' = None /\ secondary' = None /\ snapshot' = None
    /\ counter' = None
    /\ tagged' = FALSE /\ invalidated' = FALSE
    /\ UNCHANGED <<now, ttl, maxTtl, backfill>>

\* A get that finds the primary copy stale removes the key everywhere; one
\* that finds it fresh, or misses both stores, changes nothing.
GetStale == Live(primary) /\ Stale /\ Delete

\* A get that misses the primary store and finds the secondary copy.
GetSecondary ==
    /\ backfill = None /\ HasSecondary
    /\ ~Live(primary) /\ Live(secondary)
    /\ backfill' = [step |-> "compute", expires |-> secondary.expires,
                    ttl |-> Undef, computed |-> now]
    /\ primary' = None
    /\ UNCHANGED <<now, ttl, maxTtl, secondary, snapshot, counter, tagged,
                   invalidated>>

ComputeTtl ==
    /\ backfill # None /\ backfill.step = "compute"
    /\ backfill' = [backfill EXCEPT
           !.step = "write", !.computed = now,
           !.ttl = calculateTtlFromExpiration(
                       getCascadingTtl(ttl, PrimaryDefault, Undef),
                       backfill.expires, now)]
    /\ UNCHANGED <<now, ttl, maxTtl, primary, secondary, snapshot, counter,
                   tagged, invalidated>>

\* History: the TTL was computed when nothing was left of the lifetime.
ComputedLate(b) == b.expires # Undef /\ b.expires <= b.computed

\* The primary copy is written, then the tag check may remove it again.
WritePrimary ==
    /\ backfill # None /\ backfill.step = "write"
    /\ backfill' = None
    /\ IF Stale
       THEN /\ primary' = None /\ secondary' = None /\ snapshot' = None
            /\ tagged' = FALSE /\ invalidated' = FALSE
       ELSE /\ primary' =
                 [expires |-> keyvExpires(backfill.ttl, PrimaryDefault, now),
                  written |-> now, asked |-> backfill.ttl, cap |-> maxTtl,
                  promoted |-> TRUE, deadline |-> backfill.expires,
                  late |-> ComputedLate(backfill),
                  lag |-> now - backfill.computed]
            /\ UNCHANGED <<secondary, snapshot, tagged, invalidated>>
    /\ UNCHANGED <<now, ttl, maxTtl, counter>>

InvalidateTag ==
    /\ Version < MaxVersion
    /\ counter' = [expires |-> keyvExpires(Undef, TagStoreDefault, now),
                   version |-> Version + 1]
    /\ invalidated' = tagged
    /\ UNCHANGED <<now, ttl, maxTtl, primary, secondary, snapshot, backfill,
                   tagged>>

AssignTtl(t) ==
    /\ ttl' = positiveOrUndef(t)
    /\ UNCHANGED <<now, maxTtl, primary, secondary, snapshot, counter,
                   backfill, tagged, invalidated>>

AssignMaxTtl(t) ==
    /\ maxTtl' = positiveOrUndef(t)
    /\ UNCHANGED <<now, ttl, primary, secondary, snapshot, counter, backfill,
                   tagged, invalidated>>

Tick ==
    /\ now < MaxTime
    /\ now' = now + 1
    /\ UNCHANGED <<ttl, maxTtl, primary, secondary, snapshot, counter,
                   backfill, tagged, invalidated>>

-----------------------------------------------------------------------------
Init ==
    /\ now = 0
    /\ \E t \in InstanceTtls, m \in MaxTtls :
         ttl = positiveOrUndef(t) /\ maxTtl = positiveOrUndef(m)
    /\ primary = None /\ secondary = None
    /\ snapshot = None /\ counter = None /\ backfill = None
    /\ tagged = FALSE /\ invalidated = FALSE

Next ==
    \/ \E options \in TtlOptions, hook \in HookChoices, b \in BOOLEAN :
         Set(options, hook, b)
    \/ \E options \in TtlOptions, b \in BOOLEAN : SetMany(options, b)
    \/ Delete
    \/ Clear
    \/ GetStale
    \/ GetSecondary
    \/ ComputeTtl
    \/ WritePrimary
    \/ InvalidateTag
    \/ \E t \in InstanceTtls : AssignTtl(t)
    \/ \E t \in MaxTtls : AssignMaxTtl(t)
    \/ Tick

Spec == Init /\ [][Next]_vars

-----------------------------------------------------------------------------
TypeOK ==
    /\ now \in Nat
    /\ ttl \in DefaultTtl /\ maxTtl \in DefaultTtl
    /\ primary \in Copy \cup {None} /\ secondary \in Copy \cup {None}
    /\ snapshot \in Meta \cup {None} /\ counter \in Meta \cup {None}
    /\ backfill \in Backfill \cup {None}
    /\ tagged \in BOOLEAN /\ invalidated \in BOOLEAN

Copies == {primary, secondary} \ {None}

\* A write whose resolved ttl is not 0 expires within maxTtl, whatever mix of
\* operation, hook, store and instance ttls it was resolved from (capTtl).
CapRespected ==
    \A c \in Copies :
        ~c.promoted /\ c.cap # Undef /\ c.asked # 0 =>
            c.expires # Undef /\ c.expires <= c.written + c.cap

\* A primary copy back-filled from the secondary store before the secondary's
\* expiry outlives it by no more than the time spent inside the back-fill
\* (processSecondaryForGetRaw, calculateTtlFromExpiration).
BackfillBounded ==
    \A c \in Copies :
        c.promoted /\ ~c.late /\ c.deadline # Undef =>
            c.expires # Undef /\ c.expires <= c.deadline + c.lag

\* What TTLs were asked for and where a copy came from: none outlives the
\* maximum, nor the copy it was made from.
LifetimesBounded == CapRespected /\ BackfillBounded

\* The tag snapshot of the latest write outlives every copy of the value, up
\* to the time spent inside a back-fill (maxStoreTtl, set, setMany).
SnapshotCovers ==
    \A c \in Copies :
        tagged /\ ~c.late =>
            /\ snapshot # None
            /\ \/ snapshot.expires = Undef
               \/ /\ c.expires # Undef
                  /\ c.expires <= snapshot.expires + c.lag

\* Once a tag of the latest write is invalidated, no get serves a copy of it:
\* the tag check finds the key stale for as long as a copy is there to serve,
\* except in the last `lag` milliseconds of a slowly back-filled copy.
InvalidationReachesCopies ==
    \A c \in Copies :
        /\ invalidated /\ ~c.late
        /\ c.expires = Undef \/ now + c.lag <= c.expires
        => Stale

\* A value nothing invalidated is never found stale: not by a snapshot left
\* from an earlier tagged write, nor by a counter that went backwards.
FreshStaysFresh ==
    ~invalidated /\ (\E c \in Copies : Live(c)) => ~Stale
=============================================================================
