----------------------------- MODULE CacheTags -----------------------------
(***************************************************************************)
(* Tag invalidation (@cacheable/utils, class CacheTags) over a store that   *)
(* answers each read and write separately.  A writer, invalidator or       *)
(* checker is one call in flight, in any instance that shares the store;   *)
(* its reads and writes interleave with everybody else's.  Absent version  *)
(* counters count as 0.  Expiry of counters is the subject of TieredTtl.    *)
(***************************************************************************)
EXTENDS Integers, FiniteSets

CONSTANTS
    Keys, Tags,
    Writers, Invalidators, Checkers, \* calls that may be in flight at a time
    Invalidates,                     \* the tags each invalidator works on
    None,                            \* no snapshot, no call
    MaxVersion                       \* bound of the model

ASSUME CacheTagsAssumption ==
    /\ Invalidates \in [Invalidators -> SUBSET Tags]
    /\ MaxVersion \in Nat

VARIABLES
    enabled,
    version,    \* counter of each tag
    snapshot,   \* of each key: its tags and the versions they had
    writer, invalidator, checker,
    dirty,      \* history: keys invalidated since their snapshot was written
    hit         \* history: keys with a counter write since their tagging began

vars == <<enabled, version, snapshot, writer, invalidator, checker, dirty, hit>>

Versions == [Tags -> Nat]

NoVersions == [t \in Tags |-> 0]

\* Mutant: the counter stays as it is.
NextVersion_Same(v) == v

NextVersion(v) == v + 1

Snapshot == [tags : SUBSET Tags, versions : Versions]

WriterCall == [key : Keys, tags : SUBSET Tags, unread : SUBSET Tags,
               versions : Versions, hit : BOOLEAN]
InvalidatorCall == [unread : SUBSET Tags, unwritten : SUBSET Tags,
                    versions : Versions, covers : SUBSET Keys]
CheckerCall == [keys : SUBSET Keys, unread : SUBSET Keys,
                snapshots : [Keys -> Snapshot \cup {None}],
                unreadTags : SUBSET Tags, versions : Versions,
                must : SUBSET Keys, may : SUBSET Keys]

ASSUME NoneAssumption ==
    None \notin Snapshot \cup WriterCall \cup InvalidatorCall \cup CheckerCall

\* A key is stale when a tag of its snapshot no longer has the same version.
Differs(s, versions) ==
    s # None /\ \E t \in s.tags : s.versions[t] # versions[t]

IsStale(k) == Differs(snapshot[k], version)

Tagged(k, t) == snapshot[k] # None /\ t \in snapshot[k].tags

\* History: the snapshot of key k is replaced or gone, so no call in flight
\* owes anything to the old one any more.
Forget(k) ==
    /\ invalidator' = [i \in Invalidators |->
           IF invalidator[i] = None THEN None
           ELSE [invalidator[i] EXCEPT !.covers = @ \ {k}]]
    /\ checker' = [c \in Checkers |->
           IF checker[c] = None THEN None
           ELSE [checker[c] EXCEPT !.must = @ \ {k}, !.may = @ \cup {k}]]

-----------------------------------------------------------------------------
(* setKeyTags, removeKeys                                                   *)

SetKeyTags(w, k, tags) ==
    /\ enabled /\ writer[w] = None
    /\ writer' = [writer EXCEPT ![w] =
           [key |-> k, tags |-> tags, unread |-> tags,
            versions |-> NoVersions, hit |-> FALSE]]
    /\ UNCHANGED <<enabled, version, snapshot, invalidator, checker, dirty,
                   hit>>

\* Mutant: a tag's version is not recorded.
ReadTagVersion_Forgets(w, t) ==
    /\ writer[w] # None /\ t \in writer[w].unread
    /\ writer' = [writer EXCEPT ![w].unread = @ \ {t}]
    /\ UNCHANGED <<enabled, version, snapshot, invalidator, checker, dirty,
                   hit>>

ReadTagVersion(w, t) ==
    /\ writer[w] # None /\ t \in writer[w].unread
    /\ writer' = [writer EXCEPT ![w].unread = @ \ {t},
                                ![w].versions[t] = version[t]]
    /\ UNCHANGED <<enabled, version, snapshot, invalidator, checker, dirty,
                   hit>>

WriteSnapshot(w) ==
    /\ writer[w] # None /\ writer[w].unread = {}
    /\ LET k == writer[w].key
       IN  /\ snapshot' = [snapshot EXCEPT ![k] =
                  [tags |-> writer[w].tags, versions |-> writer[w].versions]]
           /\ dirty' = dirty \ {k}
           /\ hit' = IF writer[w].hit THEN hit \cup {k} ELSE hit \ {k}
           /\ Forget(k)
    /\ writer' = [writer EXCEPT ![w] = None]
    /\ UNCHANGED <<enabled, version>>

\* The snapshot is deleted by removeKeys or its TTL runs out in the store.
DropSnapshot(k) ==
    /\ snapshot[k] # None
    /\ snapshot' = [snapshot EXCEPT ![k] = None]
    /\ dirty' = dirty \ {k} /\ hit' = hit \ {k}
    /\ Forget(k)
    /\ UNCHANGED <<enabled, version, writer>>

RemoveKeys(k) == enabled /\ DropSnapshot(k)

-----------------------------------------------------------------------------
(* invalidateTag, invalidateTags                                            *)

InvalidateTags(i, tags) ==
    /\ enabled /\ invalidator[i] = None
    /\ invalidator' = [invalidator EXCEPT ![i] =
           [unread |-> tags, unwritten |-> tags, versions |-> NoVersions,
            covers |-> {k \in Keys : \E t \in tags : Tagged(k, t)}]]
    /\ UNCHANGED <<enabled, version, snapshot, writer, checker, dirty, hit>>

ReadCounter(i, t) ==
    /\ invalidator[i] # None /\ t \in invalidator[i].unread
    /\ version[t] < MaxVersion
    /\ invalidator' = [invalidator EXCEPT ![i].unread = @ \ {t},
                                          ![i].versions[t] = version[t]]
    /\ UNCHANGED <<enabled, version, snapshot, writer, checker, dirty, hit>>

WriteCounter(i, t) ==
    /\ invalidator[i] # None
    /\ invalidator[i].unread = {} /\ t \in invalidator[i].unwritten
    /\ version' = [version EXCEPT ![t] = NextVersion(invalidator[i].versions[t])]
    /\ invalidator' = [invalidator EXCEPT ![i].unwritten = @ \ {t}]
    /\ dirty' = dirty \cup {k \in invalidator[i].covers : Tagged(k, t)}
    /\ hit' = hit \cup {k \in Keys : Tagged(k, t)}
    /\ writer' = [w \in Writers |->
           IF writer[w] # None /\ t \in writer[w].tags
           THEN [writer[w] EXCEPT !.hit = TRUE] ELSE writer[w]]
    /\ checker' = [c \in Checkers |->
           IF checker[c] = None THEN None
           ELSE [checker[c] EXCEPT !.may = @ \cup {k \in Keys : Tagged(k, t)}]]
    /\ UNCHANGED <<enabled, snapshot>>

InvalidateDone(i) ==
    /\ invalidator[i] # None /\ invalidator[i].unwritten = {}
    /\ invalidator' = [invalidator EXCEPT ![i] = None]
    /\ UNCHANGED <<enabled, version, snapshot, writer, checker, dirty, hit>>

-----------------------------------------------------------------------------
(* getStaleKeys, and isKeyStale and isKeyFresh, which check one key         *)

GetStaleKeys(c, keys) ==
    /\ enabled /\ checker[c] = None
    /\ checker' = [checker EXCEPT ![c] =
           [keys |-> keys, unread |-> keys,
            snapshots |-> [k \in Keys |-> None],
            unreadTags |-> {}, versions |-> NoVersions,
            must |-> keys \cap dirty, may |-> keys \cap hit]]
    /\ UNCHANGED <<enabled, version, snapshot, writer, invalidator, dirty, hit>>

\* Mutant: the versions of the snapshot's tags are not asked for.
ReadSnapshot_NoTags(c, k) ==
    /\ checker[c] # None /\ k \in checker[c].unread
    /\ checker' = [checker EXCEPT ![c].unread = @ \ {k},
                                  ![c].snapshots[k] = snapshot[k]]
    /\ UNCHANGED <<enabled, version, snapshot, writer, invalidator, dirty, hit>>

ReadSnapshot(c, k) ==
    /\ checker[c] # None /\ k \in checker[c].unread
    /\ checker' = [checker EXCEPT
           ![c].unread = @ \ {k},
           ![c].snapshots[k] = snapshot[k],
           ![c].unreadTags = IF snapshot[k] = None THEN @
                             ELSE @ \cup snapshot[k].tags]
    /\ UNCHANGED <<enabled, version, snapshot, writer, invalidator, dirty, hit>>

ReadCurrentVersion(c, t) ==
    /\ checker[c] # None
    /\ checker[c].unread = {} /\ t \in checker[c].unreadTags
    /\ checker' = [checker EXCEPT ![c].unreadTags = @ \ {t},
                                  ![c].versions[t] = version[t]]
    /\ UNCHANGED <<enabled, version, snapshot, writer, invalidator, dirty, hit>>

Decided(c) ==
    checker[c] # None /\ checker[c].unread = {} /\ checker[c].unreadTags = {}

\* The keys the call returns once it has read everything.
staleKeys(c) ==
    {k \in checker[c].keys :
        Differs(checker[c].snapshots[k], checker[c].versions)}

ReturnStaleKeys(c) ==
    /\ Decided(c)
    /\ checker' = [checker EXCEPT ![c] = None]
    /\ UNCHANGED <<enabled, version, snapshot, writer, invalidator, dirty, hit>>

-----------------------------------------------------------------------------
SetEnabled ==
    /\ enabled' = ~enabled
    /\ UNCHANGED <<version, snapshot, writer, invalidator, checker, dirty, hit>>

Init ==
    /\ enabled \in BOOLEAN
    /\ version = NoVersions
    /\ snapshot = [k \in Keys |-> None]
    /\ writer = [w \in Writers |-> None]
    /\ invalidator = [i \in Invalidators |-> None]
    /\ checker = [c \in Checkers |-> None]
    /\ dirty = {} /\ hit = {}

Next ==
    \/ \E w \in Writers :
         \/ \E k \in Keys, tags \in SUBSET Tags : SetKeyTags(w, k, tags)
         \/ \E t \in Tags : ReadTagVersion(w, t)
         \/ WriteSnapshot(w)
    \/ \E i \in Invalidators :
         \/ \E tags \in SUBSET Invalidates[i] \ {{}} : InvalidateTags(i, tags)
         \/ \E t \in Tags : ReadCounter(i, t) \/ WriteCounter(i, t)
         \/ InvalidateDone(i)
    \/ \E c \in Checkers :
         \/ \E keys \in SUBSET Keys \ {{}} : GetStaleKeys(c, keys)
         \/ \E k \in Keys : ReadSnapshot(c, k)
         \/ \E t \in Tags : ReadCurrentVersion(c, t)
         \/ ReturnStaleKeys(c)
    \/ \E k \in Keys : RemoveKeys(k) \/ DropSnapshot(k)
    \/ SetEnabled

Spec == Init /\ [][Next]_vars

-----------------------------------------------------------------------------
TypeOK ==
    /\ enabled \in BOOLEAN
    /\ version \in Versions
    /\ snapshot \in [Keys -> Snapshot \cup {None}]
    /\ writer \in [Writers -> WriterCall \cup {None}]
    /\ invalidator \in [Invalidators -> InvalidatorCall \cup {None}]
    /\ checker \in [Checkers -> CheckerCall \cup {None}]
    /\ dirty \subseteq Keys /\ hit \subseteq Keys

\* At most one call at a time works on a tag's counter.
SingleInvalidator ==
    \A i, j \in Invalidators : i # j => Invalidates[i] \cap Invalidates[j] = {}

\* The version counter of a tag never goes back (cache-tags.ts: "a
\* monotonically increasing version counter"); true with SingleInvalidator.
CountersIncrease ==
    [][\A t \in Tags : version'[t] >= version[t]]_version

\* An invalidation that began when a key already had its snapshot, and that
\* has written its counter, leaves the key stale until it is tagged again
\* (cache-tags.ts: "Every key whose snapshot references this tag becomes
\* stale immediately"); true with SingleInvalidator.
InvalidationSticks == \A k \in dirty : IsStale(k)

\* A key is stale only if a counter of one of its tags was written since
\* its setKeyTags call began, however many invalidators race.
OnlyInvalidationStales == \A k \in Keys : IsStale(k) => k \in hit

\* getStaleKeys, whose snapshot and version reads are separate, reports every
\* key that was invalidated before it began and not tagged again meanwhile.
CheckFindsInvalidated ==
    \A c \in Checkers : Decided(c) => checker[c].must \subseteq staleKeys(c)

\* getStaleKeys reports no key that nothing happened to: neither tagged again, nor hit
\* by a counter write, between its tagging and the report.
CheckSparesUntouched ==
    \A c \in Checkers : Decided(c) => staleKeys(c) \subseteq checker[c].may

\* Although its reads are separate, getStaleKeys errs in neither direction:
\* what it must report is reported, and nothing else than it may.
CheckRight == CheckFindsInvalidated /\ CheckSparesUntouched
=============================================================================
