-------------------------- MODULE CacheTagsProofs --------------------------
(***************************************************************************)
(* Proofs about CacheTags for any sets of keys, tags and calls in flight,    *)
(* and about NodeCache for any keys, sizes, options and nesting of calls.    *)
(***************************************************************************)
EXTENDS CacheTags, NodeCache, FiniteSetTheorems, SequenceTheorems,
        WellFoundedInduction, TLAPS

\* Forget keeps the types of the calls in flight.
LEMMA ForgetType ==
    ASSUME TypeOK, NEW k \in Keys, Forget(k)
    PROVE  /\ invalidator' \in [Invalidators -> InvalidatorCall \cup {None}]
           /\ checker' \in [Checkers -> CheckerCall \cup {None}]
<1>1. ASSUME NEW i \in Invalidators, invalidator[i] # None
      PROVE  [invalidator[i] EXCEPT !.covers = @ \ {k}] \in InvalidatorCall
  BY <1>1 DEF TypeOK, InvalidatorCall
<1>2. ASSUME NEW c \in Checkers, checker[c] # None
      PROVE  [checker[c] EXCEPT !.must = @ \ {k}, !.may = @ \cup {k}]
               \in CheckerCall
  BY <1>2 DEF TypeOK, CheckerCall
<1> QED  BY <1>1, <1>2 DEF Forget

\* Every reachable state is well typed.
THEOREM Typing == Spec => []TypeOK
<1>1. Init => TypeOK
  BY DEF Init, TypeOK, Versions, NoVersions
<1>2. TypeOK /\ [Next]_vars => TypeOK'
  <2> SUFFICES ASSUME TypeOK, [Next]_vars PROVE TypeOK'
    OBVIOUS
  <2> NoVersions \in Versions
    BY DEF NoVersions, Versions
  <2>1. ASSUME NEW w \in Writers, NEW k \in Keys, NEW tags \in SUBSET Tags,
               SetKeyTags(w, k, tags)
        PROVE  TypeOK'
    BY <2>1 DEF SetKeyTags, TypeOK, WriterCall
  <2>2. ASSUME NEW w \in Writers, NEW t \in Tags, ReadTagVersion(w, t)
        PROVE  TypeOK'
    <3>1. [writer[w] EXCEPT !.unread = @ \ {t}, !.versions[t] = version[t]]
            \in WriterCall
      BY <2>2 DEF ReadTagVersion, TypeOK, WriterCall, Versions
    <3> QED  BY <2>2, <3>1 DEF ReadTagVersion, TypeOK
  <2>3. ASSUME NEW w \in Writers, WriteSnapshot(w)
        PROVE  TypeOK'
    <3>1. writer[w] \in WriterCall
      BY <2>3 DEF WriteSnapshot, TypeOK
    <3>2. /\ writer[w].key \in Keys
          /\ [tags |-> writer[w].tags, versions |-> writer[w].versions]
               \in Snapshot
      BY <3>1 DEF WriterCall, Snapshot
    <3> QED  BY <2>3, <3>1, <3>2, ForgetType DEF WriteSnapshot, TypeOK
  <2>4. ASSUME NEW k \in Keys, RemoveKeys(k) \/ DropSnapshot(k)
        PROVE  TypeOK'
    BY <2>4, ForgetType DEF RemoveKeys, DropSnapshot, TypeOK
  <2>5. ASSUME NEW i \in Invalidators,
               NEW tags \in SUBSET Invalidates[i] \ {{}},
               InvalidateTags(i, tags)
        PROVE  TypeOK'
    <3>1. tags \subseteq Tags
      BY CacheTagsAssumption
    <3>2. {k \in Keys : \E t \in tags : Tagged(k, t)} \subseteq Keys
      OBVIOUS
    <3> QED  BY <2>5, <3>1, <3>2 DEF InvalidateTags, TypeOK, InvalidatorCall
  <2>6. ASSUME NEW i \in Invalidators, NEW t \in Tags, ReadCounter(i, t)
        PROVE  TypeOK'
    <3>1. [invalidator[i] EXCEPT !.unread = @ \ {t},
                                 !.versions[t] = version[t]]
            \in InvalidatorCall
      BY <2>6 DEF ReadCounter, TypeOK, InvalidatorCall, Versions
    <3> QED  BY <2>6, <3>1 DEF ReadCounter, TypeOK
  <2>7. ASSUME NEW i \in Invalidators, NEW t \in Tags, WriteCounter(i, t)
        PROVE  TypeOK'
    <3>1. invalidator[i] \in InvalidatorCall
      BY <2>7 DEF WriteCounter, NextVersion, TypeOK
    <3>2. invalidator[i].versions[t] + 1 \in Nat
      BY <3>1 DEF InvalidatorCall, Versions
    <3>3. [invalidator[i] EXCEPT !.unwritten = @ \ {t}] \in InvalidatorCall
      BY <3>1 DEF InvalidatorCall
    <3>4. ASSUME NEW w \in Writers, writer[w] # None
          PROVE  [writer[w] EXCEPT !.hit = TRUE] \in WriterCall
      BY <3>4 DEF TypeOK, WriterCall
    <3>5. ASSUME NEW c \in Checkers, checker[c] # None
          PROVE  [checker[c] EXCEPT !.may = @ \cup {k \in Keys : Tagged(k, t)}]
                   \in CheckerCall
      BY <3>5 DEF TypeOK, CheckerCall
    <3>6. version' \in Versions
      BY <2>7, <3>2 DEF WriteCounter, NextVersion, TypeOK, Versions
    <3>7. invalidator' \in [Invalidators -> InvalidatorCall \cup {None}]
      BY <2>7, <3>3 DEF WriteCounter, NextVersion, TypeOK
    <3>8. writer' \in [Writers -> WriterCall \cup {None}]
      BY <2>7, <3>4 DEF WriteCounter, NextVersion, TypeOK
    <3>9. checker' \in [Checkers -> CheckerCall \cup {None}]
      BY <2>7, <3>5 DEF WriteCounter, NextVersion
    <3>10. dirty' \subseteq Keys /\ hit' \subseteq Keys
      BY <2>7, <3>1 DEF WriteCounter, NextVersion, TypeOK, InvalidatorCall
    <3> QED
      BY <2>7, <3>6, <3>7, <3>8, <3>9, <3>10 DEF WriteCounter, NextVersion, TypeOK
  <2>8. ASSUME NEW i \in Invalidators, InvalidateDone(i)
        PROVE  TypeOK'
    BY <2>8 DEF InvalidateDone, TypeOK
  <2>9. ASSUME NEW c \in Checkers, NEW keys \in SUBSET Keys,
               GetStaleKeys(c, keys)
        PROVE  TypeOK'
    BY <2>9 DEF GetStaleKeys, TypeOK, CheckerCall
  <2>10. ASSUME NEW c \in Checkers, NEW k \in Keys, ReadSnapshot(c, k)
         PROVE  TypeOK'
    <3> DEFINE tags == IF snapshot[k] = None THEN checker[c].unreadTags
                       ELSE checker[c].unreadTags \cup snapshot[k].tags
    <3>1. checker[c] \in CheckerCall
      BY <2>10 DEF ReadSnapshot, TypeOK
    <3>2. tags \subseteq Tags
      BY <3>1 DEF TypeOK, CheckerCall, Snapshot
    <3>3. checker' = [checker EXCEPT ![c] =
              [checker[c] EXCEPT !.unread = @ \ {k},
                                 !.snapshots[k] = snapshot[k],
                                 !.unreadTags = tags]]
      BY <2>10 DEF ReadSnapshot
    <3> HIDE DEF tags
    <3>4. [checker[c] EXCEPT !.unread = @ \ {k},
                             !.snapshots[k] = snapshot[k],
                             !.unreadTags = tags] \in CheckerCall
      BY <3>1, <3>2 DEF TypeOK, CheckerCall
    <3> QED  BY <2>10, <3>3, <3>4 DEF ReadSnapshot, TypeOK
  <2>11. ASSUME NEW c \in Checkers, NEW t \in Tags, ReadCurrentVersion(c, t)
         PROVE  TypeOK'
    <3>1. [checker[c] EXCEPT !.unreadTags = @ \ {t},
                             !.versions[t] = version[t]] \in CheckerCall
      BY <2>11 DEF ReadCurrentVersion, TypeOK, CheckerCall, Versions
    <3> QED  BY <2>11, <3>1 DEF ReadCurrentVersion, TypeOK
  <2>12. ASSUME NEW c \in Checkers, ReturnStaleKeys(c) PROVE TypeOK'
    BY <2>12 DEF ReturnStaleKeys, TypeOK
  <2>13. CASE SetEnabled  BY <2>13 DEF SetEnabled, TypeOK
  <2>14. CASE UNCHANGED vars  BY <2>14 DEF vars, TypeOK
  <2> QED
    BY <2>1, <2>2, <2>3, <2>4, <2>5, <2>6, <2>7, <2>8, <2>9, <2>10, <2>11,
       <2>12, <2>13, <2>14 DEF Next
<1> QED  BY <1>1, <1>2, PTL DEF Spec

-----------------------------------------------------------------------------
(* Part 1: what holds however many invalidators race.                       *)

\* A snapshot, or what a writer has read for one, agrees with the counters
\* until a counter of one of its tags is written.
SnapshotAgrees ==
    \A k \in Keys \ hit : snapshot[k] # None =>
        \A t \in snapshot[k].tags : snapshot[k].versions[t] = version[t]

WriterAgrees ==
    \A w \in Writers : writer[w] # None /\ ~writer[w].hit =>
        \A t \in writer[w].tags \ writer[w].unread :
            writer[w].versions[t] = version[t]

\* So does what a checker has read about a key nothing happened to.
CheckerAgrees ==
    \A c \in Checkers : checker[c] # None =>
        \A k \in checker[c].keys \ checker[c].may :
            /\ k \notin hit
            /\ k \notin checker[c].unread =>
                 /\ checker[c].snapshots[k] = snapshot[k]
                 /\ snapshot[k] # None =>
                      \A t \in snapshot[k].tags \ checker[c].unreadTags :
                          checker[c].versions[t] = version[t]

AgreeInv == SnapshotAgrees /\ WriterAgrees /\ CheckerAgrees

\* The agreement invariant is inductive.
LEMMA AgreeStep == TypeOK /\ AgreeInv /\ [Next]_vars => AgreeInv'
<1> SUFFICES ASSUME TypeOK, AgreeInv, [Next]_vars PROVE AgreeInv'
  OBVIOUS
<1> USE DEF AgreeInv
<1>1. ASSUME NEW w \in Writers, NEW k \in Keys, NEW tags \in SUBSET Tags,
             SetKeyTags(w, k, tags)
      PROVE  AgreeInv'
  <2>1. SnapshotAgrees' /\ CheckerAgrees'
    BY <1>1 DEF SetKeyTags, SnapshotAgrees, CheckerAgrees
  <2>2. WriterAgrees'
    BY <1>1 DEF SetKeyTags, WriterAgrees, TypeOK
  <2> QED  BY <2>1, <2>2
<1>2. ASSUME NEW w \in Writers, NEW t \in Tags, ReadTagVersion(w, t)
      PROVE  AgreeInv'
  <2>1. SnapshotAgrees' /\ CheckerAgrees'
    BY <1>2 DEF ReadTagVersion, SnapshotAgrees, CheckerAgrees
  <2>2. WriterAgrees'
    <3>1. writer[w] \in WriterCall
      BY <1>2 DEF ReadTagVersion, TypeOK
    <3>2. /\ \A v \in Writers : v # w => writer'[v] = writer[v]
          /\ writer'[w] = [writer[w] EXCEPT !.unread = @ \ {t},
                                            !.versions[t] = version[t]]
      BY <1>2 DEF ReadTagVersion, TypeOK
    <3>3. /\ writer'[w].tags = writer[w].tags
          /\ writer'[w].hit = writer[w].hit
          /\ writer'[w].unread = writer[w].unread \ {t}
          /\ writer'[w].versions = [writer[w].versions EXCEPT ![t] = version[t]]
      BY <3>1, <3>2 DEF WriterCall
    <3>4. version' = version
      BY <1>2 DEF ReadTagVersion
    <3>5. writer[w] # None /\ writer[w].versions \in [Tags -> Nat]
      BY <1>2, <3>1 DEF ReadTagVersion, WriterCall, Versions
    <3>6. ASSUME ~writer'[w].hit, NEW u \in writer'[w].tags \ writer'[w].unread
          PROVE  writer'[w].versions[u] = version[u]
      <4>1. CASE u = t  BY <3>3, <3>5, <4>1
      <4>2. CASE u # t
        <5>1. u \in writer[w].tags \ writer[w].unread
          BY <3>3, <3>6, <4>2
        <5>2. writer[w].versions[u] = version[u]
          BY <3>3, <3>5, <3>6, <5>1 DEF WriterAgrees
        <5> QED  BY <3>3, <3>5, <4>2, <5>2
      <4> QED  BY <4>1, <4>2
    <3>7. ASSUME NEW v \in Writers, writer'[v] # None, ~writer'[v].hit,
                 NEW u \in writer'[v].tags \ writer'[v].unread
          PROVE  writer'[v].versions[u] = version'[u]
      <4>1. CASE v = w  BY <3>4, <3>6, <3>7, <4>1
      <4>2. CASE v # w
        <5>1. writer'[v] = writer[v]
          BY <3>2, <4>2
        <5> QED  BY <3>4, <3>7, <5>1 DEF WriterAgrees
      <4> QED  BY <4>1, <4>2
    <3> QED  BY <3>7 DEF WriterAgrees
  <2> QED  BY <2>1, <2>2
<1>3. ASSUME NEW w \in Writers, WriteSnapshot(w)
      PROVE  AgreeInv'
  <2> DEFINE k == writer[w].key
  <2>1. /\ writer[w] \in WriterCall /\ k \in Keys
        /\ version' = version
        /\ snapshot' = [snapshot EXCEPT ![k] =
               [tags |-> writer[w].tags, versions |-> writer[w].versions]]
        /\ hit' = IF writer[w].hit THEN hit \cup {k} ELSE hit \ {k}
        /\ writer[w].unread = {}
    BY <1>3 DEF WriteSnapshot, TypeOK, WriterCall
  <2>2. SnapshotAgrees'
    <3>1. ASSUME ~writer[w].hit
          PROVE  \A t \in writer[w].tags : writer[w].versions[t] = version[t]
      BY <1>3, <2>1, <3>1 DEF WriterAgrees, WriteSnapshot
    <3> QED  BY <2>1, <3>1 DEF SnapshotAgrees, TypeOK
  <2>3. WriterAgrees'
    BY <1>3 DEF WriteSnapshot, WriterAgrees, TypeOK
  <2>4. CheckerAgrees'
    <3>1. ASSUME NEW c \in Checkers, checker'[c] # None
          PROVE  /\ checker[c] # None
                 /\ checker'[c] = [checker[c] EXCEPT !.must = @ \ {k},
                                                     !.may = @ \cup {k}]
      BY <1>3, <3>1 DEF WriteSnapshot, Forget
    <3>2. ASSUME NEW c \in Checkers, checker'[c] # None
          PROVE  /\ checker'[c].may = checker[c].may \cup {k}
                 /\ checker'[c].keys = checker[c].keys
                 /\ checker'[c].unread = checker[c].unread
                 /\ checker'[c].snapshots = checker[c].snapshots
                 /\ checker'[c].unreadTags = checker[c].unreadTags
                 /\ checker'[c].versions = checker[c].versions
      BY <3>1, <3>2 DEF TypeOK, CheckerCall
    <3>3. ASSUME NEW c \in Checkers, checker'[c] # None,
                 NEW x \in checker'[c].keys \ checker'[c].may
          PROVE  /\ x # k /\ x \in checker[c].keys \ checker[c].may
                 /\ snapshot'[x] = snapshot[x] /\ (x \in hit' <=> x \in hit)
      <4>1. x # k /\ x \in checker[c].keys \ checker[c].may
        BY <3>2, <3>3
      <4>2. x \in Keys
        BY <3>1, <3>3, <4>1 DEF TypeOK, CheckerCall
      <4> HIDE DEF k
      <4> QED  BY <2>1, <4>1, <4>2 DEF TypeOK
    <3> HIDE DEF k
    <3>4. ASSUME NEW c \in Checkers, checker'[c] # None,
                 NEW x \in checker'[c].keys \ checker'[c].may
          PROVE  /\ x \notin hit'
                 /\ x \notin checker'[c].unread =>
                      /\ checker'[c].snapshots[x] = snapshot'[x]
                      /\ snapshot'[x] # None =>
                           \A t \in snapshot'[x].tags \ checker'[c].unreadTags :
                               checker'[c].versions[t] = version'[t]
      <4>1. /\ x \notin hit
            /\ x \notin checker[c].unread =>
                 /\ checker[c].snapshots[x] = snapshot[x]
                 /\ snapshot[x] # None =>
                      \A t \in snapshot[x].tags \ checker[c].unreadTags :
                          checker[c].versions[t] = version[t]
        BY <3>1, <3>3, <3>4 DEF CheckerAgrees
      <4> QED  BY <2>1, <3>2, <3>3, <3>4, <4>1
    <3> QED  BY <3>4 DEF CheckerAgrees
  <2> QED  BY <2>2, <2>3, <2>4
<1>4. ASSUME NEW k \in Keys, RemoveKeys(k) \/ DropSnapshot(k)
      PROVE  AgreeInv'
  <2>1. DropSnapshot(k)
    BY <1>4 DEF RemoveKeys
  <2>2. SnapshotAgrees' /\ WriterAgrees'
    BY <2>1 DEF DropSnapshot, SnapshotAgrees, WriterAgrees, TypeOK
  <2>3. CheckerAgrees'
    <3>1. ASSUME NEW c \in Checkers, checker'[c] # None
          PROVE  /\ checker[c] # None
                 /\ checker'[c] = [checker[c] EXCEPT !.must = @ \ {k},
                                                     !.may = @ \cup {k}]
      BY <2>1, <3>1 DEF DropSnapshot, Forget
    <3>2. ASSUME NEW c \in Checkers, checker'[c] # None
          PROVE  /\ checker'[c].may = checker[c].may \cup {k}
                 /\ checker'[c].keys = checker[c].keys
                 /\ checker'[c].unread = checker[c].unread
                 /\ checker'[c].snapshots = checker[c].snapshots
                 /\ checker'[c].unreadTags = checker[c].unreadTags
                 /\ checker'[c].versions = checker[c].versions
      BY <3>1, <3>2 DEF TypeOK, CheckerCall
    <3>3. ASSUME NEW c \in Checkers, checker'[c] # None,
                 NEW x \in checker'[c].keys \ checker'[c].may
          PROVE  /\ x \in checker[c].keys \ checker[c].may
                 /\ snapshot'[x] = snapshot[x] /\ (x \in hit' <=> x \in hit)
      <4>1. x # k /\ x \in checker[c].keys \ checker[c].may
        BY <3>2, <3>3
      <4>2. x \in Keys
        BY <3>1, <3>3, <4>1 DEF TypeOK, CheckerCall
      <4> QED  BY <2>1, <4>1, <4>2 DEF DropSnapshot, TypeOK
    <3>4. version' = version
      BY <2>1 DEF DropSnapshot
    <3>5. ASSUME NEW c \in Checkers, checker'[c] # None,
                 NEW x \in checker'[c].keys \ checker'[c].may
          PROVE  /\ x \notin hit'
                 /\ x \notin checker'[c].unread =>
                      /\ checker'[c].snapshots[x] = snapshot'[x]
                      /\ snapshot'[x] # None =>
                           \A t \in snapshot'[x].tags \ checker'[c].unreadTags :
                               checker'[c].versions[t] = version'[t]
      <4>1. /\ x \notin hit
            /\ x \notin checker[c].unread =>
                 /\ checker[c].snapshots[x] = snapshot[x]
                 /\ snapshot[x] # None =>
                      \A t \in snapshot[x].tags \ checker[c].unreadTags :
                          checker[c].versions[t] = version[t]
        BY <3>1, <3>3, <3>5 DEF CheckerAgrees
      <4> QED  BY <3>4, <3>2, <3>3, <3>5, <4>1
    <3> QED  BY <3>5 DEF CheckerAgrees
  <2> QED  BY <2>2, <2>3
<1>5. ASSUME NEW i \in Invalidators, NEW t \in Tags, WriteCounter(i, t)
      PROVE  AgreeInv'
  <2>1. /\ version' = [version EXCEPT ![t] = invalidator[i].versions[t] + 1]
        /\ hit' = hit \cup {k \in Keys : Tagged(k, t)}
        /\ snapshot' = snapshot
    BY <1>5 DEF WriteCounter, NextVersion
  <2>2. ASSUME NEW k \in Keys \ hit', snapshot[k] # None
        PROVE  \A u \in snapshot[k].tags : version'[u] = version[u]
    BY <2>1, <2>2 DEF Tagged, TypeOK, Versions, Snapshot
  <2>3. SnapshotAgrees'
    BY <2>1, <2>2 DEF SnapshotAgrees
  <2>4. WriterAgrees'
    <3>1. ASSUME NEW w \in Writers, writer'[w] # None, ~writer'[w].hit
          PROVE  writer'[w] = writer[w] /\ t \notin writer[w].tags
      BY <1>5, <3>1 DEF WriteCounter, NextVersion, TypeOK, WriterCall
    <3>2. ASSUME NEW w \in Writers, writer[w] # None
          PROVE  writer[w].tags \subseteq Tags
      BY <3>2 DEF TypeOK, WriterCall
    <3> QED  BY <2>1, <3>1, <3>2 DEF WriterAgrees, TypeOK, Versions
  <2>5. CheckerAgrees'
    <3>1. ASSUME NEW c \in Checkers, checker'[c] # None
          PROVE  /\ checker[c] # None
                 /\ checker'[c] = [checker[c] EXCEPT
                        !.may = @ \cup {k \in Keys : Tagged(k, t)}]
      BY <1>5, <3>1 DEF WriteCounter, NextVersion
    <3>2. ASSUME NEW c \in Checkers, checker'[c] # None
          PROVE  /\ checker'[c].may =
                      checker[c].may \cup {k \in Keys : Tagged(k, t)}
                 /\ checker'[c].keys = checker[c].keys
                 /\ checker'[c].keys \subseteq Keys
                 /\ checker'[c].unread = checker[c].unread
                 /\ checker'[c].snapshots = checker[c].snapshots
                 /\ checker'[c].unreadTags = checker[c].unreadTags
                 /\ checker'[c].versions = checker[c].versions
      BY <3>1, <3>2 DEF TypeOK, CheckerCall
    <3>3. ASSUME NEW c \in Checkers, checker'[c] # None,
                 NEW x \in checker'[c].keys \ checker'[c].may
          PROVE  /\ x \in checker[c].keys \ checker[c].may
                 /\ x \in Keys \ hit'
      <4>1. x \in checker[c].keys \ checker[c].may /\ x \in Keys
        BY <3>2, <3>3
      <4>2. x \notin hit
        BY <3>1, <3>3, <4>1 DEF CheckerAgrees
      <4> QED  BY <2>1, <3>2, <3>3, <4>1, <4>2
    <3>4. ASSUME NEW c \in Checkers, checker'[c] # None,
                 NEW x \in checker'[c].keys \ checker'[c].may,
                 x \notin checker'[c].unread
          PROVE  /\ checker'[c].snapshots[x] = snapshot[x]
                 /\ snapshot[x] # None =>
                      \A u \in snapshot[x].tags \ checker'[c].unreadTags :
                          checker'[c].versions[u] = version'[u]
      <4>1. /\ checker[c].snapshots[x] = snapshot[x]
            /\ snapshot[x] # None =>
                 \A u \in snapshot[x].tags \ checker[c].unreadTags :
                     checker[c].versions[u] = version[u]
        BY <3>1, <3>2, <3>3, <3>4 DEF CheckerAgrees
      <4>2. snapshot[x] # None =>
              \A u \in snapshot[x].tags : version'[u] = version[u]
        BY <2>2, <3>3, <3>4
      <4> QED  BY <3>2, <3>4, <4>1, <4>2
    <3> QED  BY <2>1, <3>3, <3>4 DEF CheckerAgrees
  <2> QED  BY <2>3, <2>4, <2>5
<1>6. ASSUME NEW c \in Checkers, NEW keys \in SUBSET Keys, GetStaleKeys(c, keys)
      PROVE  AgreeInv'
  <2>1. SnapshotAgrees' /\ WriterAgrees'
    BY <1>6 DEF GetStaleKeys, SnapshotAgrees, WriterAgrees
  <2>2. CheckerAgrees'
    BY <1>6 DEF GetStaleKeys, CheckerAgrees, TypeOK
  <2> QED  BY <2>1, <2>2
<1>7. ASSUME NEW c \in Checkers, NEW k \in Keys, ReadSnapshot(c, k)
      PROVE  AgreeInv'
  <2>1. SnapshotAgrees' /\ WriterAgrees'
    BY <1>7 DEF ReadSnapshot, SnapshotAgrees, WriterAgrees
  <2>2. /\ checker[c] \in CheckerCall
        /\ checker' = [checker EXCEPT ![c] = checker'[c]]
        /\ UNCHANGED <<version, snapshot, hit>>
    BY <1>7 DEF ReadSnapshot, TypeOK
  <2>3. /\ checker'[c].keys = checker[c].keys
        /\ checker'[c].may = checker[c].may
        /\ checker'[c].unread = checker[c].unread \ {k}
        /\ checker'[c].snapshots =
             [checker[c].snapshots EXCEPT ![k] = snapshot[k]]
        /\ checker'[c].versions = checker[c].versions
        /\ checker'[c].unreadTags =
             IF snapshot[k] = None THEN checker[c].unreadTags
             ELSE checker[c].unreadTags \cup snapshot[k].tags
    BY <1>7, <2>2 DEF ReadSnapshot, TypeOK, CheckerCall
  <2>4. CheckerAgrees'
    BY <1>7, <2>2, <2>3 DEF ReadSnapshot, CheckerAgrees, TypeOK, CheckerCall
  <2> QED  BY <2>1, <2>4
<1>8. ASSUME NEW c \in Checkers, NEW t \in Tags, ReadCurrentVersion(c, t)
      PROVE  AgreeInv'
  <2>1. SnapshotAgrees' /\ WriterAgrees'
    BY <1>8 DEF ReadCurrentVersion, SnapshotAgrees, WriterAgrees
  <2>2. /\ checker[c] \in CheckerCall
        /\ checker' = [checker EXCEPT ![c] = checker'[c]]
        /\ UNCHANGED <<version, snapshot, hit>>
    BY <1>8 DEF ReadCurrentVersion, TypeOK
  <2>3. /\ checker'[c].keys = checker[c].keys
        /\ checker'[c].may = checker[c].may
        /\ checker'[c].unread = checker[c].unread
        /\ checker'[c].snapshots = checker[c].snapshots
        /\ checker'[c].versions =
             [checker[c].versions EXCEPT ![t] = version[t]]
        /\ checker'[c].unreadTags = checker[c].unreadTags \ {t}
    BY <1>8, <2>2 DEF ReadCurrentVersion, TypeOK, CheckerCall
  <2>4. checker[c].versions \in Versions
    BY <2>2 DEF CheckerCall
  <2>5. CheckerAgrees'
    BY <1>8, <2>2, <2>3, <2>4
    DEF ReadCurrentVersion, CheckerAgrees, TypeOK, Versions
  <2> QED  BY <2>1, <2>5
<1>9. ASSUME NEW c \in Checkers, ReturnStaleKeys(c)
      PROVE  AgreeInv'
  BY <1>9
  DEF ReturnStaleKeys, SnapshotAgrees, WriterAgrees, CheckerAgrees, TypeOK
<1>10. CASE UNCHANGED <<version, snapshot, writer, checker, hit>>
  BY <1>10 DEF SnapshotAgrees, WriterAgrees, CheckerAgrees
<1> QED
  BY <1>1, <1>2, <1>3, <1>4, <1>5, <1>6, <1>7, <1>8, <1>9, <1>10
  DEF Next, vars, InvalidateTags, ReadCounter, InvalidateDone, SetEnabled

\* The agreement invariant holds in every reachable state.
THEOREM Agreement == Spec => []AgreeInv
<1>1. Init => AgreeInv
  BY DEF Init, AgreeInv, SnapshotAgrees, WriterAgrees, CheckerAgrees
<1> QED  BY <1>1, AgreeStep, Typing, PTL DEF Spec

\* However many invalidators race, only a counter write makes a key stale.
THEOREM OnlyInvalidation == Spec => []OnlyInvalidationStales
<1>1. AgreeInv => OnlyInvalidationStales
  BY DEF AgreeInv, SnapshotAgrees, OnlyInvalidationStales, IsStale, Differs
<1> QED  BY <1>1, Agreement, PTL

\* However its reads interleave, getStaleKeys reports no untouched key.
THEOREM SparesUntouched == Spec => []CheckSparesUntouched
<1>1. TypeOK /\ AgreeInv => CheckSparesUntouched
  <2> SUFFICES ASSUME TypeOK, AgreeInv, NEW c \in Checkers, Decided(c),
                      NEW k \in staleKeys(c), k \notin checker[c].may
               PROVE  FALSE
    BY DEF CheckSparesUntouched
  <2>0. k \in Keys
    BY DEF Decided, staleKeys, TypeOK, CheckerCall
  <2>1. /\ checker[c] # None /\ checker[c].unread = {}
        /\ checker[c].unreadTags = {} /\ k \in checker[c].keys
        /\ Differs(checker[c].snapshots[k], checker[c].versions)
    BY DEF Decided, staleKeys
  <2>2. /\ k \notin hit /\ checker[c].snapshots[k] = snapshot[k]
        /\ snapshot[k] # None =>
             \A t \in snapshot[k].tags : checker[c].versions[t] = version[t]
    BY <2>1 DEF AgreeInv, CheckerAgrees
  <2>3. snapshot[k] # None =>
          \A t \in snapshot[k].tags : snapshot[k].versions[t] = version[t]
    BY <2>0, <2>2 DEF AgreeInv, SnapshotAgrees
  <2> QED  BY <2>1, <2>2, <2>3 DEF Differs
<1> QED  BY <1>1, Typing, Agreement, PTL

-----------------------------------------------------------------------------
(* Part 2: one invalidator at a time per tag.                               *)

\* An invalidator writes only its own tags, from what it has read.
InvalidatorAgrees ==
    \A i \in Invalidators : invalidator[i] # None =>
        /\ invalidator[i].unwritten \subseteq Invalidates[i]
        /\ \A t \in invalidator[i].unwritten \ invalidator[i].unread :
               invalidator[i].versions[t] = version[t]

\* No snapshot, written or about to be, is ahead of the counters.
NotAhead ==
    /\ \A k \in Keys : snapshot[k] # None =>
          \A t \in snapshot[k].tags : snapshot[k].versions[t] <= version[t]
    /\ \A w \in Writers : writer[w] # None =>
          \A t \in writer[w].tags \ writer[w].unread :
              writer[w].versions[t] <= version[t]

\* The snapshot of a dirty key is behind the counter of one of its tags.
DirtyBehind ==
    \A k \in dirty :
        /\ snapshot[k] # None
        /\ \E t \in snapshot[k].tags : snapshot[k].versions[t] < version[t]

\* And a checker that was to find it has not read anything that hides it.
Behind(c, k) ==
    /\ snapshot[k] # None
    /\ k \notin checker[c].unread => checker[c].snapshots[k] = snapshot[k]
    /\ \E t \in snapshot[k].tags :
          /\ snapshot[k].versions[t] < version[t]
          /\ k \notin checker[c].unread /\ t \notin checker[c].unreadTags
             => snapshot[k].versions[t] < checker[c].versions[t]

CheckerBehind ==
    \A c \in Checkers : checker[c] # None =>
        /\ checker[c].must \subseteq checker[c].keys
        /\ \A k \in checker[c].must : Behind(c, k)

BehindInv == InvalidatorAgrees /\ NotAhead /\ DirtyBehind /\ CheckerBehind

\* With one invalidator per tag a counter write adds exactly one.
LEMMA CounterStep ==
    ASSUME TypeOK, InvalidatorAgrees, NEW i \in Invalidators, NEW t \in Tags,
           WriteCounter(i, t)
    PROVE  /\ version' = [version EXCEPT ![t] = version[t] + 1]
           /\ t \in Invalidates[i]
BY DEF WriteCounter, NextVersion, InvalidatorAgrees

\* With one invalidator per tag no step takes a counter back.
LEMMA VersionsNeverDrop ==
    ASSUME TypeOK, InvalidatorAgrees, [Next]_vars
    PROVE  \A u \in Tags : version[u] \in Nat /\ version'[u] \in Nat
                           /\ version'[u] >= version[u]
<1>1. ASSUME NEW i \in Invalidators, NEW t \in Tags, WriteCounter(i, t)
      PROVE  \A u \in Tags : version[u] \in Nat /\ version'[u] \in Nat
                             /\ version'[u] >= version[u]
  BY <1>1, CounterStep DEF TypeOK, Versions
<1>2. CASE version' = version
  BY <1>2 DEF TypeOK, Versions
<1> QED
  BY <1>1, <1>2
  DEF Next, vars, SetKeyTags, ReadTagVersion, WriteSnapshot, RemoveKeys,
      DropSnapshot, InvalidateTags, ReadCounter, InvalidateDone, GetStaleKeys,
      ReadSnapshot, ReadCurrentVersion, ReturnStaleKeys, SetEnabled

\* What Forget does to one call in flight.
LEMMA ForgetOne ==
    ASSUME TypeOK, NEW k \in Keys, Forget(k)
    PROVE  /\ \A i \in Invalidators :
                /\ invalidator'[i] # None <=> invalidator[i] # None
                /\ invalidator[i] # None =>
                     /\ invalidator'[i].unread = invalidator[i].unread
                     /\ invalidator'[i].unwritten = invalidator[i].unwritten
                     /\ invalidator'[i].versions = invalidator[i].versions
           /\ \A c \in Checkers :
                /\ checker'[c] # None => checker[c] # None
                /\ checker[c] # None =>
                     /\ checker'[c].must = checker[c].must \ {k}
                     /\ checker'[c].keys = checker[c].keys
                     /\ checker'[c].unread = checker[c].unread
                     /\ checker'[c].snapshots = checker[c].snapshots
                     /\ checker'[c].unreadTags = checker[c].unreadTags
                     /\ checker'[c].versions = checker[c].versions
<1>1. ASSUME NEW i \in Invalidators, invalidator[i] # None
      PROVE  /\ invalidator'[i] = [invalidator[i] EXCEPT !.covers = @ \ {k}]
             /\ invalidator[i] \in InvalidatorCall
             /\ invalidator'[i] \in InvalidatorCall
  BY <1>1 DEF Forget, TypeOK, InvalidatorCall
<1>2. ASSUME NEW c \in Checkers, checker[c] # None
      PROVE  /\ checker'[c] = [checker[c] EXCEPT !.must = @ \ {k},
                                                 !.may = @ \cup {k}]
             /\ checker[c] \in CheckerCall
  BY <1>2 DEF Forget, TypeOK
<1>3. \A i \in Invalidators : invalidator[i] = None => invalidator'[i] = None
  BY DEF Forget
<1>4. \A c \in Checkers : checker[c] = None => checker'[c] = None
  BY DEF Forget
<1>5. \A i \in Invalidators : invalidator[i] # None => invalidator'[i] # None
  BY <1>1, NoneAssumption
<1>6. ASSUME NEW i \in Invalidators, invalidator[i] # None
      PROVE  /\ invalidator'[i].unread = invalidator[i].unread
             /\ invalidator'[i].unwritten = invalidator[i].unwritten
             /\ invalidator'[i].versions = invalidator[i].versions
  BY <1>1, <1>6 DEF InvalidatorCall
<1>7. ASSUME NEW c \in Checkers, checker[c] # None
      PROVE  /\ checker'[c].must = checker[c].must \ {k}
             /\ checker'[c].keys = checker[c].keys
             /\ checker'[c].unread = checker[c].unread
             /\ checker'[c].snapshots = checker[c].snapshots
             /\ checker'[c].unreadTags = checker[c].unreadTags
             /\ checker'[c].versions = checker[c].versions
  BY <1>2, <1>7 DEF CheckerCall
<1> QED
  BY <1>3, <1>4, <1>5, <1>6, <1>7

\* With one invalidator per tag the counter it read is the counter still.
LEMMA InvalidatorAgreesStep ==
    ASSUME SingleInvalidator, TypeOK, InvalidatorAgrees, [Next]_vars
    PROVE  InvalidatorAgrees'
<1>1. ASSUME NEW i \in Invalidators,
             NEW tags \in SUBSET Invalidates[i] \ {{}}, InvalidateTags(i, tags)
      PROVE  InvalidatorAgrees'
  <2>1. /\ invalidator'[i].unwritten = tags /\ invalidator'[i].unread = tags
        /\ \A j \in Invalidators : j # i => invalidator'[j] = invalidator[j]
        /\ version' = version
    BY <1>1 DEF InvalidateTags, TypeOK
  <2> QED  BY <2>1 DEF InvalidatorAgrees
<1>2. ASSUME NEW i \in Invalidators, NEW t \in Tags, ReadCounter(i, t)
      PROVE  InvalidatorAgrees'
  <2>1. /\ invalidator[i] # None /\ version' = version
        /\ invalidator[i] \in InvalidatorCall
        /\ \A j \in Invalidators : j # i => invalidator'[j] = invalidator[j]
    BY <1>2 DEF ReadCounter, TypeOK
  <2>2. /\ invalidator'[i].unwritten = invalidator[i].unwritten
        /\ invalidator'[i].unread = invalidator[i].unread \ {t}
        /\ invalidator'[i].versions =
             [invalidator[i].versions EXCEPT ![t] = version[t]]
    BY <1>2, <2>1 DEF ReadCounter, TypeOK, InvalidatorCall
  <2>3. invalidator[i].versions \in [Tags -> Nat]
    BY <2>1 DEF InvalidatorCall, Versions
  <2>4. \A u \in invalidator'[i].unwritten \ invalidator'[i].unread :
          invalidator'[i].versions[u] = version[u]
    BY <2>1, <2>2, <2>3 DEF InvalidatorAgrees
  <2>5. invalidator'[i].unwritten \subseteq Invalidates[i]
    BY <2>1, <2>2 DEF InvalidatorAgrees
  <2> QED  BY <2>1, <2>4, <2>5 DEF InvalidatorAgrees
<1>3. ASSUME NEW i \in Invalidators, NEW t \in Tags, WriteCounter(i, t)
      PROVE  InvalidatorAgrees'
  <2>1. /\ invalidator[i] # None
        /\ invalidator[i] \in InvalidatorCall
        /\ \A j \in Invalidators : j # i => invalidator'[j] = invalidator[j]
    BY <1>3 DEF WriteCounter, NextVersion, TypeOK
  <2>2. /\ invalidator'[i].unwritten = invalidator[i].unwritten \ {t}
        /\ invalidator'[i].unread = invalidator[i].unread
        /\ invalidator'[i].versions = invalidator[i].versions
    BY <1>3, <2>1 DEF WriteCounter, NextVersion, TypeOK, InvalidatorCall
  <2>3. version' = [version EXCEPT ![t] = version[t] + 1]
        /\ t \in Invalidates[i]
    BY <1>3, CounterStep
  <2>4. invalidator[i].unwritten \subseteq Tags
    BY <2>1 DEF InvalidatorCall
  <2>5. /\ invalidator'[i].unwritten \subseteq Invalidates[i]
        /\ \A u \in invalidator'[i].unwritten \ invalidator'[i].unread :
               invalidator'[i].versions[u] = version'[u]
    BY <2>1, <2>2, <2>3, <2>4 DEF InvalidatorAgrees, TypeOK, Versions
  <2>6. ASSUME NEW j \in Invalidators, j # i, invalidator[j] # None
        PROVE  t \notin invalidator[j].unwritten
    BY <2>3, <2>6 DEF SingleInvalidator, InvalidatorAgrees
  <2>7. ASSUME NEW j \in Invalidators, invalidator[j] # None
        PROVE  invalidator[j].unwritten \subseteq Tags
    BY <2>7 DEF TypeOK, InvalidatorCall
  <2>8. ASSUME NEW j \in Invalidators, j # i, invalidator'[j] # None,
               NEW u \in invalidator[j].unwritten \ invalidator[j].unread
        PROVE  invalidator[j].versions[u] = version'[u]
    <3>1. u # t /\ u \in Tags /\ invalidator[j].versions[u] = version[u]
      BY <2>1, <2>6, <2>7, <2>8 DEF InvalidatorAgrees
    <3> QED  BY <2>3, <3>1 DEF TypeOK, Versions
  <2> QED  BY <2>1, <2>5, <2>8 DEF InvalidatorAgrees
<1>4. ASSUME NEW i \in Invalidators, InvalidateDone(i)
      PROVE  InvalidatorAgrees'
  BY <1>4 DEF InvalidateDone, InvalidatorAgrees, TypeOK
<1>5. ASSUME NEW k \in Keys, Forget(k), version' = version
      PROVE  InvalidatorAgrees'
  BY <1>5, ForgetOne DEF InvalidatorAgrees
<1>6. CASE UNCHANGED <<invalidator, version>>
  BY <1>6 DEF InvalidatorAgrees
<1>7. ASSUME NEW w \in Writers, WriteSnapshot(w)
      PROVE  InvalidatorAgrees'
  <2>1. writer[w].key \in Keys
    BY <1>7 DEF WriteSnapshot, TypeOK, WriterCall
  <2> QED  BY <1>5, <1>7, <2>1 DEF WriteSnapshot
<1> QED
  BY <1>1, <1>2, <1>3, <1>4, <1>5, <1>6, <1>7
  DEF Next, vars, SetKeyTags, ReadTagVersion, RemoveKeys, DropSnapshot,
      GetStaleKeys, ReadSnapshot, ReadCurrentVersion, ReturnStaleKeys,
      SetEnabled

\* No snapshot, and no call in flight, holds a version ahead of the counter.
LEMMA NotAheadStep ==
    ASSUME TypeOK, InvalidatorAgrees, NotAhead, [Next]_vars
    PROVE  NotAhead'
<1>1. \A u \in Tags : version[u] \in Nat /\ version'[u] \in Nat
                      /\ version'[u] >= version[u]
  BY VersionsNeverDrop
<1>2. \A k \in Keys : snapshot[k] # None =>
         /\ snapshot[k].tags \subseteq Tags
         /\ snapshot[k].versions \in [Tags -> Nat]
  BY DEF TypeOK, Snapshot, Versions
<1>3. \A w \in Writers : writer[w] # None =>
         /\ writer[w].tags \subseteq Tags
         /\ writer[w].versions \in [Tags -> Nat]
  BY DEF TypeOK, WriterCall, Versions
<1>4. ASSUME NEW w \in Writers, NEW k \in Keys, NEW tags \in SUBSET Tags,
             SetKeyTags(w, k, tags)
      PROVE  NotAhead'
  BY <1>4 DEF SetKeyTags, NotAhead, TypeOK
<1>5. ASSUME NEW w \in Writers, NEW t \in Tags, ReadTagVersion(w, t)
      PROVE  NotAhead'
  <2>1. /\ writer[w] # None /\ writer[w] \in WriterCall
        /\ UNCHANGED <<version, snapshot>>
        /\ \A v \in Writers : v # w => writer'[v] = writer[v]
    BY <1>5 DEF ReadTagVersion, TypeOK
  <2>2. /\ writer'[w].tags = writer[w].tags
        /\ writer'[w].unread = writer[w].unread \ {t}
        /\ writer'[w].versions = [writer[w].versions EXCEPT ![t] = version[t]]
    BY <1>5, <2>1 DEF ReadTagVersion, TypeOK, WriterCall
  <2>3. ASSUME NEW u \in writer'[w].tags \ writer'[w].unread
        PROVE  writer'[w].versions[u] <= version[u]
    <3>1. CASE u = t  BY <1>1, <1>3, <2>1, <2>2, <3>1
    <3>2. CASE u # t
      <4>1. u \in writer[w].tags \ writer[w].unread
        BY <2>2, <2>3, <3>2
      <4> QED  BY <1>3, <2>1, <2>2, <3>2, <4>1 DEF NotAhead
    <3> QED  BY <3>1, <3>2
  <2>4. ASSUME NEW v \in Writers, writer'[v] # None,
               NEW u \in writer'[v].tags \ writer'[v].unread
        PROVE  writer'[v].versions[u] <= version[u]
    <3>1. CASE v = w  BY <2>3, <2>4, <3>1
    <3>2. CASE v # w
      <4>1. writer'[v] = writer[v]
        BY <2>1, <3>2
      <4> QED  BY <2>4, <4>1 DEF NotAhead
    <3> QED  BY <3>1, <3>2
  <2> QED  BY <2>1, <2>4 DEF NotAhead
<1>6. ASSUME NEW w \in Writers, WriteSnapshot(w)
      PROVE  NotAhead'
  <2> DEFINE k == writer[w].key
  <2>1. /\ writer[w] # None /\ k \in Keys /\ writer[w].unread = {}
        /\ version' = version
        /\ snapshot' = [snapshot EXCEPT ![k] =
               [tags |-> writer[w].tags, versions |-> writer[w].versions]]
        /\ writer' = [writer EXCEPT ![w] = None]
    BY <1>6 DEF WriteSnapshot, TypeOK, WriterCall
  <2>2. \A u \in writer[w].tags : writer[w].versions[u] <= version[u]
    BY <2>1 DEF NotAhead
  <2> HIDE DEF k
  <2> QED  BY <2>1, <2>2 DEF NotAhead, TypeOK
<1>7. ASSUME NEW k \in Keys, RemoveKeys(k) \/ DropSnapshot(k)
      PROVE  NotAhead'
  BY <1>7 DEF RemoveKeys, DropSnapshot, NotAhead, TypeOK
<1>8. ASSUME NEW i \in Invalidators, NEW t \in Tags, WriteCounter(i, t)
      PROVE  NotAhead'
  <2>1. ASSUME NEW w \in Writers
        PROVE  /\ writer'[w] # None => writer[w] # None
               /\ writer[w] # None =>
                    /\ writer'[w].tags = writer[w].tags
                    /\ writer'[w].unread = writer[w].unread
                    /\ writer'[w].versions = writer[w].versions
    BY <1>8 DEF WriteCounter, NextVersion, TypeOK, WriterCall
  <2>2. snapshot' = snapshot
    BY <1>8 DEF WriteCounter, NextVersion
  <2>3. ASSUME NEW k \in Keys, snapshot[k] # None, NEW u \in snapshot[k].tags
        PROVE  snapshot[k].versions[u] <= version'[u]
    <3>1. snapshot[k].versions[u] <= version[u]
      BY <2>3 DEF NotAhead
    <3> QED  BY <1>1, <1>2, <2>3, <3>1
  <2>4. ASSUME NEW w \in Writers, writer'[w] # None,
               NEW u \in writer'[w].tags \ writer'[w].unread
        PROVE  writer'[w].versions[u] <= version'[u]
    <3>1. writer[w].versions[u] <= version[u] /\ u \in writer[w].tags
      BY <2>1, <2>4 DEF NotAhead
    <3> QED  BY <1>1, <1>3, <2>1, <2>4, <3>1
  <2> QED  BY <2>2, <2>3, <2>4 DEF NotAhead
<1>9. CASE UNCHANGED <<version, snapshot, writer>>
  BY <1>9 DEF NotAhead
<1> QED
  BY <1>4, <1>5, <1>6, <1>7, <1>8, <1>9
  DEF Next, vars, InvalidateTags, ReadCounter, InvalidateDone, GetStaleKeys,
      ReadSnapshot, ReadCurrentVersion, ReturnStaleKeys, SetEnabled

\* A key invalidated and not tagged since has a snapshot behind a counter.
LEMMA DirtyBehindStep ==
    ASSUME TypeOK, InvalidatorAgrees, NotAhead, DirtyBehind, [Next]_vars
    PROVE  DirtyBehind'
<1>1. \A u \in Tags : version[u] \in Nat /\ version'[u] \in Nat
                      /\ version'[u] >= version[u]
  BY VersionsNeverDrop
<1>2. \A k \in Keys : snapshot[k] # None =>
         /\ snapshot[k].tags \subseteq Tags
         /\ snapshot[k].versions \in [Tags -> Nat]
  BY DEF TypeOK, Snapshot, Versions
<1>3. ASSUME NEW w \in Writers, WriteSnapshot(w)
      PROVE  DirtyBehind'
  BY <1>3 DEF WriteSnapshot, DirtyBehind, TypeOK
<1>4. ASSUME NEW k \in Keys, RemoveKeys(k) \/ DropSnapshot(k)
      PROVE  DirtyBehind'
  BY <1>4 DEF RemoveKeys, DropSnapshot, DirtyBehind, TypeOK
<1>5. ASSUME NEW i \in Invalidators, NEW t \in Tags, WriteCounter(i, t)
      PROVE  DirtyBehind'
  <2>1. /\ snapshot' = snapshot
        /\ dirty' = dirty \cup {k \in invalidator[i].covers : Tagged(k, t)}
        /\ invalidator[i].covers \subseteq Keys
    BY <1>5 DEF WriteCounter, NextVersion, TypeOK, InvalidatorCall
  <2>2. version' = [version EXCEPT ![t] = version[t] + 1]
    BY <1>5, CounterStep
  <2>3. ASSUME NEW k \in Keys, Tagged(k, t)
        PROVE  snapshot[k] # None
               /\ \E u \in snapshot[k].tags :
                     snapshot[k].versions[u] < version'[u]
    <3>1. snapshot[k] # None /\ t \in snapshot[k].tags
      BY <2>3 DEF Tagged
    <3>2. snapshot[k].versions[t] <= version[t] /\ version[t] \in Nat
          /\ snapshot[k].versions[t] \in Nat
      BY <1>1, <1>2, <3>1 DEF NotAhead
    <3>3. version'[t] = version[t] + 1
      BY <2>2 DEF TypeOK, Versions
    <3> QED  BY <3>1, <3>2, <3>3
  <2>4. ASSUME NEW k \in dirty
        PROVE  snapshot[k] # None
               /\ \E u \in snapshot[k].tags :
                     snapshot[k].versions[u] < version'[u]
    <3>1. k \in Keys /\ snapshot[k] # None
      BY DEF TypeOK, DirtyBehind
    <3>2. PICK u \in snapshot[k].tags : snapshot[k].versions[u] < version[u]
      BY DEF DirtyBehind
    <3>3. u \in Tags /\ snapshot[k].versions[u] \in Nat
      BY <1>2, <3>1
    <3> QED  BY <1>1, <3>1, <3>2, <3>3
  <2> QED  BY <2>1, <2>3, <2>4 DEF DirtyBehind
<1>6. CASE UNCHANGED <<version, snapshot, dirty>>
  BY <1>6 DEF DirtyBehind
<1> QED
  BY <1>3, <1>4, <1>5, <1>6
  DEF Next, vars, SetKeyTags, ReadTagVersion, InvalidateTags, ReadCounter,
      InvalidateDone, GetStaleKeys, ReadSnapshot, ReadCurrentVersion,
      ReturnStaleKeys, SetEnabled

\* A check in flight remembers what it owes to an invalidation before it.
LEMMA CheckerBehindStep ==
    ASSUME TypeOK, InvalidatorAgrees, NotAhead, DirtyBehind, CheckerBehind,
           [Next]_vars
    PROVE  CheckerBehind'
<1>1. \A u \in Tags : version[u] \in Nat /\ version'[u] \in Nat
                      /\ version'[u] >= version[u]
  BY VersionsNeverDrop
<1>2. \A k \in Keys : snapshot[k] # None =>
         /\ snapshot[k].tags \subseteq Tags
         /\ snapshot[k].versions \in [Tags -> Nat]
  BY DEF TypeOK, Snapshot, Versions
<1>3. ASSUME NEW c \in Checkers, checker[c] # None
      PROVE  /\ checker[c].must \subseteq Keys
             /\ checker[c].snapshots \in [Keys -> Snapshot \cup {None}]
             /\ checker[c].versions \in [Tags -> Nat]
  BY <1>3 DEF TypeOK, CheckerCall, Versions
<1>4. ASSUME NEW k \in Keys, Forget(k), version' = version,
             \A x \in Keys \ {k} : snapshot'[x] = snapshot[x]
      PROVE  CheckerBehind'
  <2>1. ASSUME NEW c \in Checkers, checker'[c] # None
        PROVE  /\ checker[c] # None
               /\ checker'[c].must = checker[c].must \ {k}
               /\ checker'[c].keys = checker[c].keys
               /\ checker'[c].unread = checker[c].unread
               /\ checker'[c].snapshots = checker[c].snapshots
               /\ checker'[c].unreadTags = checker[c].unreadTags
               /\ checker'[c].versions = checker[c].versions
    BY <1>4, <2>1, ForgetOne
  <2>2. ASSUME NEW c \in Checkers, checker'[c] # None,
               NEW x \in checker'[c].must
        PROVE  Behind(c, x)'
    <3>1. /\ x \in checker[c].must /\ Behind(c, x)
          /\ snapshot'[x] = snapshot[x]
      BY <1>3, <1>4, <2>1, <2>2 DEF CheckerBehind
    <3> QED  BY <1>4, <2>1, <2>2, <3>1 DEF Behind
  <2> QED  BY <2>1, <2>2 DEF CheckerBehind
<1>5. ASSUME NEW w \in Writers, WriteSnapshot(w)
      PROVE  CheckerBehind'
  <2>1. writer[w].key \in Keys
    BY <1>5 DEF WriteSnapshot, TypeOK, WriterCall
  <2> QED  BY <1>4, <1>5, <2>1 DEF WriteSnapshot, TypeOK
<1>6. ASSUME NEW k \in Keys, RemoveKeys(k) \/ DropSnapshot(k)
      PROVE  CheckerBehind'
  BY <1>4, <1>6 DEF RemoveKeys, DropSnapshot, TypeOK
<1>7. ASSUME NEW i \in Invalidators, NEW t \in Tags, WriteCounter(i, t)
      PROVE  CheckerBehind'
  <2>1. ASSUME NEW c \in Checkers, checker'[c] # None
        PROVE  /\ checker[c] # None
               /\ checker'[c].must = checker[c].must
               /\ checker'[c].keys = checker[c].keys
               /\ checker'[c].unread = checker[c].unread
               /\ checker'[c].snapshots = checker[c].snapshots
               /\ checker'[c].unreadTags = checker[c].unreadTags
               /\ checker'[c].versions = checker[c].versions
    BY <1>7, <2>1 DEF WriteCounter, NextVersion, TypeOK, CheckerCall
  <2>2. snapshot' = snapshot
    BY <1>7 DEF WriteCounter, NextVersion
  <2>3. ASSUME NEW c \in Checkers, checker'[c] # None,
               NEW x \in checker'[c].must
        PROVE  Behind(c, x)'
    <3>1. x \in Keys /\ Behind(c, x)
      BY <1>3, <2>1, <2>3 DEF CheckerBehind
    <3>2. PICK u \in snapshot[x].tags :
              /\ snapshot[x].versions[u] < version[u]
              /\ x \notin checker[c].unread /\ u \notin checker[c].unreadTags
                 => snapshot[x].versions[u] < checker[c].versions[u]
      BY <3>1 DEF Behind
    <3>3. u \in Tags /\ snapshot[x].versions[u] \in Nat
      BY <1>2, <3>1 DEF Behind
    <3>4. snapshot[x].versions[u] < version'[u]
      BY <1>1, <3>2, <3>3
    <3> QED  BY <2>1, <2>2, <2>3, <3>1, <3>2, <3>4 DEF Behind
  <2> QED  BY <2>1, <2>3 DEF CheckerBehind
<1>8. ASSUME NEW c \in Checkers, NEW keys \in SUBSET Keys,
             GetStaleKeys(c, keys)
      PROVE  CheckerBehind'
  <2>1. /\ UNCHANGED <<version, snapshot>>
        /\ \A d \in Checkers : d # c => checker'[d] = checker[d]
        /\ checker'[c].must = keys \cap dirty /\ checker'[c].keys = keys
        /\ checker'[c].unread = keys
    BY <1>8 DEF GetStaleKeys, TypeOK
  <2>2. ASSUME NEW x \in checker'[c].must PROVE Behind(c, x)'
    BY <2>1, <2>2 DEF Behind, DirtyBehind
  <2>3. ASSUME NEW d \in Checkers, d # c, checker'[d] # None,
               NEW x \in checker'[d].must
        PROVE  Behind(d, x)'
    BY <2>1, <2>3 DEF Behind, CheckerBehind
  <2> QED  BY <2>1, <2>2, <2>3 DEF CheckerBehind
<1>9. ASSUME NEW c \in Checkers, NEW k \in Keys, ReadSnapshot(c, k)
      PROVE  CheckerBehind'
  <2>1. /\ UNCHANGED <<version, snapshot>>
        /\ checker[c] # None /\ checker[c] \in CheckerCall
        /\ \A d \in Checkers : d # c => checker'[d] = checker[d]
    BY <1>9 DEF ReadSnapshot, TypeOK
  <2>2. /\ checker'[c].must = checker[c].must
        /\ checker'[c].keys = checker[c].keys
        /\ checker'[c].unread = checker[c].unread \ {k}
        /\ checker'[c].snapshots =
             [checker[c].snapshots EXCEPT ![k] = snapshot[k]]
        /\ checker'[c].versions = checker[c].versions
        /\ checker'[c].unreadTags =
             IF snapshot[k] = None THEN checker[c].unreadTags
             ELSE checker[c].unreadTags \cup snapshot[k].tags
    BY <1>9, <2>1 DEF ReadSnapshot, TypeOK, CheckerCall
  <2>3. ASSUME NEW x \in checker'[c].must PROVE Behind(c, x)'
    <3>1. x \in Keys /\ Behind(c, x)
      BY <1>3, <2>1, <2>2, <2>3 DEF CheckerBehind
    <3>2. PICK u \in snapshot[x].tags :
              /\ snapshot[x].versions[u] < version[u]
              /\ x \notin checker[c].unread /\ u \notin checker[c].unreadTags
                 => snapshot[x].versions[u] < checker[c].versions[u]
      BY <3>1 DEF Behind
    <3>3. CASE x = k
      <4>1. /\ snapshot[x] # None
            /\ checker'[c].snapshots[x] = snapshot[x]
            /\ u \in checker'[c].unreadTags
        BY <1>3, <2>1, <2>2, <3>1, <3>2, <3>3 DEF Behind
      <4> QED  BY <2>1, <3>2, <4>1 DEF Behind
    <3>4. CASE x # k
      <4>1. /\ snapshot[x] # None
            /\ checker'[c].snapshots[x] = checker[c].snapshots[x]
            /\ x \in checker'[c].unread <=> x \in checker[c].unread
            /\ u \in checker[c].unreadTags => u \in checker'[c].unreadTags
        BY <1>3, <2>1, <2>2, <3>1, <3>4 DEF Behind
      <4> QED  BY <2>1, <2>2, <3>1, <3>2, <4>1 DEF Behind
    <3> QED  BY <3>3, <3>4
  <2>4. ASSUME NEW d \in Checkers, d # c, checker'[d] # None,
               NEW x \in checker'[d].must
        PROVE  Behind(d, x)'
    BY <2>1, <2>4 DEF Behind, CheckerBehind
  <2> QED  BY <2>1, <2>2, <2>3, <2>4 DEF CheckerBehind
<1>10. ASSUME NEW c \in Checkers, NEW t \in Tags, ReadCurrentVersion(c, t)
       PROVE  CheckerBehind'
  <2>1. /\ UNCHANGED <<version, snapshot>>
        /\ checker[c] # None /\ checker[c] \in CheckerCall
        /\ \A d \in Checkers : d # c => checker'[d] = checker[d]
    BY <1>10 DEF ReadCurrentVersion, TypeOK
  <2>2. /\ checker'[c].must = checker[c].must
        /\ checker'[c].keys = checker[c].keys
        /\ checker'[c].unread = checker[c].unread
        /\ checker'[c].snapshots = checker[c].snapshots
        /\ checker'[c].versions =
             [checker[c].versions EXCEPT ![t] = version[t]]
        /\ checker'[c].unreadTags = checker[c].unreadTags \ {t}
    BY <1>10, <2>1 DEF ReadCurrentVersion, TypeOK, CheckerCall
  <2>3. ASSUME NEW x \in checker'[c].must PROVE Behind(c, x)'
    <3>1. x \in Keys /\ Behind(c, x)
      BY <1>3, <2>1, <2>2, <2>3 DEF CheckerBehind
    <3>2. PICK u \in snapshot[x].tags :
              /\ snapshot[x].versions[u] < version[u]
              /\ x \notin checker[c].unread /\ u \notin checker[c].unreadTags
                 => snapshot[x].versions[u] < checker[c].versions[u]
      BY <3>1 DEF Behind
    <3>3. x \notin checker'[c].unread /\ u \notin checker'[c].unreadTags
          => snapshot[x].versions[u] < checker'[c].versions[u]
      <4>1. CASE u = t  BY <1>3, <2>1, <2>2, <3>2, <4>1
      <4>2. CASE u # t
        <5>1. checker'[c].versions[u] = checker[c].versions[u]
          BY <1>3, <2>1, <2>2, <4>2
        <5> QED  BY <2>2, <3>2, <4>2, <5>1
      <4> QED  BY <4>1, <4>2
    <3> QED  BY <2>1, <2>2, <3>1, <3>2, <3>3 DEF Behind
  <2>4. ASSUME NEW d \in Checkers, d # c, checker'[d] # None,
               NEW x \in checker'[d].must
        PROVE  Behind(d, x)'
    BY <2>1, <2>4 DEF Behind, CheckerBehind
  <2> QED  BY <2>1, <2>2, <2>3, <2>4 DEF CheckerBehind
<1>11. ASSUME NEW c \in Checkers, ReturnStaleKeys(c)
       PROVE  CheckerBehind'
  BY <1>11 DEF ReturnStaleKeys, CheckerBehind, Behind, TypeOK
<1>12. CASE UNCHANGED <<version, snapshot, checker>>
  BY <1>12 DEF CheckerBehind, Behind
<1> QED
  BY <1>5, <1>6, <1>7, <1>8, <1>9, <1>10, <1>11, <1>12
  DEF Next, vars, SetKeyTags, ReadTagVersion, InvalidateTags, ReadCounter,
      InvalidateDone, SetEnabled

\* One invalidator per tag: the strengthened invariant is inductive.
THEOREM BehindHolds == ASSUME SingleInvalidator PROVE Spec => []BehindInv
<1>1. Init => BehindInv
  BY DEF Init, BehindInv, InvalidatorAgrees, NotAhead, DirtyBehind,
         CheckerBehind
<1>2. TypeOK /\ BehindInv /\ [Next]_vars => BehindInv'
  BY InvalidatorAgreesStep, NotAheadStep, DirtyBehindStep, CheckerBehindStep
  DEF BehindInv
<1> QED  BY <1>1, <1>2, Typing, PTL DEF Spec

\* One invalidator per tag: no version counter ever goes back.
THEOREM CountersMonotonic == ASSUME SingleInvalidator PROVE Spec => CountersIncrease
<1>1. TypeOK /\ BehindInv /\ [Next]_vars
      => [\A t \in Tags : version'[t] >= version[t]]_version
  BY VersionsNeverDrop DEF BehindInv
<1> QED  BY <1>1, BehindHolds, Typing, PTL DEF Spec, CountersIncrease

\* One invalidator per tag: an invalidated key stays stale until it is
\* tagged again, whatever writers and checkers do meanwhile.
THEOREM InvalidationLasts ==
    ASSUME SingleInvalidator PROVE Spec => []InvalidationSticks
<1>1. TypeOK /\ BehindInv => InvalidationSticks
  <2> SUFFICES ASSUME TypeOK, BehindInv, NEW k \in dirty PROVE IsStale(k)
    BY DEF InvalidationSticks
  <2>1. k \in Keys /\ snapshot[k] # None
    BY DEF TypeOK, BehindInv, DirtyBehind
  <2>2. PICK t \in snapshot[k].tags : snapshot[k].versions[t] < version[t]
    BY DEF BehindInv, DirtyBehind
  <2>3. snapshot[k].versions[t] \in Nat /\ version[t] \in Nat
    BY <2>1 DEF TypeOK, Snapshot, Versions
  <2> QED  BY <2>1, <2>2, <2>3 DEF IsStale, Differs
<1> QED  BY <1>1, BehindHolds, Typing, PTL

\* One invalidator per tag: getStaleKeys reports every key that was
\* invalidated before it began and not tagged again meanwhile.
THEOREM FindsInvalidated ==
    ASSUME SingleInvalidator PROVE Spec => []CheckFindsInvalidated
<1>1. TypeOK /\ BehindInv => CheckFindsInvalidated
  <2> SUFFICES ASSUME TypeOK, BehindInv, NEW c \in Checkers, Decided(c),
                      NEW k \in checker[c].must
               PROVE  k \in staleKeys(c)
    BY DEF CheckFindsInvalidated
  <2>1. /\ checker[c] # None /\ checker[c].unread = {}
        /\ checker[c].unreadTags = {} /\ checker[c] \in CheckerCall
    BY DEF Decided, TypeOK
  <2>2. k \in checker[c].keys /\ Behind(c, k) /\ k \in Keys
    BY <2>1 DEF BehindInv, CheckerBehind, CheckerCall
  <2>3. /\ snapshot[k] # None /\ checker[c].snapshots[k] = snapshot[k]
        /\ \E t \in snapshot[k].tags :
              snapshot[k].versions[t] < checker[c].versions[t]
    BY <2>1, <2>2 DEF Behind
  <2>4. PICK t \in snapshot[k].tags :
            snapshot[k].versions[t] < checker[c].versions[t]
    BY <2>3
  <2>5. snapshot[k].versions[t] \in Nat /\ checker[c].versions[t] \in Nat
    BY <2>1, <2>2, <2>3 DEF TypeOK, Snapshot, Versions, CheckerCall
  <2> QED  BY <2>2, <2>3, <2>4, <2>5 DEF staleKeys, Differs
<1> QED  BY <1>1, BehindHolds, Typing, PTL

\* One invalidator per tag: getStaleKeys errs in neither direction.
THEOREM CheckErrsNowhere ==
    ASSUME SingleInvalidator PROVE Spec => []CheckRight
BY FindsInvalidated, SparesUntouched, PTL DEF CheckRight

-----------------------------------------------------------------------------
(* Sums over finite sets                                                   *)

\* Induction over the natural numbers, for the elements of a set.
LEMMA Induction ==
    ASSUME NEW N, 0 \in N, \A n \in Nat : n \in N => n + 1 \in N
    PROVE  Nat \subseteq N
<1> DEFINE Others == Nat \ N
<1> SUFFICES ASSUME Others # {} PROVE FALSE
  OBVIOUS
<1>1. PICK m \in Others : \A n \in Others : <<n, m>> \notin OpToRel(<, Nat)
  BY WFMin, NatLessThanWellFounded, Zenon
<1>2. \A n \in Others : ~(n < m)
  BY <1>1, Zenon DEF OpToRel
<1>3. m # 0 /\ m - 1 \in Nat /\ m - 1 < m
  OBVIOUS
<1>4. m - 1 \in N
  BY <1>2, <1>3
<1>5. (m - 1) + 1 \in N
  BY <1>3, <1>4
<1> QED  BY <1>5

\* Which element a sum takes first, and what a function has to do to give the
\* sum of f over each subset of S.
First(s) == CHOOSE x \in s : TRUE

Sums(f, S, g) ==
    \A s \in SUBSET S : g[s] = IF s = {} THEN 0 ELSE f[First(s)] + g[s \ {First(s)}]

\* Without its first element a finite set is one smaller.
LEMMA FirstOut ==
    ASSUME NEW s, IsFiniteSet(s), NEW x \in s
    PROVE  /\ First(s) \in s
           /\ IsFiniteSet(s \ {x}) /\ Cardinality(s \ {x}) = Cardinality(s) - 1
           /\ Cardinality(s) \in Nat \ {0}
<1>1. First(s) \in s
  BY DEF First
<1>2. IsFiniteSet(s \ {x}) /\ Cardinality(s \ {x}) = Cardinality(s) - 1
  BY FS_RemoveElement
<1>3. Cardinality(s) \in Nat /\ Cardinality(s \ {x}) \in Nat
  BY <1>2, FS_CardinalityType
<1> QED  BY <1>1, <1>2, <1>3

\* There is a function that gives the sums.
LEMMA SumsExist ==
    ASSUME NEW S, IsFiniteSet(S), NEW f, \A x \in S : f[x] \in Nat
    PROVE  \E g \in [SUBSET S -> Nat] : Sums(f, S, g)
<1> DEFINE Upto(n, g) ==
        \A s \in SUBSET S : Cardinality(s) <= n =>
            g[s] = IF s = {} THEN 0 ELSE f[First(s)] + g[s \ {First(s)}]
<1> DEFINE N == {n \in Nat : \E g \in [SUBSET S -> Nat] : Upto(n, g)}
<1>1. \A s \in SUBSET S : IsFiniteSet(s) /\ Cardinality(s) \in Nat /\ Cardinality(s) <= Cardinality(S)
  BY FS_Subset, FS_CardinalityType
<1>2. 0 \in N
  <2> DEFINE g == [s \in SUBSET S |-> 0]
  <2>1. \A s \in SUBSET S : Cardinality(s) <= 0 => s = {}
    BY <1>1, FS_EmptySet
  <2>2. Upto(0, g) /\ g \in [SUBSET S -> Nat]
    BY <2>1
  <2> QED  BY <2>2
<1>3. ASSUME NEW n \in Nat, n \in N PROVE n + 1 \in N
  <2>1. PICK g \in [SUBSET S -> Nat] : Upto(n, g)
    BY <1>3
  <2> DEFINE h == [s \in SUBSET S |-> IF Cardinality(s) = n + 1
                                      THEN f[First(s)] + g[s \ {First(s)}] ELSE g[s]]
  <2>2. ASSUME NEW s \in SUBSET S, s # {}
        PROVE  /\ First(s) \in s /\ s \ {First(s)} \in SUBSET S
               /\ Cardinality(s \ {First(s)}) = Cardinality(s) - 1
               /\ Cardinality(s) \in Nat
    <3>1. First(s) \in s
      BY <2>2 DEF First
    <3> QED  BY <3>1, <1>1, FirstOut
  <2>3. Cardinality({}) = 0
    BY FS_EmptySet
  <2>4. h \in [SUBSET S -> Nat]
    <3> SUFFICES ASSUME NEW s \in SUBSET S, Cardinality(s) = n + 1
                 PROVE  f[First(s)] + g[s \ {First(s)}] \in Nat
      OBVIOUS
    <3>1. s # {}
      BY <2>3
    <3> QED  BY <2>1, <2>2, <3>1
  <2>5. ASSUME NEW s \in SUBSET S, Cardinality(s) <= n + 1
        PROVE  h[s] = IF s = {} THEN 0 ELSE f[First(s)] + h[s \ {First(s)}]
    <3>1. CASE s = {}
      BY <2>1, <2>3, <3>1
    <3>2. CASE s # {}
      <4>1. h[s \ {First(s)}] = g[s \ {First(s)}]
        BY <2>2, <2>5, <3>2
      <4>2. CASE Cardinality(s) = n + 1
        BY <3>2, <4>1, <4>2
      <4>3. CASE Cardinality(s) # n + 1
        <5>1. Cardinality(s) <= n
          BY <1>1, <2>5, <4>3
        <5> QED  BY <2>1, <3>2, <4>1, <4>3, <5>1
      <4> QED  BY <4>2, <4>3
    <3> QED  BY <3>1, <3>2
  <2> HIDE DEF h
  <2>6. Upto(n + 1, h)
    BY <2>5
  <2> QED  BY <2>4, <2>6
<1> HIDE DEF N
<1>4. Nat \subseteq N
  BY <1>2, <1>3, Induction
<1>5. PICK g \in [SUBSET S -> Nat] : Upto(Cardinality(S), g)
  BY <1>1, <1>4 DEF N
<1> QED  BY <1>1, <1>5 DEF Sums

\* All functions that give the sums agree, and depend only on what is summed.
LEMMA SumsUnique ==
    ASSUME NEW S, IsFiniteSet(S), NEW f, NEW g, \A x \in S : f[x] = g[x],
           NEW F, NEW G, Sums(f, S, F), Sums(g, S, G)
    PROVE  \A s \in SUBSET S : F[s] = G[s]
<1> DEFINE N == {n \in Nat : \A s \in SUBSET S : Cardinality(s) = n => F[s] = G[s]}
<1>1. \A s \in SUBSET S : IsFiniteSet(s) /\ Cardinality(s) \in Nat
  BY FS_Subset, FS_CardinalityType
<1>2. 0 \in N
  <2>1. \A s \in SUBSET S : Cardinality(s) = 0 => s = {}
    BY <1>1, FS_EmptySet
  <2> QED  BY <2>1 DEF Sums
<1>3. ASSUME NEW n \in Nat, n \in N PROVE n + 1 \in N
  <2> SUFFICES ASSUME NEW s \in SUBSET S, Cardinality(s) = n + 1 PROVE F[s] = G[s]
    OBVIOUS
  <2>1. s # {}
    BY FS_EmptySet
  <2>2. First(s) \in s
    BY <2>1 DEF First
  <2>3. Cardinality(s \ {First(s)}) = n
    BY <1>1, <2>2, FirstOut
  <2>4. F[s \ {First(s)}] = G[s \ {First(s)}]
    BY <1>3, <2>3
  <2> QED  BY <2>1, <2>2, <2>4 DEF Sums
<1> HIDE DEF N
<1>4. Nat \subseteq N
  BY <1>2, <1>3, Induction
<1> QED  BY <1>1, <1>4 DEF N

AnyOrder(f, S, g) ==
    \A s \in SUBSET S : \A x \in s : g[s] = f[x] + g[s \ {x}]

\* What is summed first does not matter.
LEMMA SumsAnyOrder ==
    ASSUME NEW S, IsFiniteSet(S), NEW f, \A x \in S : f[x] \in Nat,
           NEW F \in [SUBSET S -> Nat], Sums(f, S, F)
    PROVE  AnyOrder(f, S, F)
<1> DEFINE N == {n \in Nat : \A s \in SUBSET S : Cardinality(s) = n =>
                                \A x \in s : F[s] = f[x] + F[s \ {x}]}
<1>1. \A s \in SUBSET S : IsFiniteSet(s) /\ Cardinality(s) \in Nat
  BY FS_Subset, FS_CardinalityType
<1>2. 0 \in N
  <2>1. \A s \in SUBSET S : Cardinality(s) = 0 => s = {}
    BY <1>1, FS_EmptySet
  <2> QED  BY <2>1
<1>3. ASSUME NEW n \in Nat, n \in N PROVE n + 1 \in N
  <2> SUFFICES ASSUME NEW s \in SUBSET S, Cardinality(s) = n + 1, NEW x \in s
               PROVE  F[s] = f[x] + F[s \ {x}]
    OBVIOUS
  <2> DEFINE p == First(s)
  <2>1. p \in s
    BY DEF First
  <2>2. F[s] = f[p] + F[s \ {p}]
    BY <2>1 DEF Sums
  <2> HIDE DEF p
  <2>3. CASE x = p
    BY <2>2, <2>3
  <2>4. CASE x # p
    <3>1. Cardinality(s \ {p}) = n /\ Cardinality(s \ {x}) = n
      BY <1>1, <2>1, FirstOut
    <3>2. F[s \ {p}] = f[x] + F[(s \ {p}) \ {x}]
      BY <1>3, <2>4, <3>1
    <3>3. F[s \ {x}] = f[p] + F[(s \ {x}) \ {p}]
      BY <1>3, <2>1, <2>4, <3>1
    <3>4. (s \ {x}) \ {p} = (s \ {p}) \ {x}
      OBVIOUS
    <3>5. f[p] \in Nat /\ f[x] \in Nat /\ F[(s \ {p}) \ {x}] \in Nat
      BY <2>1
    <3>6. F[s \ {x}] = f[p] + F[(s \ {p}) \ {x}]
      BY <3>3, <3>4
    <3> QED  BY <2>2, <3>2, <3>5, <3>6
  <2> QED  BY <2>3, <2>4
<1> HIDE DEF N
<1>4. Nat \subseteq N
  BY <1>2, <1>3, Induction
<1> QED  BY <1>1, <1>4 DEF N, AnyOrder

\* SumFunctionOnSet gives the sum.
LEMMA SumIs ==
    ASSUME NEW S, IsFiniteSet(S), NEW f, \A x \in S : f[x] \in Nat,
           NEW F, Sums(f, S, F)
    PROVE  SumFunctionOnSet(f, S) = F[S]
<1> DEFINE Iter(g) == g = [s \in SUBSET S |-> IF s = {} THEN 0
                             ELSE f[CHOOSE x \in s : TRUE] + g[s \ {CHOOSE x \in s : TRUE}]]
<1>1. PICK g \in [SUBSET S -> Nat] : Sums(f, S, g)
  BY SumsExist
<1>2. Iter(g)
  BY <1>1 DEF Sums, First
<1> DEFINE iter == CHOOSE h : Iter(h)
<1>3. Iter(iter)
  BY <1>2
<1>4. SumFunctionOnSet(f, S) = iter[S]
  BY DEF SumFunctionOnSet, FoldFunctionOnSet, MapThenFoldSet
<1> HIDE DEF iter
<1>5. Sums(f, S, iter)
  BY <1>3 DEF Sums, First
<1> QED  BY <1>4, <1>5, SumsUnique

\* The sum over nothing, the type of a sum, and a sum without one of its terms.
LEMMA SumEmpty == ASSUME NEW f PROVE SumFunctionOnSet(f, {}) = 0
BY DEF SumFunctionOnSet, FoldFunctionOnSet, MapThenFoldSet

LEMMA SumType ==
    ASSUME NEW S, IsFiniteSet(S), NEW f, \A x \in S : f[x] \in Nat
    PROVE  SumFunctionOnSet(f, S) \in Nat
<1>1. PICK F \in [SUBSET S -> Nat] : Sums(f, S, F)
  BY SumsExist
<1> QED  BY <1>1, SumIs

LEMMA SumWithout ==
    ASSUME NEW S, IsFiniteSet(S), NEW f, \A x \in S : f[x] \in Nat, NEW y \in S
    PROVE  SumFunctionOnSet(f, S) = f[y] + SumFunctionOnSet(f, S \ {y})
<1>1. PICK F \in [SUBSET S -> Nat] : Sums(f, S, F)
  BY SumsExist
<1>2. AnyOrder(f, S, F)
  BY <1>1, SumsAnyOrder
<1>3. F[S] = f[y] + F[S \ {y}]
  BY <1>2 DEF AnyOrder
<1>4. IsFiniteSet(S \ {y}) /\ Sums(f, S \ {y}, F)
  BY <1>1, FS_Subset DEF Sums
<1>5. SumFunctionOnSet(f, S) = F[S]
  BY <1>1, SumIs
<1>6. SumFunctionOnSet(f, S \ {y}) = F[S \ {y}]
  BY <1>4, SumIs
<1> QED  BY <1>3, <1>5, <1>6

\* A sum depends only on its terms.
LEMMA SumSame ==
    ASSUME NEW S, IsFiniteSet(S), NEW f, NEW g, \A x \in S : f[x] \in Nat /\ f[x] = g[x]
    PROVE  SumFunctionOnSet(f, S) = SumFunctionOnSet(g, S)
<1>1. PICK F \in [SUBSET S -> Nat] : Sums(f, S, F)
  BY SumsExist
<1>2. PICK G \in [SUBSET S -> Nat] : Sums(g, S, G)
  BY SumsExist
<1>3. F[S] = G[S]
  BY <1>1, <1>2, SumsUnique
<1> QED  BY <1>1, <1>2, <1>3, SumIs

-----------------------------------------------------------------------------
(* The invariants of NodeCache                                             *)

Counting == {"countSet", "countDel"}

\* Frames that are sure to have a key, and a value.
Proper(f) ==
    /\ f.do \in {"countSet", "countDel", "announce"} =>
          f.key \in CacheKeys /\ f.value \in 1 .. MaxSets
    /\ f.do = "del" => f.key \in CacheKeys

TypeInv ==
    /\ CacheTypeOK
    /\ \A i \in DOMAIN stack : Proper(stack[i])
    /\ IsFiniteSet(Stored)
    /\ timers.known => timers.live > 0
    /\ stats.enabled /\ bounds \in Bounds

\* Announcements.
Announcing(v) == {i \in DOMAIN stack : stack[i].do = "announce" /\ stack[i].value = v}

ExpiryInv ==
    options.deleteOnExpire =>
        /\ \A j, k \in Stored : store[j].value = store[k].value => j = k
        /\ \A k \in Stored : store[k].value <= sets
        /\ \A v \in 1 .. MaxSets :
              /\ \A i, j \in Announcing(v) : i = j
              /\ told[v] <= 1
              /\ Announcing(v) # {} => told[v] = 0
              /\ Announcing(v) # {} \/ told[v] # 0 =>
                    v <= sets /\ \A k \in Stored : store[k].value # v

\* What the sizes will be when all the operations of a stack have counted: the
\* entries whose set has counted, and what is still to be taken off.
StoredIn(st) == {k \in CacheKeys : st[k] # undefined}
UncountedKeys(fs) == {fs[i].key : i \in Pending(fs, {"countSet"})}
Counted(st, fs) == StoredIn(st) \ UncountedKeys(fs)

KeyWeight(f) ==
    IF f.do = "countDel" \/ (f.do = "countSet" /\ f.old # undefined) THEN KeySize[f.key] ELSE 0

ValueWeight(f) ==
    CASE f.do = "countDel" -> ValueSize[f.value]
      [] f.do = "countSet" /\ f.old # undefined -> ValueSize[f.old]
      [] OTHER -> 0

KeysOwed(fs) ==
    SumFunctionOnSet([i \in Pending(fs, Counting) |-> KeyWeight(fs[i])], Pending(fs, Counting))

ValuesOwed(fs) ==
    SumFunctionOnSet([i \in Pending(fs, Counting) |-> ValueWeight(fs[i])], Pending(fs, Counting))

ValueSizes(st) == [k \in StoredIn(st) |-> ValueSize[st[k].value]]

KeysDue(st, fs) == SumFunctionOnSet(KeySize, Counted(st, fs)) + KeysOwed(fs)
ValuesDue(st, fs) == SumFunctionOnSet(ValueSizes(st), Counted(st, fs)) + ValuesOwed(fs)

\* The sets under way are of different keys, each of which still has the value.
Fitting(st, fs) ==
    /\ \A i \in Pending(fs, {"countSet"}) :
          fs[i].key \in StoredIn(st) /\ st[fs[i].key].value = fs[i].value
    /\ \A i, j \in Pending(fs, {"countSet"}) : fs[i].key = fs[j].key => i = j

SizesInv ==
    /\ sizes # "unknown" => Fitting(store, stack)
    /\ sizes = "exact" =>
          /\ stats.ksize = KeysDue(store, stack) /\ stats.vsize = ValuesDue(store, stack)
          /\ Pending(stack, Counting) = {} => stats.count = Cardinality(Stored)
    /\ sizes = "atMost" =>
          stats.ksize <= KeysDue(store, stack) /\ stats.vsize <= ValuesDue(store, stack)

(* Types of statistics                                                     *)

Totals == {"sets", "deletes", "clears", "ksize", "vsize"}

LEMMA IncrementType ==
    ASSUME NEW keys, NEW s \in AllStats(keys), NEW field \in Totals, NEW n \in Nat
    PROVE  increment(s, field, n) \in AllStats(keys) /\ decrease(s, field, n) \in AllStats(keys)
<1>1. increment(s, "sets", n) \in AllStats(keys) /\ decrease(s, "sets", n) \in AllStats(keys)
  BY DEF AllStats, increment, decrease
<1>2. increment(s, "deletes", n) \in AllStats(keys) /\ decrease(s, "deletes", n) \in AllStats(keys)
  BY DEF AllStats, increment, decrease
<1>3. increment(s, "clears", n) \in AllStats(keys) /\ decrease(s, "clears", n) \in AllStats(keys)
  BY DEF AllStats, increment, decrease
<1>4. increment(s, "ksize", n) \in AllStats(keys) /\ decrease(s, "ksize", n) \in AllStats(keys)
  BY DEF AllStats, increment, decrease
<1>5. increment(s, "vsize", n) \in AllStats(keys) /\ decrease(s, "vsize", n) \in AllStats(keys)
  BY DEF AllStats, increment, decrease
<1> QED  BY <1>1, <1>2, <1>3, <1>4, <1>5 DEF Totals

\* What is left of the entries of some keys, step by step.
LEMMA KeptEntries ==
    ASSUME NEW S, NEW entries \in Seq(S), NEW keys
    PROVE  \E g \in [0 .. Len(entries) -> Seq(S)] :
               /\ g[0] = <<>>
               /\ \A n \in 1 .. Len(entries) :
                     g[n] = IF entries[n].key \in keys THEN g[n - 1]
                            ELSE Append(g[n - 1], entries[n])
               /\ EntriesWithout(entries, keys) = g[Len(entries)]
<1> DEFINE Dom == 0 .. Len(entries)
           Next1(g, n) == IF n = 0 THEN <<>>
                          ELSE IF entries[n].key \in keys THEN g[n - 1]
                          ELSE Append(g[n - 1], entries[n])
           Upto(m, g) == \A n \in Dom : n <= m => g[n] = Next1(g, n)
           N == {m \in Nat : \E g \in [Dom -> Seq(S)] : Upto(m, g)}
<1>1. 0 \in N
  <2> DEFINE g == [n \in Dom |-> <<>>]
  <2>1. g \in [Dom -> Seq(S)]
    OBVIOUS
  <2>2. Upto(0, g)
    OBVIOUS
  <2> QED  BY <2>1, <2>2
<1>2. ASSUME NEW m \in Nat, m \in N PROVE m + 1 \in N
  <2>1. PICK g \in [Dom -> Seq(S)] : Upto(m, g)
    BY <1>2
  <2> DEFINE h == [n \in Dom |-> IF n = m + 1 THEN Next1(g, n) ELSE g[n]]
  <2>2. ASSUME NEW n \in Dom, n = m + 1 PROVE Next1(g, n) \in Seq(S)
    <3>1. n > 0 /\ n - 1 \in Dom /\ entries[n] \in S
      BY <2>2
    <3>2. g[n - 1] \in Seq(S)
      BY <3>1
    <3> QED  BY <3>1, <3>2
  <2>3. h \in [Dom -> Seq(S)]
    <3> HIDE DEF Next1
    <3> QED  BY <2>2
  <2>4. ASSUME NEW n \in Dom, n <= m + 1 PROVE h[n] = Next1(h, n)
    <3>1. CASE n = m + 1
      <4>1. n - 1 \in Dom /\ n - 1 # m + 1 /\ n > 0
        BY <3>1
      <4>2. h[n - 1] = g[n - 1]
        BY <4>1
      <4>3. h[n] = Next1(g, n)
        BY <3>1
      <4> QED  BY <4>1, <4>2, <4>3
    <3>2. CASE n # m + 1
      <4>1. n <= m /\ h[n] = g[n]
        BY <2>4, <3>2
      <4>2. g[n] = Next1(g, n)
        BY <2>1, <4>1
      <4>3. n # 0 => h[n - 1] = g[n - 1]
        BY <4>1
      <4> HIDE DEF h
      <4> QED  BY <4>1, <4>2, <4>3
    <3> QED  BY <3>1, <3>2
  <2> HIDE DEF h
  <2>5. Upto(m + 1, h)
    BY <2>4
  <2> HIDE DEF Upto
  <2> QED  BY <2>3, <2>5
<1> HIDE DEF N
<1>3. Nat \subseteq N
  BY <1>1, <1>2, Induction
<1>4. Len(entries) \in Nat
  OBVIOUS
<1>5. PICK g \in [Dom -> Seq(S)] : Upto(Len(entries), g)
  BY <1>3, <1>4 DEF N
<1>6. g = [n \in Dom |-> Next1(g, n)]
  BY <1>5
<1> DEFINE kept == CHOOSE k : k = [n \in Dom |-> Next1(k, n)]
<1>7. kept = [n \in Dom |-> Next1(kept, n)]
  BY <1>6
<1>8. EntriesWithout(entries, keys) = kept[Len(entries)]
  BY DEF EntriesWithout
<1> HIDE DEF kept
<1> DEFINE M == {m \in Nat : m \in Dom => kept[m] = g[m]}
<1>9. 0 \in M
  BY <1>6, <1>7
<1>10. ASSUME NEW m \in Nat, m \in M PROVE m + 1 \in M
  <2> SUFFICES ASSUME m + 1 \in Dom PROVE kept[m + 1] = g[m + 1]
    OBVIOUS
  <2>1. kept[m] = g[m] /\ (m + 1) - 1 = m /\ m + 1 > 0
    BY <1>10
  <2>2. kept[m + 1] = Next1(kept, m + 1) /\ g[m + 1] = Next1(g, m + 1)
    BY <1>6, <1>7
  <2> QED  BY <2>1, <2>2
<1> HIDE DEF M
<1>11. Nat \subseteq M
  BY <1>9, <1>10, Induction
<1>12. kept[Len(entries)] = g[Len(entries)]
  BY <1>4, <1>11 DEF M
<1>13. g[0] = <<>>
  <2>1. g[0] = Next1(g, 0)
    BY <1>5
  <2> QED  BY <2>1
<1>14. ASSUME NEW n \in 1 .. Len(entries)
       PROVE  g[n] = IF entries[n].key \in keys THEN g[n - 1]
                     ELSE Append(g[n - 1], entries[n])
  <2>1. n \in Dom /\ n <= Len(entries) /\ n # 0
    OBVIOUS
  <2>2. g[n] = Next1(g, n)
    <3> HIDE DEF Next1, Dom
    <3> QED  BY <1>5, <2>1
  <2> QED  BY <2>1, <2>2
<1> QED  BY <1>5, <1>8, <1>12, <1>13, <1>14

\* What is left of the entries are entries.
LEMMA EntriesWithoutType ==
    ASSUME NEW S, NEW entries \in Seq(S), NEW keys
    PROVE  EntriesWithout(entries, keys) \in Seq(S)
<1>1. PICK g \in [0 .. Len(entries) -> Seq(S)] : EntriesWithout(entries, keys) = g[Len(entries)]
  BY KeptEntries
<1>2. Len(entries) \in 0 .. Len(entries)
  OBVIOUS
<1> QED  BY <1>1, <1>2

\* A key is recorded in a well-typed record.
LEMMA RecordKeyType ==
    ASSUME NEW keys, NEW s \in AllStats(keys), NEW k \in keys, NEW field \in {"sets", "deletes"}
    PROVE  recordKey(s, k, field) \in AllStats(keys)
<1> DEFINE new == [key |-> k, sets |-> 0, deletes |-> 0]
           entries == IF k \in Tracked(s) THEN s.trackedKeys
                      ELSE pruneTrackedKeys(Append(s.trackedKeys, new), k, s.maxTrackedKeys)
           recorded == [i \in DOMAIN entries |->
                          IF entries[i].key = k THEN [entries[i] EXCEPT ![field] = @ + 1]
                                                ELSE entries[i]]
<1>1. s.trackedKeys \in Seq(KeyCounters(keys)) /\ new \in KeyCounters(keys)
  BY DEF AllStats, KeyCounters
<1>2. Append(s.trackedKeys, new) \in Seq(KeyCounters(keys))
  BY <1>1
<1>3. pruneTrackedKeys(Append(s.trackedKeys, new), k, s.maxTrackedKeys) \in Seq(KeyCounters(keys))
  BY <1>2, EntriesWithoutType DEF pruneTrackedKeys
<1>4. entries \in Seq(KeyCounters(keys))
  BY <1>1, <1>3
<1> HIDE DEF entries
<1>5. ASSUME NEW i \in DOMAIN entries
      PROVE  [entries[i] EXCEPT ![field] = @ + 1] \in KeyCounters(keys) /\ entries[i] \in KeyCounters(keys)
  <2>1. entries[i] \in KeyCounters(keys)
    BY <1>4
  <2>2. /\ [entries[i] EXCEPT !["sets"] = @ + 1] \in KeyCounters(keys)
        /\ [entries[i] EXCEPT !["deletes"] = @ + 1] \in KeyCounters(keys)
    BY <2>1 DEF KeyCounters
  <2> QED  BY <2>1, <2>2
<1>6. recorded \in Seq(KeyCounters(keys))
  <2>1. DOMAIN recorded = 1 .. Len(entries) /\ Len(entries) \in Nat
    BY <1>4
  <2>2. \A i \in 1 .. Len(entries) : recorded[i] \in KeyCounters(keys)
    BY <1>4, <1>5
  <2>3. recorded = [i \in 1 .. Len(entries) |-> recorded[i]]
    BY <1>4
  <2> HIDE DEF recorded
  <2> QED  BY <2>1, <2>2, <2>3
<1>7. recordKey(s, k, field) = IF s.enabled /\ s.trackKeys
                               THEN [s EXCEPT !.trackedKeys = recorded] ELSE s
  BY DEF recordKey, entries
<1> HIDE DEF recorded
<1> QED  BY <1>6, <1>7 DEF AllStats

\* New and reset statistics are well typed.
LEMMA NewStatsType ==
    ASSUME NEW keys, NEW on \in BOOLEAN, NEW trackKeys \in BOOLEAN,
           NEW cap \in Nat \cup {Unbounded}
    PROVE  NewStats(on, trackKeys, cap) \in AllStats(keys)
BY DEF NewStats, AllStats

\* An event leaves the statistics of a subscriber well typed.
LEMMA EventType ==
    ASSUME NEW keys, NEW s \in AllStats(keys), NEW name, NEW k,
           name \in {"set", "del"} => k \in keys
    PROVE  applyEvent(s, [name |-> name, key |-> k]) \in AllStats(keys)
<1>1. \A field \in Totals : increment(s, field, 1) \in AllStats(keys)
  BY IncrementType
<1>2. reset(s) \in AllStats(keys)
  BY NewStatsType DEF reset, AllStats
<1>3. CASE name = "set"
  <2>1. recordKey(increment(s, "sets", 1), k, "sets") \in AllStats(keys)
    BY <1>1, <1>3, RecordKeyType DEF Totals
  <2> QED  BY <1>3, <2>1 DEF applyEvent, nodeCacheStatsEventMap
<1>4. CASE name = "del"
  <2>1. recordKey(increment(s, "deletes", 1), k, "deletes") \in AllStats(keys)
    BY <1>1, <1>4, RecordKeyType DEF Totals
  <2> QED  BY <1>4, <2>1 DEF applyEvent, nodeCacheStatsEventMap
<1>5. CASE name \notin {"set", "del"}
  BY <1>1, <1>2, <1>5 DEF applyEvent, nodeCacheStatsEventMap, Totals
<1> QED  BY <1>3, <1>4, <1>5

\* So does hearing it as often as there are subscriptions.
LEMMA HeardType ==
    ASSUME CacheTypeOK, NEW name, NEW k, name \in {"set", "del"} => k \in CacheKeys
    PROVE  Heard(name, k) \in [stats : AllStats(CacheKeys), times : 0 .. 2]
<1> DEFINE event == [name |-> name, key |-> k]
<1>1. subscriber.stats \in AllStats(CacheKeys) /\ subscriber.times \in 0 .. 2
      /\ subscriber \in [stats : AllStats(CacheKeys), times : 0 .. 2]
  BY DEF CacheTypeOK
<1>2. applyEvent(subscriber.stats, event) \in AllStats(CacheKeys)
  BY <1>1, EventType
<1>3. applyEvent(applyEvent(subscriber.stats, event), event) \in AllStats(CacheKeys)
  BY <1>2, EventType
<1> DEFINE s1 == applyEvent(subscriber.stats, event)
           s2 == applyEvent(applyEvent(subscriber.stats, event), event)
<1>4. Heard(name, k) =
        [subscriber EXCEPT !.stats = CASE subscriber.times = 0 -> subscriber.stats
                                       [] subscriber.times = 1 -> s1
                                       [] OTHER -> s2]
  BY DEF Heard
<1> HIDE DEF s1, s2, event
<1>5. (CASE subscriber.times = 0 -> subscriber.stats
         [] subscriber.times = 1 -> s1 [] OTHER -> s2) \in AllStats(CacheKeys)
  BY <1>1, <1>2, <1>3 DEF s1, s2
<1> QED  BY <1>1, <1>4, <1>5

-----------------------------------------------------------------------------
(* The stack of a NodeCache                                                *)

ProperFrames == {f \in Frames : Proper(f)}

\* Frames that the invariants speak of, and stacks that have the same ones at
\* the same places.
Telling == {"countSet", "countDel", "announce"}

Alike(fs, gs) ==
    /\ Pending(fs, Telling) = Pending(gs, Telling)
    /\ \A i \in Pending(gs, Telling) :
          /\ fs[i].do = gs[i].do /\ fs[i].key = gs[i].key
          /\ fs[i].value = gs[i].value /\ fs[i].old = gs[i].old

Rests == {fs \in Seq(ProperFrames) : Alike(fs, stack)}

LEMMA StackType ==
    ASSUME TypeInv
    PROVE  stack \in Seq(ProperFrames) /\ stack \in Rests
<1>1. stack \in Seq(Frames) /\ \A i \in 1 .. Len(stack) : stack[i] \in ProperFrames
  BY DEF TypeInv, CacheTypeOK, ProperFrames
<1>2. stack \in Seq(ProperFrames)
  BY <1>1
<1> QED  BY <1>2 DEF Rests, Alike

\* A frame that has just been pushed.
LEMMA FrameType ==
    ASSUME NEW do \in {"countSet", "countDel", "announce", "return", "flushed", "del",
                       "mset", "mdel", "mget", "check"},
           NEW k \in CacheKeys \cup {undefined}, NEW value \in 1 .. MaxSets \cup {undefined},
           NEW old \in 1 .. MaxSets \cup {undefined},
           do \in Telling => k \in CacheKeys /\ value \in 1 .. MaxSets,
           do = "del" => k \in CacheKeys
    PROVE  Frame(do, k, value, old) \in ProperFrames
<1>1. Omitted \in Ttls /\ <<>> \in Seq(CacheKeys) /\ {} \in SUBSET CacheKeys
  BY NodeCacheAssumption
<1>2. Frame(do, k, value, old) \in Frames
  BY <1>1 DEF Frame, Frames
<1>3. Proper(Frame(do, k, value, old))
  BY DEF Frame, Proper, Telling
<1> QED  BY <1>2, <1>3 DEF ProperFrames

\* The stack with a frame marked, popped or pushed that tells nothing.
LEMMA MarkedRest ==
    ASSUME TypeInv PROVE Caller \in Rests
<1>1. CASE stack = <<>>
  BY <1>1, StackType DEF Caller
<1>2. CASE stack # <<>>
  <2> DEFINE n == Len(stack)
             f == [stack[n] EXCEPT !.called = TRUE]
  <2>1. stack \in Seq(ProperFrames) /\ n \in DOMAIN stack /\ n \in Nat
    BY <1>2, StackType
  <2>2. stack[n] \in ProperFrames
    BY <2>1
  <2>3. f \in ProperFrames /\ f.do = stack[n].do /\ f.key = stack[n].key
        /\ f.value = stack[n].value /\ f.old = stack[n].old
    BY <2>2 DEF ProperFrames, Frames, Proper
  <2>4. Caller = [stack EXCEPT ![n] = f]
    BY <1>2 DEF Caller
  <2> HIDE DEF f, n
  <2>5. Caller \in Seq(ProperFrames)
    BY <2>1, <2>3, <2>4
  <2>6. Alike(Caller, stack)
    BY <2>1, <2>3, <2>4 DEF Alike, Pending
  <2> QED  BY <2>5, <2>6 DEF Rests
<1> QED  BY <1>1, <1>2

LEMMA BelowType ==
    ASSUME TypeInv, stack # <<>>
    PROVE  /\ Below \in Seq(ProperFrames) /\ Last(stack) \in ProperFrames
           /\ Len(Below) = Len(stack) - 1 /\ Len(stack) \in Nat \ {0}
           /\ DOMAIN Below = 1 .. (Len(stack) - 1)
           /\ \A i \in DOMAIN Below : Below[i] = stack[i]
<1> DEFINE n == Len(stack)
<1>1. stack \in Seq(ProperFrames) /\ n \in Nat \ {0} /\ n - 1 \in Nat
  BY StackType
<1>2. Below = SubSeq(stack, 1, n - 1)
  BY DEF Below, Front
<1>3. \A i \in 1 .. n : stack[i] \in ProperFrames
  BY <1>1
<1> HIDE DEF n
<1>4. /\ SubSeq(stack, 1, n - 1) \in Seq(ProperFrames)
      /\ Len(SubSeq(stack, 1, n - 1)) = IF 1 <= n - 1 THEN (n - 1) - 1 + 1 ELSE 0
      /\ \A i \in 1 .. (n - 1) - 1 + 1 : SubSeq(stack, 1, n - 1)[i] = stack[1 + i - 1]
  <2>1. \A i \in 1 .. (n - 1) : stack[i] \in ProperFrames
    BY <1>1, <1>3
  <2> QED  BY <1>1, <2>1, SubSeqProperties
<1>5. /\ Below \in Seq(ProperFrames) /\ Len(Below) = n - 1 /\ DOMAIN Below = 1 .. (n - 1)
      /\ \A i \in 1 .. (n - 1) : Below[i] = stack[i]
  BY <1>1, <1>2, <1>4
<1>6. Last(stack) \in ProperFrames
  BY <1>1, <1>3 DEF Last, n
<1> QED  BY <1>1, <1>5, <1>6 DEF n

LEMMA PoppedRest ==
    ASSUME TypeInv, stack # <<>>, Last(stack).do \notin Telling
    PROVE  Below \in Rests
<1>1. Alike(Below, stack)
  BY BelowType, StackType DEF Alike, Pending, Last
<1> QED  BY <1>1, BelowType DEF Rests

LEMMA PushedRest ==
    ASSUME NEW fs \in Rests, NEW f \in ProperFrames, f.do \notin Telling, TypeInv
    PROVE  Append(fs, f) \in Rests
<1>1. fs \in Seq(ProperFrames) /\ Alike(fs, stack)
  BY DEF Rests
<1>2. Append(fs, f) \in Seq(ProperFrames)
  BY <1>1
<1>3. Pending(Append(fs, f), Telling) = Pending(fs, Telling)
  BY <1>1 DEF Pending
<1>4. \A i \in Pending(fs, Telling) : Append(fs, f)[i] = fs[i]
  BY <1>1 DEF Pending
<1>5. Alike(Append(fs, f), stack)
  BY <1>1, <1>3, <1>4 DEF Alike
<1> QED  BY <1>2, <1>5 DEF Rests

LEMMA ReturnRest ==
    ASSUME NEW fs \in Rests, TypeInv
    PROVE  Return(fs) \in Rests
<1>1. Frame("return", undefined, undefined, undefined) \in ProperFrames
  BY FrameType DEF Telling
<1>2. Frame("return", undefined, undefined, undefined).do \notin Telling
  BY DEF Frame, Telling
<1> QED  BY <1>1, <1>2, PushedRest DEF Return

\* What SetEntry does to the frames below.
Unseen(fs, k) == [i \in DOMAIN fs |-> [fs[i] EXCEPT !.seen = @ \ {k}]]

LEMMA UnseenRest ==
    ASSUME NEW fs \in Rests, NEW k, TypeInv
    PROVE  Unseen(fs, k) \in Rests
<1>1. fs \in Seq(ProperFrames) /\ Alike(fs, stack)
  BY DEF Rests
<1>2. ASSUME NEW i \in DOMAIN fs
      PROVE  LET f == [fs[i] EXCEPT !.seen = @ \ {k}]
             IN  /\ f \in ProperFrames /\ f.do = fs[i].do /\ f.key = fs[i].key
                 /\ f.value = fs[i].value /\ f.old = fs[i].old
  <2>1. fs[i] \in ProperFrames
    BY <1>1
  <2> QED  BY <2>1 DEF ProperFrames, Frames, Proper
<1>3. Unseen(fs, k) \in Seq(ProperFrames) /\ DOMAIN Unseen(fs, k) = DOMAIN fs
  BY <1>1, <1>2 DEF Unseen
<1>4. Alike(Unseen(fs, k), fs)
  BY <1>2, <1>3 DEF Unseen, Alike, Pending
<1>5. Alike(Unseen(fs, k), stack)
  BY <1>1, <1>4 DEF Alike
<1> QED  BY <1>3, <1>5 DEF Rests

-----------------------------------------------------------------------------
(* Every step has one of a few effects                                     *)

\* The type invariant in two parts: what operations work on, and the rest.
DataOK ==
    /\ store \in [CacheKeys -> Entries \cup {undefined}] /\ IsFiniteSet(Stored)
    /\ stats \in AllStats(CacheKeys) /\ stats.enabled
    /\ stack \in Seq(ProperFrames)
    /\ subscriber \in [stats : AllStats(CacheKeys), times : 0 .. 2]
    /\ sets \in 0 .. MaxSets
    /\ told \in [1 .. MaxSets -> 0 .. 2]
    /\ sizes \in {"exact", "atMost", "unknown"}

SettingsOK ==
    /\ options \in Options /\ bounds \in Bounds
    /\ timers \in [live : Nat, known : BOOLEAN] /\ (timers.known => timers.live > 0)
    /\ now \in Nat

LEMMA TypeParts == TypeInv <=> DataOK /\ SettingsOK
<1>1. TypeInv => stack \in Seq(ProperFrames)
  BY StackType
<1>2. stack \in Seq(ProperFrames) => stack \in Seq(Frames) /\ \A i \in DOMAIN stack : Proper(stack[i])
  BY DEF ProperFrames
<1> QED  BY <1>1, <1>2 DEF TypeInv, CacheTypeOK, DataOK, SettingsOK

-----------------------------------------------------------------------------
(* What a step does                                                        *)

\* Nothing that the statistics and the announcements depend on.
Quiet ==
    /\ stack' \in Rests
    /\ store' \in [CacheKeys -> Entries \cup {undefined}]
    /\ \A k \in CacheKeys : /\ store'[k] = undefined <=> store[k] = undefined
                            /\ store'[k].value = store[k].value
    /\ UNCHANGED subscriber \/ subscriber' = Heard("flush", undefined) \/ Subscriber
    /\ UNCHANGED <<stats, sets, told, sizes>>

Removing(k) ==
    \E below \in Rests :
        \/ Delete(k, below)
        \/ /\ options.deleteOnExpire
           /\ Delete(k, Append(below, Frame("announce", k, store[k].value, undefined)))

Announcement ==
    \/ \E below \in Rests, k \in Stored :
          ~options.deleteOnExpire /\ Announce(k, store[k].value, below)
    \/ /\ stack # <<>> /\ Last(stack).do = "announce"
       /\ Announce(Last(stack).key, Last(stack).value, Below)

Effect ==
    \/ Quiet
    \/ \E below \in Rests, k \in CacheKeys, t \in Ttls : ~Full(k) /\ SetEntry(k, t, below)
    \/ \E below \in Rests : Throw(below)
    \/ \E k \in CacheKeys : Removing(k)
    \/ Announcement
    \/ flushStats \/ flushAll
    \/ stack # <<>> /\ (CountSet(Last(stack)) \/ CountDel(Last(stack)))

LEMMA ExpiredEffect ==
    ASSUME NEW k \in CacheKeys, NEW below \in Rests, Expired(k), handleExpired(k, below)
    PROVE  Effect
<1>1. k \in Stored
  BY DEF Expired, Stored
<1>2. CASE options.deleteOnExpire
  BY <1>2 DEF handleExpired, Effect, Removing
<1>3. CASE ~options.deleteOnExpire
  BY <1>1, <1>3 DEF handleExpired, Effect, Announcement
<1> QED  BY <1>2, <1>3

\* Steps that leave the store and the statistics alone.
LEMMA QuietStep ==
    ASSUME TypeInv, stack' \in Rests, UNCHANGED <<store, stats, subscriber, sets, told, sizes>>
    PROVE  Effect
<1>1. store \in [CacheKeys -> Entries \cup {undefined}]
  BY DEF TypeInv, CacheTypeOK
<1> QED  BY <1>1 DEF Effect, Quiet

\* A timestamp is a natural number.
LEMMA ExpirationType ==
    ASSUME TypeInv, NEW t \in Ttls
    PROVE  Expiration(t) \in Nat
<1>1. options.stdTTL \in Int /\ now \in Nat /\ (t # Omitted => t \in Int)
  BY NodeCacheAssumption DEF TypeInv, CacheTypeOK, Options
<1>2. \A u \in Int : resolveExpiration(u) \in Nat
  BY <1>1 DEF resolveExpiration
<1>3. ASSUME NEW u \in Int PROVE Max({1, u}) \in Nat
  <2>1. \E x \in {1, u} : \A y \in {1, u} : x >= y
    BY <1>3
  <2>2. Max({1, u}) \in {1, u} /\ \A y \in {1, u} : Max({1, u}) >= y
    BY <2>1 DEF Max
  <2> QED  BY <2>2
<1>4. t # Omitted => now + t \in Int
  BY <1>1
<1> QED  BY <1>1, <1>2, <1>3, <1>4 DEF Expiration

\* What set and ttl do.
LEMMA CallEffect ==
    ASSUME TypeInv, NEW k \in CacheKeys, NEW t \in bounds.ttls,
           Set(k, t) \/ Ttl(k, t)
    PROVE  Effect
<1>1. Caller \in Rests
  BY MarkedRest
<1>2. t \in Ttls
  BY NodeCacheAssumption DEF TypeInv
<1>3. CASE Set(k, t)
  BY <1>1, <1>2, <1>3 DEF Set, Effect
<1>4. CASE Ttl(k, t)
  <2>1. store \in [CacheKeys -> Entries \cup {undefined}]
    BY DEF TypeInv, CacheTypeOK
  <2>2. store[k] \in Entries /\ store' = [store EXCEPT ![k].ttl = Expiration(t)]
    BY <1>4, <2>1 DEF Ttl
  <2>3. [store[k] EXCEPT !.ttl = Expiration(t)] \in Entries
        /\ [store[k] EXCEPT !.ttl = Expiration(t)].value = store[k].value
    BY <1>2, <2>2, ExpirationType DEF Entries
  <2>4. store' \in [CacheKeys -> Entries \cup {undefined}]
    BY <2>1, <2>2, <2>3
  <2>5. \A j \in CacheKeys : /\ store'[j] = undefined <=> store[j] = undefined
                             /\ store'[j].value = store[j].value
    BY <2>1, <2>2, <2>3, NodeCacheAssumption
  <2> QED  BY <1>1, <1>4, <2>1, <2>4, <2>5 DEF Ttl, Effect, Quiet
<1> QED  BY <1>3, <1>4

\* An entry that expires between the two looks of take.
LEMMA TakeExpiringEffect ==
    ASSUME TypeInv, NEW k \in CacheKeys, TakeExpiring(k)
    PROVE  Effect
<1> DEFINE below == Append(Caller, Frame("del", k, undefined, undefined))
<1>1. Frame("del", k, undefined, undefined) \in ProperFrames
      /\ Frame("del", k, undefined, undefined).do \notin Telling
  BY FrameType DEF Telling, Frame
<1>2. below \in Rests
  BY <1>1, MarkedRest, PushedRest
<1>3. handleExpired(k, below) /\ store[k] # undefined
  BY DEF TakeExpiring
<1>4. k \in Stored
  BY <1>3 DEF Stored
<1> HIDE DEF below
<1>5. CASE options.deleteOnExpire
  BY <1>2, <1>3, <1>5 DEF handleExpired, Effect, Removing
<1>6. CASE ~options.deleteOnExpire
  BY <1>2, <1>3, <1>4, <1>6 DEF handleExpired, Effect, Announcement
<1> QED  BY <1>5, <1>6

\* The rest of an operation.
LEMMA ResumeEffect ==
    ASSUME TypeInv, Resume
    PROVE  Effect
<1> DEFINE f == Last(stack)
<1>1. stack # <<>>
  BY DEF Resume
<1>2. f \in ProperFrames /\ Below \in Seq(ProperFrames)
  BY <1>1, BelowType
<1>3. f.do \notin Telling => Below \in Rests
  BY <1>1, PoppedRest
<1>4. CASE CountSet(f) \/ CountDel(f)
  BY <1>1, <1>4 DEF Effect
<1>5. CASE Flushed(f)
  <2>1. Below \in Rests
    BY <1>3, <1>5 DEF Flushed, Telling
  <2>2. Return(Below) \in Rests
    BY <2>1, ReturnRest
  <2>3. store \in [CacheKeys -> Entries \cup {undefined}]
    BY DEF TypeInv, CacheTypeOK
  <2> QED  BY <1>5, <2>2, <2>3 DEF Flushed, Effect, Quiet
<1>6. CASE DelTaken(f)
  <2>1. Below \in Rests /\ f.key \in CacheKeys
    BY <1>2, <1>3, <1>6 DEF DelTaken, Telling, ProperFrames, Proper
  <2>2. CASE Pop
    BY <2>1, <2>2, QuietStep DEF Pop
  <2>3. CASE Delete(f.key, Below)
    BY <2>1, <2>3 DEF Effect, Removing
  <2> QED  BY <1>6, <2>2, <2>3 DEF DelTaken
<1>7. CASE NextKey(f)
  <2> DEFINE k == Head(f.keys)
             g == [f EXCEPT !.keys = Tail(@)]
             below == Append(Below, g)
  <2>1. f \in Frames /\ f.do \in {"mset", "mdel", "mget"} /\ f.keys # <<>>
    BY <1>2, <1>7 DEF NextKey, ProperFrames
  <2>2. f.keys \in Seq(CacheKeys) /\ f.ttl \in Ttls
    BY <2>1 DEF Frames
  <2>3. k \in CacheKeys /\ Tail(f.keys) \in Seq(CacheKeys)
    BY <2>1, <2>2
  <2>4. g \in ProperFrames /\ g.do \notin Telling
    BY <2>1, <2>3 DEF Frames, ProperFrames, Proper, Telling
  <2>5. below \in Rests
    BY <1>3, <2>1, <2>4, PushedRest DEF Telling
  <2>6. \/ stack' = below /\ UNCHANGED <<store, stats, subscriber, sets, told, sizes>>
        \/ Throw(Below)
        \/ ~Full(k) /\ SetEntry(k, f.ttl, below)
        \/ Delete(k, below)
        \/ Expired(k) /\ handleExpired(k, below)
    <3> HIDE DEF f
    <3>1. sets = MaxSets \/ (sets # MaxSets /\ sets < MaxSets)
      BY NodeCacheAssumption DEF TypeInv, CacheTypeOK
    <3>2. CASE f.do = "mset"
      BY <1>7, <2>1, <3>1, <3>2 DEF NextKey
    <3>3. CASE f.do = "mdel"
      BY <1>7, <2>1, <3>3 DEF NextKey
    <3>4. CASE f.do = "mget"
      BY <1>7, <2>1, <3>4 DEF NextKey
    <3> QED  BY <2>1, <3>2, <3>3, <3>4
  <2> HIDE DEF below, k, f
  <2>7. Below \in Rests
    BY <1>3, <2>1 DEF Telling
  <2>8. CASE stack' = below /\ UNCHANGED <<store, stats, subscriber, sets, told, sizes>>
    BY <2>5, <2>8, QuietStep
  <2>9. CASE Expired(k) /\ handleExpired(k, below)
    BY <2>3, <2>5, <2>9, ExpiredEffect
  <2> QED  BY <2>2, <2>3, <2>5, <2>6, <2>7, <2>8, <2>9 DEF Effect, Removing
<1>8. CASE CheckNext(f)
  <2>1. f.do = "check" /\ f \in Frames
    BY <1>2, <1>8 DEF CheckNext, ProperFrames
  <2>2. Below \in Rests
    BY <1>3, <2>1 DEF Telling
  <2>3. CASE Pop
    BY <2>2, <2>3, QuietStep DEF Pop
  <2>4. ASSUME NEW k \in CacheKeys, Expired(k),
               handleExpired(k, Append(Below, [f EXCEPT !.seen = @ \cup {k}]))
        PROVE  Effect
    <3> DEFINE g == [f EXCEPT !.seen = @ \cup {k}]
    <3>1. g \in ProperFrames /\ g.do \notin Telling
      BY <2>1 DEF Frames, ProperFrames, Proper, Telling
    <3>2. Append(Below, g) \in Rests
      BY <2>2, <3>1, PushedRest
    <3> QED  BY <2>4, <3>2, ExpiredEffect
  <2> QED  BY <1>8, <2>3, <2>4 DEF CheckNext
<1>9. CASE f.do = "announce" /\ Announce(f.key, f.value, Below)
  BY <1>1, <1>9 DEF Effect, Announcement
<1>10. CASE f.do \in {"return", "mset", "mdel", "mget"} /\ Pop
  <2>1. Below \in Rests
    BY <1>3, <1>10 DEF Telling
  <2> QED  BY <1>10, <2>1, QuietStep DEF Pop
<1> QED  BY <1>4, <1>5, <1>6, <1>7, <1>8, <1>9, <1>10 DEF Resume

\* What the program does with the subscriber keeps it well typed.
LEMMA SubscriberType ==
    ASSUME TypeInv, Subscriber
    PROVE  subscriber' \in [stats : AllStats(CacheKeys), times : 0 .. 2]
<1>1. subscriber \in [stats : AllStats(CacheKeys), times : 0 .. 2]
      /\ store \in [CacheKeys -> Entries \cup {undefined}]
  BY DEF TypeInv, CacheTypeOK
<1>2. bounds.times \in 0 .. 2
  BY NodeCacheAssumption DEF TypeInv
<1>3. ASSUME NEW s \in AllStats(CacheKeys)
      PROVE  [s EXCEPT !.enabled = ~@] \in AllStats(CacheKeys) /\ clearKeys(s) \in AllStats(CacheKeys)
  <2>1. \A e \in BOOLEAN : [s EXCEPT !.enabled = e] \in AllStats(CacheKeys)
    BY DEF AllStats
  <2>2. s.enabled \in BOOLEAN
    BY DEF AllStats
  <2>3. (~s.enabled) \in BOOLEAN
    BY <2>2
  <2>4. clearKeys(s) \in AllStats(CacheKeys)
    <3>1. <<>> \in Seq(KeyCounters(CacheKeys))
      OBVIOUS
    <3> QED  BY <3>1 DEF AllStats, clearKeys
  <2> QED  BY <2>1, <2>3, <2>4
<1>4. subscriber' \in [stats : AllStats(CacheKeys), times : 0 .. 2]
  <2>1. CASE subscriber.times < bounds.times /\ subscriber' = [subscriber EXCEPT !.times = @ + 1]
    BY <1>1, <1>2, <2>1
  <2>2. CASE subscriber' = [subscriber EXCEPT !.times = 0]
    BY <1>1, <2>2
  <2>3. ASSUME NEW s2 \in {[subscriber.stats EXCEPT !.enabled = ~@], clearKeys(subscriber.stats)},
               subscriber' = [subscriber EXCEPT !.stats = s2]
        PROVE  subscriber' \in [stats : AllStats(CacheKeys), times : 0 .. 2]
    <3>1. subscriber.stats \in AllStats(CacheKeys)
      BY <1>1
    <3>2. s2 \in AllStats(CacheKeys)
      BY <1>3, <2>3, <3>1
    <3> QED  BY <1>1, <2>3, <3>2
  <2> QED  BY <2>1, <2>2, <2>3 DEF Subscriber
<1> QED  BY <1>4

\* Every step has one of the effects.
LEMMA StepEffect ==
    ASSUME TypeInv, CacheNext
    PROVE  Effect
<1>1. ASSUME NEW k \in CacheKeys,
             \/ \E t \in bounds.ttls : Set(k, t) \/ Ttl(k, t)
             \/ Del(k) \/ Get(k) \/ Take(k) \/ TakeExpiring(k)
      PROVE  Effect
  <2>1. CASE \E t \in bounds.ttls : Set(k, t) \/ Ttl(k, t)
    BY <2>1, CallEffect
  <2>2. CASE Del(k) \/ Get(k) \/ Take(k) \/ TakeExpiring(k)
    <3>1. Caller \in Rests
      BY MarkedRest
    <3>2. CASE Get(k)
      BY <3>1, <3>2, ExpiredEffect DEF Get
    <3>3. CASE Del(k) \/ Take(k)
      BY <3>1, <3>3 DEF Del, Take, Effect, Removing
    <3>4. CASE TakeExpiring(k)
      BY <3>4, TakeExpiringEffect
    <3> QED  BY <2>2, <3>2, <3>3, <3>4
  <2> QED  BY <1>1, <2>1, <2>2
<1>2. ASSUME NEW do \in {"mset", "mdel", "mget"}, NEW j \in CacheKeys, NEW k \in CacheKeys,
             NEW t \in bounds.ttls \cup {Omitted}, Many(do, <<j, k>>, t)
      PROVE  Effect
  <2> DEFINE f == Frame(do, undefined, undefined, undefined)
             g == [f EXCEPT !.keys = <<j, k>>, !.ttl = t]
  <2>1. t \in Ttls
    BY NodeCacheAssumption DEF TypeInv
  <2>2. f \in ProperFrames /\ f.do = do
    BY FrameType DEF Telling, Frame
  <2>3. <<j, k>> \in Seq(CacheKeys)
    OBVIOUS
  <2> HIDE DEF f
  <2>4. g \in ProperFrames /\ g.do \notin Telling
    BY <2>1, <2>2, <2>3 DEF Frames, ProperFrames, Proper, Telling
  <2>5. Append(Caller, g) \in Rests
    BY <2>4, MarkedRest, PushedRest
  <2>6. stack' = Append(Caller, g) /\ UNCHANGED <<store, stats, subscriber, sets, told, sizes>>
    BY <1>2 DEF Many, f
  <2> HIDE DEF g
  <2> QED  BY <2>5, <2>6, QuietStep
<1>3. CASE flushStats \/ flushAll
  BY <1>3 DEF Effect
<1>4. CASE Resume
  BY <1>4, ResumeEffect
<1>5. CASE CheckData
  <2>1. Frame("check", undefined, undefined, undefined) \in ProperFrames
        /\ Frame("check", undefined, undefined, undefined).do \notin Telling
    BY FrameType DEF Telling, Frame
  <2>2. Append(stack, Frame("check", undefined, undefined, undefined)) \in Rests
    BY <2>1, StackType, PushedRest
  <2>3. stack' = Append(stack, Frame("check", undefined, undefined, undefined))
        /\ UNCHANGED <<store, stats, subscriber, sets, told, sizes>>
    BY <1>5 DEF CheckData
  <2> QED  BY <2>2, <2>3, QuietStep
<1>6. CASE StartInterval \/ StopInterval \/ Tick
  BY <1>6, StackType, QuietStep DEF StartInterval, StopInterval, Tick
<1>7. CASE Subscriber
  <2>1. store \in [CacheKeys -> Entries \cup {undefined}]
    BY DEF TypeInv, CacheTypeOK
  <2>2. stack' \in Rests /\ UNCHANGED <<store, stats, sets, told, sizes>>
    BY <1>7, StackType DEF Subscriber
  <2> QED  BY <1>7, <2>1, <2>2 DEF Effect, Quiet
<1> QED  BY <1>1, <1>2, <1>3, <1>4, <1>5, <1>6, <1>7 DEF CacheNext

-----------------------------------------------------------------------------
(* Types                                                                   *)

LEMMA SetEntryType ==
    ASSUME TypeInv, NEW below \in Rests, NEW k \in CacheKeys, NEW t \in Ttls, SetEntry(k, t, below)
    PROVE  DataOK'
<1>1. DataOK
  BY TypeParts
<1>2. sets + 1 \in 1 .. MaxSets /\ sets' = sets + 1
  BY <1>1, NodeCacheAssumption DEF SetEntry, DataOK
<1> DEFINE e == [value |-> sets + 1, ttl |-> Expiration(t)]
<1>3. e \in Entries
  BY <1>2, ExpirationType DEF Entries
<1>4. store' = [store EXCEPT ![k] = e]
  BY DEF SetEntry
<1> HIDE DEF e
<1>5. store' \in [CacheKeys -> Entries \cup {undefined}]
  BY <1>1, <1>3, <1>4 DEF DataOK
<1>6. IsFiniteSet(Stored')
  <2>1. Stored' \subseteq Stored \cup {k}
    BY <1>1, <1>4 DEF DataOK, Stored
  <2>2. IsFiniteSet(Stored \cup {k})
    BY <1>1, FS_AddElement DEF DataOK
  <2> QED  BY <2>1, <2>2, FS_Subset
<1> DEFINE old == IF store[k] = undefined THEN undefined ELSE store[k].value
           ahead == IF old # undefined THEN below ELSE Unseen(below, k)
<1>7. old \in 1 .. MaxSets \cup {undefined}
  BY <1>1 DEF DataOK, Entries
<1>8. Frame("countSet", k, sets + 1, old) \in ProperFrames
  <2> HIDE DEF old
  <2> QED  BY <1>2, <1>7, FrameType
<1>9. ahead \in Seq(ProperFrames)
  BY UnseenRest DEF Rests
<1>10. stack' = Append(ahead, Frame("countSet", k, sets + 1, old))
  BY DEF SetEntry, Unseen
<1>11. stack' \in Seq(ProperFrames)
  <2> HIDE DEF ahead, old
  <2> QED  BY <1>8, <1>9, <1>10
<1>12. subscriber' \in [stats : AllStats(CacheKeys), times : 0 .. 2]
  BY HeardType DEF SetEntry, TypeInv
<1>13. UNCHANGED <<stats, told>> /\ sizes' \in {"exact", "atMost", "unknown"}
  BY <1>1 DEF SetEntry, DataOK
<1> QED  BY <1>1, <1>2, <1>5, <1>6, <1>11, <1>12, <1>13 DEF DataOK

LEMMA DeleteType ==
    ASSUME TypeInv, NEW below \in Seq(ProperFrames), NEW k \in CacheKeys, Delete(k, below)
    PROVE  DataOK'
<1>1. DataOK
  BY TypeParts
<1>2. store' = [store EXCEPT ![k] = undefined] /\ store[k] # undefined
  BY DEF Delete
<1>3. store[k].value \in 1 .. MaxSets
  BY <1>1, <1>2 DEF DataOK, Entries
<1>4. Frame("countDel", k, store[k].value, undefined) \in ProperFrames
  BY <1>3, FrameType
<1>5. stack' \in Seq(ProperFrames)
  BY <1>4 DEF Delete
<1>6. store' \in [CacheKeys -> Entries \cup {undefined}] /\ Stored' \subseteq Stored
  BY <1>1, <1>2 DEF DataOK, Stored
<1>7. IsFiniteSet(Stored')
  BY <1>1, <1>6, FS_Subset DEF DataOK
<1>8. subscriber' \in [stats : AllStats(CacheKeys), times : 0 .. 2]
  BY HeardType DEF Delete, TypeInv
<1>9. UNCHANGED <<stats, sets, told>> /\ sizes' \in {"exact", "atMost", "unknown"}
  BY <1>1 DEF Delete, DataOK
<1> QED  BY <1>1, <1>5, <1>6, <1>7, <1>8, <1>9 DEF DataOK

LEMMA AnnounceType ==
    ASSUME TypeInv, NEW below \in Seq(ProperFrames), NEW k \in CacheKeys, NEW v \in 1 .. MaxSets,
           Announce(k, v, below)
    PROVE  DataOK'
<1>1. DataOK
  BY TypeParts
<1>2. Frame("return", undefined, undefined, undefined) \in ProperFrames
  BY FrameType DEF Telling
<1>3. stack' \in Seq(ProperFrames)
  BY <1>2 DEF Announce, Return
<1>4. told' \in [1 .. MaxSets -> 0 .. 2]
  BY <1>1 DEF Announce, DataOK
<1>5. subscriber' \in [stats : AllStats(CacheKeys), times : 0 .. 2]
  BY HeardType DEF Announce, TypeInv
<1>6. UNCHANGED <<store, stats, sets, sizes>> /\ UNCHANGED Stored
  BY DEF Announce, Stored
<1> QED  BY <1>1, <1>3, <1>4, <1>5, <1>6 DEF DataOK

\* A flush leaves new statistics and a stack that tells the same.
LEMMA FlushRest ==
    ASSUME TypeInv, flushStats \/ flushAll
    PROVE  /\ stack' \in Rests
           /\ stats' = NewStats(TRUE, FALSE, Unbounded)
           /\ UNCHANGED <<sets, told, options>>
           /\ subscriber' \in [stats : AllStats(CacheKeys), times : 0 .. 2]
<1>1. Caller \in Rests
  BY MarkedRest
<1>2. Frame("flushed", undefined, undefined, undefined) \in ProperFrames
      /\ Frame("flushed", undefined, undefined, undefined).do \notin Telling
  BY FrameType DEF Telling, Frame
<1>3. Append(Caller, Frame("flushed", undefined, undefined, undefined)) \in Rests
  BY <1>1, <1>2, PushedRest
<1>4. PICK below \in Rests : FlushStats(below)
  BY <1>1, <1>3 DEF flushStats, flushAll
<1>5. stack' \in Rests
  BY <1>4, ReturnRest DEF FlushStats
<1>6. subscriber' \in [stats : AllStats(CacheKeys), times : 0 .. 2]
  BY <1>4, HeardType DEF FlushStats, TypeInv
<1> QED  BY <1>4, <1>5, <1>6 DEF FlushStats, flushStats, flushAll, Rest

LEMMA FlushType ==
    ASSUME TypeInv, flushStats \/ flushAll
    PROVE  DataOK'
<1>1. DataOK
  BY TypeParts
<1>2. NewStats(TRUE, FALSE, Unbounded) \in AllStats(CacheKeys)
      /\ NewStats(TRUE, FALSE, Unbounded).enabled
  BY NewStatsType DEF NewStats
<1>3. store' \in [CacheKeys -> Entries \cup {undefined}] /\ Stored' \subseteq Stored
  BY <1>1 DEF flushStats, flushAll, DataOK, Stored
<1>4. IsFiniteSet(Stored')
  BY <1>1, <1>3, FS_Subset DEF DataOK
<1>5. sizes' \in {"exact", "atMost", "unknown"}
  BY DEF flushStats, flushAll
<1> QED  BY <1>1, <1>2, <1>3, <1>4, <1>5, FlushRest DEF DataOK, Rests

\* The sizes and the count that an operation leaves are natural numbers.
LEMMA CountType ==
    ASSUME TypeInv, stack # <<>>, CountSet(Last(stack)) \/ CountDel(Last(stack))
    PROVE  DataOK'
<1> DEFINE f == Last(stack)
<1>1. DataOK
  BY TypeParts
<1>2. f \in ProperFrames /\ Below \in Seq(ProperFrames)
  BY BelowType
<1>3. f.key \in CacheKeys /\ f.value \in 1 .. MaxSets /\ f.old \in 1 .. MaxSets \cup {undefined}
      /\ f.do \in {"countSet", "countDel"}
  BY <1>2 DEF CountSet, CountDel, ProperFrames, Proper, Frames
<1>4. KeySize[f.key] \in Nat /\ ValueSize[f.value] \in Nat
      /\ (f.old # undefined => ValueSize[f.old] \in Nat)
  BY <1>3, NodeCacheAssumption
<1>5. Cardinality(Stored) \in Nat
  BY <1>1, FS_CardinalityType DEF DataOK
<1>6. \A s \in AllStats(CacheKeys) : \A n \in Nat :
         /\ increment(s, "ksize", n) \in AllStats(CacheKeys) /\ decrease(s, "ksize", n) \in AllStats(CacheKeys)
         /\ increment(s, "vsize", n) \in AllStats(CacheKeys) /\ decrease(s, "vsize", n) \in AllStats(CacheKeys)
  BY IncrementType DEF Totals
<1>7. \A s \in AllStats(CacheKeys) : setCount(s, Cardinality(Stored)) \in AllStats(CacheKeys)
  BY <1>5 DEF setCount, AllStats
<1>8. \A s \in AllStats(CacheKeys) : \A n \in Nat :
         /\ increment(s, "ksize", n).enabled = s.enabled /\ decrease(s, "ksize", n).enabled = s.enabled
         /\ increment(s, "vsize", n).enabled = s.enabled /\ decrease(s, "vsize", n).enabled = s.enabled
         /\ setCount(s, n).enabled = s.enabled
  BY DEF increment, decrease, setCount, AllStats
<1> DEFINE s1 == IF f.do = "countSet" /\ f.old = undefined THEN stats
                 ELSE decrease(stats, "ksize", KeySize[f.key])
           s2 == IF f.do = "countSet" /\ f.old = undefined THEN stats
                 ELSE decrease(s1, "vsize", IF f.do = "countSet" THEN ValueSize[f.old] ELSE ValueSize[f.value])
           s3 == IF f.do = "countDel" THEN s2 ELSE increment(s2, "ksize", KeySize[f.key])
           s4 == IF f.do = "countDel" THEN s3 ELSE increment(s3, "vsize", ValueSize[f.value])
<1>9. stats' = setCount(s4, Cardinality(Stored))
  <2> HIDE DEF f
  <2>1. CASE CountSet(f)
    BY <2>1 DEF CountSet
  <2>2. CASE CountDel(f)
    BY <2>2 DEF CountDel
  <2> QED  BY <2>1, <2>2 DEF f
<1> HIDE DEF f
<1>10. s1 \in AllStats(CacheKeys) /\ s1.enabled = stats.enabled
  BY <1>1, <1>4, <1>6, <1>8 DEF DataOK
<1>11. s2 \in AllStats(CacheKeys) /\ s2.enabled = stats.enabled
  <2> HIDE DEF s1
  <2> QED  BY <1>1, <1>3, <1>4, <1>6, <1>8, <1>10 DEF DataOK
<1>12. s3 \in AllStats(CacheKeys) /\ s3.enabled = stats.enabled
  <2> HIDE DEF s2
  <2> QED  BY <1>4, <1>6, <1>8, <1>11
<1>13. s4 \in AllStats(CacheKeys) /\ s4.enabled = stats.enabled
  <2> HIDE DEF s3
  <2> QED  BY <1>4, <1>6, <1>8, <1>12
<1>14. stats' \in AllStats(CacheKeys) /\ stats'.enabled
  <2> HIDE DEF s4
  <2> QED  BY <1>1, <1>5, <1>7, <1>8, <1>9, <1>13 DEF DataOK
<1>15. UNCHANGED <<store, subscriber, sets, told, sizes>> /\ UNCHANGED Stored /\ stack' = Below
  BY DEF CountSet, CountDel, Stored
<1> QED  BY <1>1, <1>2, <1>14, <1>15 DEF DataOK

\* An error leaves fewer frames, or none.
LEMMA ThrowType ==
    ASSUME TypeInv, NEW below \in Rests, Throw(below)
    PROVE  DataOK'
<1>1. DataOK
  BY TypeParts
<1>2. stack' \in Seq(ProperFrames) /\ sizes' \in {"exact", "atMost", "unknown"}
  <2>1. <<>> \in Seq(ProperFrames) /\ below \in Seq(ProperFrames)
    BY DEF Rests
  <2> QED  BY <1>1, <2>1 DEF Throw, DataOK
<1>3. UNCHANGED <<store, stats, subscriber, sets, told>> /\ UNCHANGED Stored
  BY DEF Throw, Stored
<1> QED  BY <1>1, <1>2, <1>3 DEF DataOK

\* A key that leaves the store, and the two announcements.
LEMMA RemovingType ==
    ASSUME TypeInv, NEW k \in CacheKeys, Removing(k)
    PROVE  DataOK'
<1>1. CASE \E below \in Rests : Delete(k, below)
  BY <1>1, DeleteType DEF Rests
<1>2. ASSUME NEW below \in Rests,
             Delete(k, Append(below, Frame("announce", k, store[k].value, undefined)))
      PROVE  DataOK'
  <2>1. store[k] \in Entries
    BY <1>2 DEF Delete, TypeInv, CacheTypeOK
  <2>2. Frame("announce", k, store[k].value, undefined) \in ProperFrames
    BY <2>1, FrameType DEF Entries
  <2>3. Append(below, Frame("announce", k, store[k].value, undefined)) \in Seq(ProperFrames)
    BY <2>2 DEF Rests
  <2> QED  BY <1>2, <2>3, DeleteType
<1> QED  BY <1>1, <1>2 DEF Removing

LEMMA AnnouncementType ==
    ASSUME TypeInv, Announcement
    PROVE  DataOK'
<1>1. ASSUME NEW below \in Rests, NEW k \in Stored, Announce(k, store[k].value, below)
      PROVE  DataOK'
  <2>1. k \in CacheKeys /\ store[k].value \in 1 .. MaxSets
    BY DEF TypeInv, CacheTypeOK, Stored, Entries
  <2> QED  BY <1>1, <2>1, AnnounceType DEF Rests
<1>2. CASE stack # <<>> /\ Last(stack).do = "announce"
           /\ Announce(Last(stack).key, Last(stack).value, Below)
  <2>1. Last(stack) \in ProperFrames /\ Below \in Seq(ProperFrames)
    BY <1>2, BelowType
  <2>2. Last(stack).key \in CacheKeys /\ Last(stack).value \in 1 .. MaxSets
    BY <1>2, <2>1 DEF ProperFrames, Proper
  <2> QED  BY <1>2, <2>1, <2>2, AnnounceType
<1> QED  BY <1>1, <1>2 DEF Announcement

LEMMA DataType ==
    ASSUME TypeInv, Effect
    PROVE  DataOK'
<1>1. CASE Quiet
  <2>1. DataOK
    BY TypeParts
  <2>2. Stored' = Stored
    BY <1>1 DEF Quiet, Stored
  <2>3. subscriber' \in [stats : AllStats(CacheKeys), times : 0 .. 2]
    <3>1. Heard("flush", undefined) \in [stats : AllStats(CacheKeys), times : 0 .. 2]
      BY HeardType DEF TypeInv
    <3> QED  BY <1>1, <2>1, <3>1, SubscriberType DEF Quiet, DataOK
  <2> QED  BY <1>1, <2>1, <2>2, <2>3 DEF Quiet, DataOK, Rests
<1>2. CASE \E below \in Rests, k \in CacheKeys, t \in Ttls : ~Full(k) /\ SetEntry(k, t, below)
  BY <1>2, SetEntryType
<1>3. CASE \E below \in Rests : Throw(below)
  BY <1>3, ThrowType
<1>4. CASE \E k \in CacheKeys : Removing(k)
  BY <1>4, RemovingType
<1>5. CASE Announcement
  BY <1>5, AnnouncementType
<1>6. CASE flushStats \/ flushAll
  BY <1>6, FlushType
<1>7. CASE stack # <<>> /\ (CountSet(Last(stack)) \/ CountDel(Last(stack)))
  BY <1>7, CountType
<1> QED  BY <1>1, <1>2, <1>3, <1>4, <1>5, <1>6, <1>7 DEF Effect

\* The options, the intervals and the clock.
LEMMA SettingsKept ==
    ASSUME TypeInv, CacheNext
    PROVE  SettingsOK' /\ UNCHANGED <<options, bounds>>
<1>1. SettingsOK
  BY TypeParts
<1>2. CASE UNCHANGED <<options, timers, bounds>> /\ now' \in {now, now + 1}
  BY <1>1, <1>2 DEF SettingsOK
<1>3. CASE StartInterval \/ StopInterval
  <2>1. timers.live \in Nat /\ (timers.known => timers.live - 1 \in Nat)
    BY <1>1 DEF SettingsOK
  <2>2. timers' \in [live : Nat, known : BOOLEAN] /\ (timers'.known => timers'.live > 0)
    <3>1. CASE StartInterval
      BY <2>1, <3>1 DEF StartInterval
    <3>2. CASE StopInterval
      <4>1. timers' = [live |-> timers.live - 1, known |-> FALSE] /\ timers.live - 1 \in Nat
        BY <2>1, <3>2 DEF StopInterval
      <4> QED  BY <4>1
    <3> QED  BY <1>3, <3>1, <3>2
  <2> QED  BY <1>1, <1>3, <2>2 DEF StartInterval, StopInterval, SettingsOK
<1>4. ASSUME NEW k \in CacheKeys, NEW t \in bounds.ttls, Set(k, t) \/ Ttl(k, t)
      PROVE  UNCHANGED <<options, timers, bounds>> /\ now' \in {now, now + 1}
  BY <1>4 DEF Set, Ttl, Rest
<1>5. ASSUME NEW k \in CacheKeys, Del(k) \/ Get(k) \/ Take(k) \/ TakeExpiring(k)
      PROVE  UNCHANGED <<options, timers, bounds>> /\ now' \in {now, now + 1}
  BY <1>5 DEF Del, Get, Take, TakeExpiring, Rest
<1>6. ASSUME NEW do, NEW ks, NEW t, Many(do, ks, t)
      PROVE  UNCHANGED <<options, timers, bounds>> /\ now' \in {now, now + 1}
  BY <1>6 DEF Many, Rest
<1>7. CASE flushStats \/ flushAll \/ Resume \/ CheckData \/ Subscriber \/ Tick
  <2>1. UNCHANGED <<options, timers, bounds>> /\ now' \in {now, now + 1}
    BY <1>7 DEF flushStats, flushAll, Resume, CheckData, Subscriber, Tick, Rest
  <2> QED  BY <1>2, <2>1
<1> QED  BY <1>2, <1>3, <1>4, <1>5, <1>6, <1>7 DEF CacheNext

LEMMA TypeStart == CacheInit => TypeInv
<1> SUFFICES ASSUME CacheInit PROVE TypeInv
  OBVIOUS
<1>1. options \in Options /\ bounds \in Bounds
  BY NodeCacheAssumption DEF CacheInit
<1>2. Stored = {}
  BY DEF CacheInit, Stored
<1>3. IsFiniteSet(Stored)
  BY <1>2, FS_EmptySet
<1>4. store \in [CacheKeys -> Entries \cup {undefined}]
  BY DEF CacheInit
<1>5. stats \in AllStats(CacheKeys) /\ stats.enabled
  BY NewStatsType DEF CacheInit, NewStats
<1>6. \A cap \in TrackedCaps : NewStats(TRUE, TRUE, cap) \in AllStats(CacheKeys)
  BY NewStatsType, NodeCacheAssumption
<1>7. subscriber \in [stats : AllStats(CacheKeys), times : 0 .. 2]
  <2>1. PICK cap \in TrackedCaps : subscriber = [stats |-> NewStats(TRUE, TRUE, cap), times |-> 0]
    BY DEF CacheInit
  <2>2. NewStats(TRUE, TRUE, cap) \in AllStats(CacheKeys)
    BY <1>6
  <2>3. \A s \in AllStats(CacheKeys) :
           [stats |-> s, times |-> 0] \in [stats : AllStats(CacheKeys), times : 0 .. 2]
    OBVIOUS
  <2>4. [stats |-> NewStats(TRUE, TRUE, cap), times |-> 0] \in [stats : AllStats(CacheKeys), times : 0 .. 2]
    BY <2>2, <2>3
  <2> QED  BY <2>1, <2>4
<1>8. stack = <<>> /\ sets \in 0 .. MaxSets /\ now \in Nat
  BY NodeCacheAssumption DEF CacheInit
<1>9. told \in [1 .. MaxSets -> 0 .. 2] /\ timers \in [live : Nat, known : BOOLEAN]
      /\ (timers.known => timers.live > 0) /\ sizes \in {"exact", "atMost", "unknown"}
  BY DEF CacheInit
<1>10. stack \in Seq(ProperFrames)
  BY <1>8
<1> QED
  BY <1>1, <1>3, <1>4, <1>5, <1>7, <1>8, <1>9, <1>10, TypeParts DEF DataOK, SettingsOK

LEMMA TypePartsNext == DataOK' /\ SettingsOK' => TypeInv'
BY TypeParts, PTL

LEMMA TypeStep == TypeInv /\ [CacheNext]_cacheVars => TypeInv'
<1>1. ASSUME TypeInv, CacheNext PROVE TypeInv'
  <2>1. DataOK' /\ SettingsOK'
    BY <1>1, StepEffect, DataType, SettingsKept
  <2> QED  BY <2>1, TypePartsNext
<1>2. ASSUME TypeInv, UNCHANGED cacheVars PROVE TypeInv'
  BY <1>2 DEF cacheVars, TypeInv, CacheTypeOK, Stored
<1> QED  BY <1>1, <1>2

\* The fields of NodeCache and of its two Stats keep their types, whatever
\* listeners call in the middle of an operation.
THEOREM CacheTyping == CacheSpec => []CacheTypeOK
<1>1. TypeInv => CacheTypeOK
  BY DEF TypeInv
<1> QED  BY <1>1, TypeStart, TypeStep, PTL DEF CacheSpec

-----------------------------------------------------------------------------
(* Announcements of expiry                                                 *)

\* The announcements that a stack still owes for a value.
Announcements(fs, v) == {i \in DOMAIN fs : fs[i].do = "announce" /\ fs[i].value = v}

LEMMA RestAnnouncements ==
    ASSUME NEW fs \in Rests, NEW v, TypeInv
    PROVE  Announcements(fs, v) = Announcing(v)
BY DEF Rests, Alike, Pending, Telling, Announcements, Announcing

LEMMA AppendedAnnouncements ==
    ASSUME NEW fs \in Seq(ProperFrames), NEW f \in ProperFrames, NEW v
    PROVE  Announcements(Append(fs, f), v) =
              Announcements(fs, v) \cup
                 IF f.do = "announce" /\ f.value = v THEN {Len(fs) + 1} ELSE {}
<1>1. DOMAIN Append(fs, f) = 1 .. (Len(fs) + 1) /\ DOMAIN fs = 1 .. Len(fs) /\ Len(fs) \in Nat
  OBVIOUS
<1>2. Append(fs, f)[Len(fs) + 1] = f /\ \A i \in 1 .. Len(fs) : Append(fs, f)[i] = fs[i]
  OBVIOUS
<1> QED  BY <1>1, <1>2 DEF Announcements

LEMMA OtherAppended ==
    ASSUME NEW fs \in Seq(ProperFrames), NEW f \in ProperFrames, f.do # "announce", NEW v
    PROVE  Announcements(Append(fs, f), v) = Announcements(fs, v)
<1>1. (IF f.do = "announce" /\ f.value = v THEN {Len(fs) + 1} ELSE {}) = {}
  OBVIOUS
<1>2. Announcements(Append(fs, f), v) = Announcements(fs, v) \cup {}
  BY <1>1, AppendedAnnouncements
<1> QED  BY <1>2

LEMMA ReturnAnnouncements ==
    ASSUME NEW fs \in Seq(ProperFrames), NEW v
    PROVE  Announcements(Return(fs), v) = Announcements(fs, v)
<1>1. Frame("return", undefined, undefined, undefined) \in ProperFrames
      /\ Frame("return", undefined, undefined, undefined).do # "announce"
  BY FrameType DEF Telling, Frame
<1>2. CASE fs = <<>>
  BY <1>2 DEF Return
<1>3. CASE fs # <<>>
  BY <1>1, <1>3, OtherAppended DEF Return
<1> QED  BY <1>2, <1>3

LEMMA BelowAnnouncements ==
    ASSUME TypeInv, stack # <<>>, NEW v
    PROVE  Announcements(Below, v) = Announcing(v) \ {Len(stack)}
BY BelowType, StackType DEF Announcements, Announcing

LEMMA NextAnnouncements ==
    ASSUME NEW v
    PROVE  Announcing(v)' = Announcements(stack', v)
BY DEF Announcing, Announcements

\* Values that go from the store, or announcements that are dropped.
LEMMA ExpiryKept ==
    ASSUME TypeInv, ExpiryInv, UNCHANGED <<options, told, sets>>,
           \A v : Announcements(stack', v) \subseteq Announcing(v),
           \A k \in Stored' : k \in Stored /\ store'[k].value = store[k].value
    PROVE  ExpiryInv'
<1>1. \A v : Announcing(v)' \subseteq Announcing(v)
  BY DEF Announcing, Announcements
<1> QED  BY <1>1 DEF ExpiryInv

LEMMA ExpirySet ==
    ASSUME TypeInv, ExpiryInv, UNCHANGED options,
           NEW below \in Rests, NEW k \in CacheKeys, NEW t \in Ttls, SetEntry(k, t, below)
    PROVE  ExpiryInv'
<1> SUFFICES ASSUME options.deleteOnExpire PROVE ExpiryInv'
  BY DEF ExpiryInv
<1> DEFINE old == IF store[k] = undefined THEN undefined ELSE store[k].value
           ahead == IF old # undefined THEN below ELSE Unseen(below, k)
           f == Frame("countSet", k, sets + 1, old)
<1>1. DataOK
  BY TypeParts
<1>2. sets + 1 \in 1 .. MaxSets /\ sets' = sets + 1 /\ told' = told /\ sets \in Nat
  BY <1>1, NodeCacheAssumption DEF SetEntry, DataOK
<1>3. old \in 1 .. MaxSets \cup {undefined}
  BY <1>1 DEF DataOK, Entries
<1>4. f \in ProperFrames /\ f.do = "countSet"
  <2> HIDE DEF old
  <2>1. Frame("countSet", k, sets + 1, old) \in ProperFrames
    BY <1>2, <1>3, FrameType
  <2> QED  BY <2>1 DEF Frame
<1>5. ahead \in Rests
  BY UnseenRest
<1>6. stack' = Append(ahead, f)
  BY DEF SetEntry, Unseen
<1> HIDE DEF ahead, f, old
<1>7. \A v : Announcing(v)' = Announcing(v)
  <2> TAKE v
  <2>1. ahead \in Seq(ProperFrames) /\ f.do # "announce"
    BY <1>4, <1>5 DEF Rests
  <2>2. Announcements(stack', v) = Announcements(ahead, v)
    BY <1>4, <1>6, <2>1, OtherAppended
  <2>3. Announcements(ahead, v) = Announcing(v)
    BY <1>5, RestAnnouncements
  <2> QED  BY <2>2, <2>3, NextAnnouncements
<1>8. store' = [store EXCEPT ![k] = [value |-> sets + 1, ttl |-> Expiration(t)]]
      /\ store \in [CacheKeys -> Entries \cup {undefined}]
  BY <1>1 DEF SetEntry, DataOK
<1>9. store'[k].value = sets + 1 /\ \A j \in CacheKeys \ {k} : store'[j] = store[j]
  BY <1>8
<1>10. Stored' \subseteq Stored \cup {k}
  BY <1>9 DEF Stored
<1>11. \A j \in Stored' : j \in CacheKeys /\ (j # k => j \in Stored /\ store'[j].value = store[j].value)
  BY <1>9, <1>10 DEF Stored
<1>12. \A j \in Stored : store[j].value <= sets /\ store[j].value \in Nat
  BY <1>1 DEF ExpiryInv, Stored, DataOK, Entries
<1>13. \A j \in Stored' : store'[j].value <= sets' /\ (j # k => store'[j].value # sets + 1)
  BY <1>2, <1>9, <1>11, <1>12
<1>14. \A i, j \in Stored' : store'[i].value = store'[j].value => i = j
  BY <1>9, <1>11, <1>13 DEF ExpiryInv
<1>15. ASSUME NEW v \in 1 .. MaxSets, Announcing(v) # {} \/ told[v] # 0
       PROVE  v <= sets' /\ \A j \in Stored' : store'[j].value # v
  <2>1. v <= sets /\ \A j \in Stored : store[j].value # v
    BY <1>15 DEF ExpiryInv
  <2> QED  BY <1>2, <1>9, <1>11, <2>1
<1>16. options'.deleteOnExpire
  OBVIOUS
<1> QED  BY <1>2, <1>7, <1>13, <1>14, <1>15 DEF ExpiryInv

LEMMA ExpiryRemoving ==
    ASSUME TypeInv, ExpiryInv, UNCHANGED options, NEW k \in CacheKeys, Removing(k)
    PROVE  ExpiryInv'
<1>1. DataOK
  BY TypeParts
<1>2. ASSUME NEW below \in Seq(ProperFrames), Delete(k, below)
      PROVE  /\ \A v : Announcements(stack', v) = Announcements(below, v)
             /\ k \in Stored /\ k \notin Stored' /\ UNCHANGED <<told, sets>>
             /\ \A j \in Stored' : j \in Stored /\ store'[j].value = store[j].value
  <2> DEFINE f == Frame("countDel", k, store[k].value, undefined)
  <2>1. store[k].value \in 1 .. MaxSets
    BY <1>1, <1>2 DEF Delete, DataOK, Entries
  <2>2. f \in ProperFrames /\ f.do = "countDel" /\ stack' = Append(below, f)
    <3>1. Frame("countDel", k, store[k].value, undefined) \in ProperFrames
      BY <2>1, FrameType
    <3> QED  BY <1>2, <3>1 DEF Frame, Delete
  <2> HIDE DEF f
  <2>3. \A v : Announcements(stack', v) = Announcements(below, v)
    <3> TAKE v
    <3>1. f.do # "announce"
      BY <2>2
    <3>2. Announcements(Append(below, f), v) = Announcements(below, v)
      BY <2>2, <3>1, OtherAppended
    <3> QED  BY <2>2, <3>2
  <2>4. store' = [store EXCEPT ![k] = undefined] /\ store[k] # undefined
        /\ store \in [CacheKeys -> Entries \cup {undefined}]
    BY <1>1, <1>2 DEF Delete, DataOK
  <2> QED  BY <1>2, <2>3, <2>4 DEF Delete, Stored
<1>3. ASSUME NEW below \in Rests, Delete(k, below)
      PROVE  ExpiryInv'
  <2>1. \A v : Announcements(stack', v) = Announcing(v)
    BY <1>2, <1>3, RestAnnouncements DEF Rests
  <2> QED  BY <1>2, <1>3, <2>1, ExpiryKept DEF Rests
<1>4. ASSUME NEW below \in Rests, options.deleteOnExpire,
             Delete(k, Append(below, Frame("announce", k, store[k].value, undefined)))
      PROVE  ExpiryInv'
  <2> DEFINE w == store[k].value
             f == Frame("announce", k, w, undefined)
  <2>1. w \in 1 .. MaxSets
    BY <1>1, <1>4 DEF Delete, DataOK, Entries
  <2>2. f \in ProperFrames /\ f.do = "announce" /\ f.value = w
    <3>1. Frame("announce", k, w, undefined) \in ProperFrames
      BY <2>1, FrameType
    <3> QED  BY <3>1 DEF Frame
  <2> HIDE DEF f
  <2>3. Append(below, f) \in Seq(ProperFrames) /\ Delete(k, Append(below, f))
    BY <1>4, <2>2 DEF Rests, f
  <2>4. /\ \A v : Announcements(stack', v) = Announcements(Append(below, f), v)
        /\ k \in Stored /\ k \notin Stored' /\ UNCHANGED <<told, sets>>
        /\ \A j \in Stored' : j \in Stored /\ store'[j].value = store[j].value
    BY <1>2, <2>3
  <2>5. ASSUME NEW v
        PROVE  Announcing(v)' = Announcing(v) \cup IF v = w THEN {Len(below) + 1} ELSE {}
    <3>1. Announcements(Append(below, f), v) = Announcements(below, v) \cup
                IF v = w THEN {Len(below) + 1} ELSE {}
      BY <2>2, AppendedAnnouncements DEF Rests
    <3>2. Announcements(below, v) = Announcing(v)
      BY RestAnnouncements
    <3>3. Announcing(v)' = Announcements(Append(below, f), v)
      BY <2>4, NextAnnouncements
    <3> QED  BY <3>1, <3>2, <3>3
  <2>6. Announcing(w) = {} /\ told[w] = 0 /\ w <= sets
    BY <1>4, <2>1, <2>4 DEF ExpiryInv
  <2>7. \A j \in Stored' : store'[j].value # w
    BY <1>4, <2>4 DEF ExpiryInv
  <2> HIDE DEF w
  <2> QED  BY <1>4, <2>1, <2>4, <2>5, <2>6, <2>7 DEF ExpiryInv
<1> QED  BY <1>3, <1>4 DEF Removing

LEMMA ExpiryAnnounced ==
    ASSUME TypeInv, ExpiryInv, UNCHANGED options, Announcement
    PROVE  ExpiryInv'
<1> SUFFICES ASSUME options.deleteOnExpire PROVE ExpiryInv'
  BY DEF ExpiryInv
<1> DEFINE w == Last(stack).value
           n == Len(stack)
<1>1. stack # <<>> /\ Last(stack).do = "announce" /\ Announce(Last(stack).key, w, Below)
  BY DEF Announcement
<1>2. Last(stack) \in ProperFrames /\ Below \in Seq(ProperFrames) /\ n \in DOMAIN stack
      /\ Last(stack) = stack[n]
  BY <1>1, BelowType, StackType DEF Last
<1>3. w \in 1 .. MaxSets /\ n \in Announcing(w)
  BY <1>1, <1>2 DEF ProperFrames, Proper, Announcing
<1>4. told[w] = 0 /\ told \in [1 .. MaxSets -> 0 .. 2]
  BY <1>3, TypeParts DEF ExpiryInv, DataOK
<1>5. told' = [told EXCEPT ![w] = 1] /\ UNCHANGED <<store, sets>> /\ stack' = Return(Below)
  BY <1>1, <1>4 DEF Announce
<1> HIDE DEF w
<1>6. \A v : Announcing(v)' = Announcing(v) \ {n}
  <2> TAKE v
  <2>1. Announcements(stack', v) = Announcements(Below, v)
    BY <1>2, <1>5, ReturnAnnouncements
  <2>2. Announcements(Below, v) = Announcing(v) \ {n}
    BY <1>1, BelowAnnouncements
  <2> QED  BY <2>1, <2>2, NextAnnouncements
<1>7. \A v \in 1 .. MaxSets : v = w => Announcing(v)' = {}
  BY <1>3, <1>6 DEF ExpiryInv
<1>8. \A v \in 1 .. MaxSets : told'[v] = IF v = w THEN 1 ELSE told[v]
  BY <1>4, <1>5
<1>9. Stored' = Stored
  BY <1>5 DEF Stored
<1>10. w <= sets /\ \A j \in Stored : store[j].value # w
  BY <1>3 DEF ExpiryInv
<1> QED  BY <1>3, <1>5, <1>6, <1>7, <1>8, <1>9, <1>10 DEF ExpiryInv

LEMMA ExpiryEffect ==
    ASSUME TypeInv, ExpiryInv, UNCHANGED options, Effect
    PROVE  ExpiryInv'
<1>1. CASE Quiet
  <2>1. \A v : Announcements(stack', v) = Announcing(v)
    BY <1>1, RestAnnouncements DEF Quiet
  <2>2. \A k \in Stored' : k \in Stored /\ store'[k].value = store[k].value
    BY <1>1 DEF Quiet, Stored
  <2> QED  BY <1>1, <2>1, <2>2, ExpiryKept DEF Quiet
<1>2. CASE \E below \in Rests, k \in CacheKeys, t \in Ttls : ~Full(k) /\ SetEntry(k, t, below)
  BY <1>2, ExpirySet
<1>3. ASSUME NEW below \in Rests, Throw(below) PROVE ExpiryInv'
  <2>1. \A v : Announcements(below, v) = Announcing(v) /\ Announcements(<<>>, v) = {}
    BY RestAnnouncements DEF Announcements
  <2>2. stack' = below \/ stack' = <<>>
    BY <1>3 DEF Throw
  <2>3. \A v : Announcements(stack', v) \subseteq Announcing(v)
    BY <2>1, <2>2
  <2>4. \A k \in Stored' : k \in Stored /\ store'[k].value = store[k].value
    BY <1>3 DEF Throw, Stored
  <2> QED  BY <1>3, <2>3, <2>4, ExpiryKept DEF Throw
<1>4. CASE \E k \in CacheKeys : Removing(k)
  BY <1>4, ExpiryRemoving
<1>5. CASE Announcement
  BY <1>5, ExpiryAnnounced
<1>6. CASE flushStats \/ flushAll
  <2>1. \A v : Announcements(stack', v) = Announcing(v)
    BY <1>6, FlushRest, RestAnnouncements
  <2>2. \A k \in Stored' : k \in Stored /\ store'[k].value = store[k].value
    BY <1>6 DEF flushStats, flushAll, Stored
  <2> QED  BY <1>6, <2>1, <2>2, FlushRest, ExpiryKept
<1>7. CASE stack # <<>> /\ (CountSet(Last(stack)) \/ CountDel(Last(stack)))
  <2>1. stack' = Below /\ UNCHANGED <<store, sets, told>>
    BY <1>7 DEF CountSet, CountDel
  <2>2. \A v : Announcements(stack', v) \subseteq Announcing(v)
    BY <1>7, <2>1, BelowAnnouncements
  <2>3. \A k \in Stored' : k \in Stored /\ store'[k].value = store[k].value
    BY <2>1 DEF Stored
  <2> QED  BY <2>1, <2>2, <2>3, ExpiryKept
<1> QED  BY <1>1, <1>2, <1>3, <1>4, <1>5, <1>6, <1>7 DEF Effect

\* With deleteOnExpire NodeCache announces no value's expiry twice, nor while
\* the value is stored, whoever meets it: get, has, take, mget or the interval.
THEOREM ToldOnce == CacheSpec => []ExpiryToldOnce
<1>1. CacheInit => ExpiryInv
  BY DEF CacheInit, ExpiryInv, Announcing, Stored
<1>2. ASSUME TypeInv, ExpiryInv, [CacheNext]_cacheVars PROVE ExpiryInv'
  <2>1. CASE CacheNext
    BY <1>2, <2>1, StepEffect, SettingsKept, ExpiryEffect
  <2>2. CASE UNCHANGED cacheVars
    BY <1>2, <2>2 DEF cacheVars, ExpiryInv, Announcing, Stored
  <2> QED  BY <1>2, <2>1, <2>2
<1>3. ExpiryInv => ExpiryToldOnce
  BY DEF ExpiryInv, ExpiryToldOnce
<1> QED  BY <1>1, <1>2, <1>3, TypeStart, TypeStep, PTL DEF CacheSpec

-----------------------------------------------------------------------------
(* Sizes and count                                                         *)

\* Stacks on which the same operations have still to count.
CountRests ==
    {fs \in Seq(ProperFrames) :
        /\ Pending(fs, Counting) = Pending(stack, Counting)
        /\ \A i \in Pending(stack, Counting) :
              /\ fs[i].do = stack[i].do /\ fs[i].key = stack[i].key
              /\ fs[i].value = stack[i].value /\ fs[i].old = stack[i].old}

LEMMA RestCounts ==
    ASSUME TypeInv, NEW fs \in Rests
    PROVE  fs \in CountRests
BY DEF Rests, Alike, Pending, Telling, Counting, CountRests

LEMMA AppendedPending ==
    ASSUME NEW fs \in Seq(ProperFrames), NEW f \in ProperFrames
    PROVE  /\ f.do \in Counting => Pending(Append(fs, f), Counting) = Pending(fs, Counting) \cup {Len(fs) + 1}
           /\ f.do \notin Counting => Pending(Append(fs, f), Counting) = Pending(fs, Counting)
           /\ f.do = "countSet" =>
                 Pending(Append(fs, f), {"countSet"}) = Pending(fs, {"countSet"}) \cup {Len(fs) + 1}
           /\ f.do # "countSet" => Pending(Append(fs, f), {"countSet"}) = Pending(fs, {"countSet"})
           /\ \A i \in 1 .. Len(fs) : Append(fs, f)[i] = fs[i]
           /\ Append(fs, f)[Len(fs) + 1] = f
           /\ Pending(fs, Counting) \subseteq 1 .. Len(fs) /\ Pending(fs, {"countSet"}) \subseteq 1 .. Len(fs)
           /\ Len(fs) + 1 \notin 1 .. Len(fs)
<1>1. DOMAIN Append(fs, f) = 1 .. (Len(fs) + 1) /\ DOMAIN fs = 1 .. Len(fs) /\ Len(fs) \in Nat
  OBVIOUS
<1>2. Append(fs, f)[Len(fs) + 1] = f /\ \A i \in 1 .. Len(fs) : Append(fs, f)[i] = fs[i]
  OBVIOUS
<1>3. \A what : /\ f.do \in what => Pending(Append(fs, f), what) = Pending(fs, what) \cup {Len(fs) + 1}
                /\ f.do \notin what => Pending(Append(fs, f), what) = Pending(fs, what)
                /\ Pending(fs, what) \subseteq 1 .. Len(fs)
  BY <1>1, <1>2 DEF Pending
<1>4. /\ f.do \in Counting => Pending(Append(fs, f), Counting) = Pending(fs, Counting) \cup {Len(fs) + 1}
      /\ f.do \notin Counting => Pending(Append(fs, f), Counting) = Pending(fs, Counting)
      /\ Pending(fs, Counting) \subseteq 1 .. Len(fs)
  BY <1>3, Zenon
<1>5. Len(fs) + 1 \notin 1 .. Len(fs)
  BY <1>1
<1> QED  BY <1>2, <1>3, <1>4, <1>5

LEMMA AppendedCounts ==
    ASSUME NEW fs \in CountRests, NEW f \in ProperFrames, f.do \notin Counting
    PROVE  Append(fs, f) \in CountRests
<1>1. fs \in Seq(ProperFrames) /\ Append(fs, f) \in Seq(ProperFrames)
  BY DEF CountRests
<1>2. Pending(Append(fs, f), Counting) = Pending(fs, Counting)
      /\ \A i \in Pending(fs, Counting) : Append(fs, f)[i] = fs[i]
  BY <1>1, AppendedPending
<1> QED  BY <1>1, <1>2 DEF CountRests

LEMMA ReturnCounts ==
    ASSUME NEW fs \in CountRests
    PROVE  Return(fs) \in CountRests
<1>1. Frame("return", undefined, undefined, undefined) \in ProperFrames
      /\ Frame("return", undefined, undefined, undefined).do \notin Counting
  BY FrameType DEF Telling, Frame, Counting
<1> QED  BY <1>1, AppendedCounts DEF Return

LEMMA PoppedCounts ==
    ASSUME TypeInv, stack # <<>>, Last(stack).do \notin Counting
    PROVE  Below \in CountRests
BY BelowType, StackType DEF CountRests, Pending, Last

LEMMA StackSplit ==
    ASSUME TypeInv, stack # <<>>
    PROVE  stack = Append(Below, Last(stack))
<1>1. Append(Below, Last(stack)) \in Seq(ProperFrames) /\ stack \in Seq(ProperFrames)
  BY BelowType, StackType
<1>2. Len(Append(Below, Last(stack))) = Len(stack)
  BY BelowType
<1>3. ASSUME NEW i \in 1 .. Len(stack) PROVE Append(Below, Last(stack))[i] = stack[i]
  BY BelowType DEF Last
<1> QED  BY <1>1, <1>2, <1>3, SeqEqual

LEMMA FinitePending ==
    ASSUME NEW fs \in Seq(ProperFrames), NEW what
    PROVE  IsFiniteSet(Pending(fs, what))
<1>1. Pending(fs, what) \subseteq 1 .. Len(fs) /\ Len(fs) \in Int
  BY DEF Pending
<1> QED  BY <1>1, FS_Interval, FS_Subset

\* What an operation will take off.
LEMMA WeightType ==
    ASSUME NEW f \in ProperFrames, f.do \in Counting
    PROVE  KeyWeight(f) \in Nat /\ ValueWeight(f) \in Nat
<1>1. f.key \in CacheKeys /\ f.value \in 1 .. MaxSets /\ f.old \in 1 .. MaxSets \cup {undefined}
  BY DEF ProperFrames, Proper, Frames, Counting
<1> QED  BY <1>1, NodeCacheAssumption DEF KeyWeight, ValueWeight

LEMMA WeightsType ==
    ASSUME NEW fs \in Seq(ProperFrames)
    PROVE  /\ \A i \in Pending(fs, Counting) : KeyWeight(fs[i]) \in Nat /\ ValueWeight(fs[i]) \in Nat
           /\ KeysOwed(fs) \in Nat /\ ValuesOwed(fs) \in Nat
<1>1. \A i \in Pending(fs, Counting) : KeyWeight(fs[i]) \in Nat /\ ValueWeight(fs[i]) \in Nat
  BY WeightType DEF Pending
<1>2. IsFiniteSet(Pending(fs, Counting))
  BY FinitePending
<1> DEFINE P == Pending(fs, Counting)
           g == [i \in P |-> KeyWeight(fs[i])]
           h == [i \in P |-> ValueWeight(fs[i])]
<1>3. \A i \in P : g[i] \in Nat /\ h[i] \in Nat
  BY <1>1
<1>4. KeysOwed(fs) = SumFunctionOnSet(g, P) /\ ValuesOwed(fs) = SumFunctionOnSet(h, P)
  BY DEF KeysOwed, ValuesOwed
<1> HIDE DEF g, h, P
<1>5. SumFunctionOnSet(g, P) \in Nat /\ SumFunctionOnSet(h, P) \in Nat
  BY <1>2, <1>3, SumType DEF P
<1> QED  BY <1>1, <1>4, <1>5

LEMMA OwedAppended ==
    ASSUME NEW fs \in Seq(ProperFrames), NEW f \in ProperFrames, f.do \in Counting
    PROVE  /\ KeysOwed(Append(fs, f)) = KeysOwed(fs) + KeyWeight(f)
           /\ ValuesOwed(Append(fs, f)) = ValuesOwed(fs) + ValueWeight(f)
<1> DEFINE gs == Append(fs, f)
           n == Len(fs) + 1
           P == Pending(fs, Counting)
           Q == Pending(gs, Counting)
           kf == [i \in P |-> KeyWeight(fs[i])]
           kg == [i \in Q |-> KeyWeight(gs[i])]
           vf == [i \in P |-> ValueWeight(fs[i])]
           vg == [i \in Q |-> ValueWeight(gs[i])]
<1>1. gs \in Seq(ProperFrames)
  OBVIOUS
<1>2. Q = P \cup {n} /\ n \notin P /\ gs[n] = f /\ \A i \in P : gs[i] = fs[i]
  BY AppendedPending
<1>3. IsFiniteSet(P) /\ IsFiniteSet(Q)
  BY <1>1, FinitePending
<1>4. \A i \in Q : KeyWeight(gs[i]) \in Nat /\ ValueWeight(gs[i]) \in Nat
  BY <1>1, WeightsType
<1>5. KeysOwed(fs) = SumFunctionOnSet(kf, P) /\ ValuesOwed(fs) = SumFunctionOnSet(vf, P)
      /\ KeysOwed(gs) = SumFunctionOnSet(kg, Q) /\ ValuesOwed(gs) = SumFunctionOnSet(vg, Q)
  BY DEF KeysOwed, ValuesOwed
<1> HIDE DEF gs, n, P, Q
<1>6. \A i \in Q : kg[i] \in Nat /\ vg[i] \in Nat
  BY <1>4
<1>7. kg[n] = KeyWeight(f) /\ vg[n] = ValueWeight(f)
  BY <1>2
<1>8. \A i \in P : kg[i] = kf[i] /\ vg[i] = vf[i] /\ kg[i] \in Nat /\ vg[i] \in Nat
  BY <1>2, <1>4
<1>9. Q \ {n} = P /\ n \in Q
  BY <1>2
<1> HIDE DEF kf, kg, vf, vg
<1>10. SumFunctionOnSet(kg, Q) = kg[n] + SumFunctionOnSet(kg, P)
       /\ SumFunctionOnSet(vg, Q) = vg[n] + SumFunctionOnSet(vg, P)
  BY <1>3, <1>6, <1>9, SumWithout
<1>11. SumFunctionOnSet(kg, P) = SumFunctionOnSet(kf, P)
       /\ SumFunctionOnSet(vg, P) = SumFunctionOnSet(vf, P)
  BY <1>3, <1>8, SumSame
<1>12. SumFunctionOnSet(kg, P) \in Nat /\ SumFunctionOnSet(vg, P) \in Nat
  BY <1>3, <1>8, SumType
<1>13. kg[n] \in Nat /\ vg[n] \in Nat
  BY <1>6, <1>9
<1>14. KeysOwed(gs) = KeysOwed(fs) + KeyWeight(f) /\ ValuesOwed(gs) = ValuesOwed(fs) + ValueWeight(f)
  BY <1>5, <1>7, <1>10, <1>11, <1>12, <1>13
<1> QED  BY <1>14 DEF gs

\* A stack on which the same has to count owes the same.
LEMMA OwedSame ==
    ASSUME TypeInv, NEW fs \in CountRests
    PROVE  /\ KeysOwed(fs) = KeysOwed(stack) /\ ValuesOwed(fs) = ValuesOwed(stack)
           /\ UncountedKeys(fs) = UncountedKeys(stack)
           /\ \A i \in Pending(stack, {"countSet"}) :
                 fs[i].key = stack[i].key /\ fs[i].value = stack[i].value
           /\ Pending(fs, {"countSet"}) = Pending(stack, {"countSet"})
<1> DEFINE P == Pending(stack, Counting)
           kf == [i \in P |-> KeyWeight(fs[i])]
           kg == [i \in P |-> KeyWeight(stack[i])]
           vf == [i \in P |-> ValueWeight(fs[i])]
           vg == [i \in P |-> ValueWeight(stack[i])]
<1>1. stack \in Seq(ProperFrames) /\ fs \in Seq(ProperFrames) /\ Pending(fs, Counting) = P
      /\ \A i \in P : /\ fs[i].do = stack[i].do /\ fs[i].key = stack[i].key
                      /\ fs[i].value = stack[i].value /\ fs[i].old = stack[i].old
  BY StackType DEF CountRests
<1>2. IsFiniteSet(P)
  BY <1>1, FinitePending
<1>3. \A i \in P : KeyWeight(stack[i]) \in Nat /\ ValueWeight(stack[i]) \in Nat
  BY <1>1, WeightsType
<1>4. \A i \in P : KeyWeight(fs[i]) = KeyWeight(stack[i]) /\ ValueWeight(fs[i]) = ValueWeight(stack[i])
  <2> HIDE DEF P
  <2> QED  BY <1>1 DEF KeyWeight, ValueWeight
<1>5. KeysOwed(fs) = SumFunctionOnSet(kf, P) /\ ValuesOwed(fs) = SumFunctionOnSet(vf, P)
      /\ KeysOwed(stack) = SumFunctionOnSet(kg, P) /\ ValuesOwed(stack) = SumFunctionOnSet(vg, P)
  BY <1>1 DEF KeysOwed, ValuesOwed
<1>6. \A i \in P : /\ kf[i] \in Nat /\ kf[i] = kg[i]
                   /\ vf[i] \in Nat /\ vf[i] = vg[i]
  BY <1>3, <1>4
<1>7. Pending(fs, {"countSet"}) = Pending(stack, {"countSet"}) /\ Pending(stack, {"countSet"}) \subseteq P
  BY <1>1 DEF Pending, Counting
<1>8. UncountedKeys(fs) = UncountedKeys(stack)
  BY <1>1, <1>7 DEF UncountedKeys
<1> HIDE DEF kf, kg, vf, vg, P
<1>9. SumFunctionOnSet(kf, P) = SumFunctionOnSet(kg, P) /\ SumFunctionOnSet(vf, P) = SumFunctionOnSet(vg, P)
  BY <1>2, <1>6, SumSame
<1> QED  BY <1>1, <1>5, <1>7, <1>8, <1>9

Stores == {st \in [CacheKeys -> Entries \cup {undefined}] : IsFiniteSet(StoredIn(st))}

LEMMA StoresType ==
    ASSUME TypeInv
    PROVE  store \in Stores /\ StoredIn(store) = Stored
BY DEF TypeInv, CacheTypeOK, Stores, StoredIn, Stored

LEMMA SizeType ==
    ASSUME NEW st \in Stores, NEW k \in StoredIn(st)
    PROVE  /\ KeySize[k] \in Nat /\ ValueSizes(st)[k] \in Nat
           /\ ValueSizes(st)[k] = ValueSize[st[k].value] /\ st[k].value \in 1 .. MaxSets
<1>1. k \in CacheKeys /\ st[k] \in Entries
  BY DEF Stores, StoredIn
<1>2. st[k].value \in 1 .. MaxSets
  BY <1>1 DEF Entries
<1> QED  BY <1>1, <1>2, NodeCacheAssumption DEF ValueSizes

LEMMA CountedSums ==
    ASSUME NEW st \in Stores, NEW C \in SUBSET StoredIn(st)
    PROVE  /\ IsFiniteSet(C)
           /\ SumFunctionOnSet(KeySize, C) \in Nat /\ SumFunctionOnSet(ValueSizes(st), C) \in Nat
           /\ \A k \in C :
                 /\ SumFunctionOnSet(KeySize, C) = KeySize[k] + SumFunctionOnSet(KeySize, C \ {k})
                 /\ SumFunctionOnSet(ValueSizes(st), C) =
                       ValueSizes(st)[k] + SumFunctionOnSet(ValueSizes(st), C \ {k})
<1>1. IsFiniteSet(C)
  BY FS_Subset DEF Stores
<1>2. \A k \in C : KeySize[k] \in Nat /\ ValueSizes(st)[k] \in Nat
  BY SizeType
<1>3. SumFunctionOnSet(KeySize, C) \in Nat /\ SumFunctionOnSet(ValueSizes(st), C) \in Nat
  BY <1>1, <1>2, SumType
<1>4. ASSUME NEW k \in C
      PROVE  /\ SumFunctionOnSet(KeySize, C) = KeySize[k] + SumFunctionOnSet(KeySize, C \ {k})
             /\ SumFunctionOnSet(ValueSizes(st), C) =
                   ValueSizes(st)[k] + SumFunctionOnSet(ValueSizes(st), C \ {k})
  BY <1>1, <1>2, SumWithout
<1> QED  BY <1>1, <1>3, <1>4

\* Stores that hold the same values of some keys.
LEMMA ValueSumsSame ==
    ASSUME NEW st \in Stores, NEW su \in Stores, NEW C \in SUBSET StoredIn(st),
           \A k \in C : k \in StoredIn(su) /\ su[k].value = st[k].value
    PROVE  SumFunctionOnSet(ValueSizes(su), C) = SumFunctionOnSet(ValueSizes(st), C)
<1>1. IsFiniteSet(C)
  BY CountedSums
<1>2. \A k \in C : ValueSizes(su)[k] \in Nat /\ ValueSizes(su)[k] = ValueSizes(st)[k]
  BY SizeType
<1> QED  BY <1>1, <1>2, SumSame

LEMMA DueType ==
    ASSUME NEW st \in Stores, NEW fs \in Seq(ProperFrames)
    PROVE  /\ SumFunctionOnSet(KeySize, Counted(st, fs)) \in Nat /\ KeysOwed(fs) \in Nat
           /\ SumFunctionOnSet(ValueSizes(st), Counted(st, fs)) \in Nat /\ ValuesOwed(fs) \in Nat
           /\ KeysDue(st, fs) \in Nat /\ ValuesDue(st, fs) \in Nat
           /\ IsFiniteSet(Counted(st, fs))
<1>1. Counted(st, fs) \in SUBSET StoredIn(st)
  BY DEF Counted
<1>2. KeysOwed(fs) \in Nat /\ ValuesOwed(fs) \in Nat
  BY WeightsType
<1>3. /\ SumFunctionOnSet(KeySize, Counted(st, fs)) \in Nat
      /\ SumFunctionOnSet(ValueSizes(st), Counted(st, fs)) \in Nat
      /\ IsFiniteSet(Counted(st, fs))
  BY <1>1, CountedSums
<1> QED  BY <1>2, <1>3 DEF KeysDue, ValuesDue

\* Where the same is stored and the same has to count, the same is due.
LEMMA DueSame ==
    ASSUME TypeInv, NEW st \in Stores, NEW fs \in CountRests,
           \A k \in CacheKeys : /\ st[k] = undefined <=> store[k] = undefined
                                /\ st[k].value = store[k].value
    PROVE  /\ KeysDue(st, fs) = KeysDue(store, stack) /\ ValuesDue(st, fs) = ValuesDue(store, stack)
           /\ Fitting(store, stack) => Fitting(st, fs)
           /\ StoredIn(st) = Stored
<1>1. store \in Stores /\ StoredIn(store) = Stored /\ stack \in Seq(ProperFrames)
  BY StoresType, StackType
<1>2. StoredIn(st) = StoredIn(store)
  BY DEF StoredIn
<1>3. Counted(st, fs) = Counted(store, stack) /\ Counted(store, stack) \in SUBSET StoredIn(store)
  BY <1>2, OwedSame DEF Counted
<1>4. SumFunctionOnSet(ValueSizes(st), Counted(store, stack))
        = SumFunctionOnSet(ValueSizes(store), Counted(store, stack))
  <2>1. \A k \in Counted(store, stack) : k \in StoredIn(st) /\ st[k].value = store[k].value
    BY <1>2, <1>3 DEF StoredIn
  <2> QED  BY <1>1, <1>3, <2>1, ValueSumsSame
<1>5. KeysDue(st, fs) = KeysDue(store, stack) /\ ValuesDue(st, fs) = ValuesDue(store, stack)
  BY <1>3, <1>4, OwedSame DEF KeysDue, ValuesDue
<1>6. Fitting(store, stack) => Fitting(st, fs)
  BY <1>2, OwedSame DEF Fitting, StoredIn
<1> QED  BY <1>1, <1>2, <1>5, <1>6

\* Nothing is due of an empty store on which nothing has to count.
LEMMA NothingDue ==
    ASSUME NEW st \in Stores, NEW fs \in Seq(ProperFrames), StoredIn(st) = {}, Pending(fs, Counting) = {}
    PROVE  KeysDue(st, fs) = 0 /\ ValuesDue(st, fs) = 0
<1>1. Counted(st, fs) = {}
  BY DEF Counted
<1>2. KeysOwed(fs) = 0 /\ ValuesOwed(fs) = 0
  BY SumEmpty DEF KeysOwed, ValuesOwed
<1>3. SumFunctionOnSet(KeySize, {}) = 0 /\ SumFunctionOnSet(ValueSizes(st), {}) = 0
  BY SumEmpty
<1> QED  BY <1>1, <1>2, <1>3 DEF KeysDue, ValuesDue

\* A value that is set, and one that is deleted, while no set of the same key
\* is under way.
LEMMA DueSet ==
    ASSUME TypeInv, NEW st \in Stores, NEW ahead \in CountRests, NEW k \in CacheKeys,
           NEW v \in 1 .. MaxSets, NEW old,
           old = IF store[k] = undefined THEN undefined ELSE store[k].value,
           k \notin UncountedKeys(stack), st[k] # undefined, st[k].value = v,
           \A j \in CacheKeys \ {k} : st[j] = store[j]
    PROVE  LET fs == Append(ahead, Frame("countSet", k, v, old))
           IN  /\ fs \in Seq(ProperFrames)
               /\ KeysDue(st, fs) = KeysDue(store, stack) /\ ValuesDue(st, fs) = ValuesDue(store, stack)
               /\ Fitting(store, stack) => Fitting(st, fs)
               /\ Pending(fs, Counting) # {}
<1> DEFINE f == Frame("countSet", k, v, old)
           fs == Append(ahead, f)
           C == Counted(store, stack)
           D == Counted(st, fs)
<1>1. store \in Stores /\ stack \in Seq(ProperFrames) /\ ahead \in Seq(ProperFrames)
  BY StoresType, StackType DEF CountRests
<1>2. k \in StoredIn(store) <=> store[k] # undefined
  BY DEF StoredIn
<1>3. old \in 1 .. MaxSets \cup {undefined}
  BY <1>1, <1>2, SizeType
<1>4. f \in ProperFrames
  BY <1>3, FrameType
<1>5. f.do = "countSet" /\ f.key = k /\ f.value = v /\ f.old = old /\ f.do \in Counting
  BY DEF Frame, Counting
<1> HIDE DEF f
<1>6. fs \in Seq(ProperFrames)
  BY <1>1, <1>4
<1>7. Pending(fs, {"countSet"}) = Pending(ahead, {"countSet"}) \cup {Len(ahead) + 1}
      /\ fs[Len(ahead) + 1] = f /\ Pending(ahead, {"countSet"}) \subseteq 1 .. Len(ahead)
      /\ (\A i \in 1 .. Len(ahead) : fs[i] = ahead[i]) /\ Len(ahead) + 1 \notin 1 .. Len(ahead)
      /\ Pending(fs, Counting) # {}
  BY <1>1, <1>4, <1>5, AppendedPending
<1>8. UncountedKeys(fs) = UncountedKeys(ahead) \cup {k} /\ UncountedKeys(ahead) = UncountedKeys(stack)
  <2>1. \A i \in Pending(ahead, {"countSet"}) : fs[i] = ahead[i]
    BY <1>7
  <2>2. UncountedKeys(fs) = UncountedKeys(ahead) \cup {k}
    <3> HIDE DEF fs
    <3> QED  BY <1>5, <1>7, <2>1 DEF UncountedKeys
  <2> QED  BY <2>2, OwedSame
<1>9. KeysOwed(fs) = KeysOwed(stack) + KeyWeight(f) /\ ValuesOwed(fs) = ValuesOwed(stack) + ValueWeight(f)
  BY <1>1, <1>4, <1>5, OwedAppended, OwedSame
<1>10. StoredIn(st) = StoredIn(store) \cup {k}
  BY DEF StoredIn
<1> HIDE DEF fs
<1>11. D = C \ {k} /\ D \subseteq StoredIn(store) /\ k \notin D /\ C \in SUBSET StoredIn(store)
  BY <1>8, <1>10 DEF Counted
<1>12. k \in C <=> store[k] # undefined
  BY <1>2 DEF Counted
<1>13. SumFunctionOnSet(ValueSizes(st), D) = SumFunctionOnSet(ValueSizes(store), D)
  <2>1. \A j \in D : j \in StoredIn(st) /\ st[j].value = store[j].value
    BY <1>10, <1>11 DEF StoredIn
  <2> QED  BY <1>1, <1>11, <2>1, ValueSumsSame
<1>14. SumFunctionOnSet(KeySize, D) \in Nat /\ SumFunctionOnSet(ValueSizes(store), D) \in Nat
       /\ KeysOwed(stack) \in Nat /\ ValuesOwed(stack) \in Nat
  BY <1>1, <1>11, CountedSums, WeightsType
<1>15. KeysDue(st, fs) = KeysDue(store, stack) /\ ValuesDue(st, fs) = ValuesDue(store, stack)
  <2>1. CASE store[k] = undefined
    <3>1. D = C /\ KeyWeight(f) = 0 /\ ValueWeight(f) = 0
      BY <1>5, <1>11, <1>12, <2>1 DEF KeyWeight, ValueWeight
    <3> QED  BY <1>9, <1>13, <1>14, <3>1 DEF KeysDue, ValuesDue
  <2>2. CASE store[k] # undefined
    <3>1. k \in C /\ k \in StoredIn(store)
      BY <1>2, <1>12, <2>2
    <3>2. old # undefined
      BY <1>1, <2>2, <3>1, SizeType, NodeCacheAssumption
    <3>3. KeyWeight(f) = KeySize[k] /\ ValueWeight(f) = ValueSizes(store)[k]
      BY <1>1, <1>5, <2>2, <3>1, <3>2, SizeType DEF KeyWeight, ValueWeight
    <3>4. KeySize[k] \in Nat /\ ValueSizes(store)[k] \in Nat
      BY <1>1, <3>1, SizeType
    <3>5. SumFunctionOnSet(KeySize, C) = KeySize[k] + SumFunctionOnSet(KeySize, D)
          /\ SumFunctionOnSet(ValueSizes(store), C) = ValueSizes(store)[k] + SumFunctionOnSet(ValueSizes(store), D)
      BY <1>1, <1>11, <3>1, CountedSums
    <3> HIDE DEF C, D
    <3>6. KeysDue(st, fs) = SumFunctionOnSet(KeySize, D) + KeysOwed(fs)
          /\ ValuesDue(st, fs) = SumFunctionOnSet(ValueSizes(store), D) + ValuesOwed(fs)
          /\ KeysDue(store, stack) = SumFunctionOnSet(KeySize, C) + KeysOwed(stack)
          /\ ValuesDue(store, stack) = SumFunctionOnSet(ValueSizes(store), C) + ValuesOwed(stack)
      BY <1>13 DEF KeysDue, ValuesDue, C, D
    <3> QED  BY <1>9, <1>14, <3>3, <3>4, <3>5, <3>6
  <2> QED  BY <2>1, <2>2
<1>16. Fitting(store, stack) => Fitting(st, fs)
  <2> SUFFICES ASSUME Fitting(store, stack) PROVE Fitting(st, fs)
    OBVIOUS
  <2> DEFINE P == Pending(ahead, {"countSet"})
             n == Len(ahead) + 1
  <2>1. \A i \in P : /\ fs[i].key = stack[i].key /\ fs[i].value = stack[i].value
                     /\ i \in Pending(stack, {"countSet"}) /\ fs[i].key # k
    <3>1. P = Pending(stack, {"countSet"})
      BY OwedSame
    <3>2. \A i \in P : ahead[i].key = stack[i].key /\ ahead[i].value = stack[i].value
      BY <3>1, OwedSame
    <3>3. \A i \in P : fs[i] = ahead[i] /\ stack[i].key \in UncountedKeys(stack)
      BY <1>7, <3>1 DEF UncountedKeys
    <3> QED  BY <3>1, <3>2, <3>3
  <2>2. \A i \in P : fs[i].key \in StoredIn(st) /\ st[fs[i].key].value = fs[i].value
    BY <1>10, <2>1 DEF Fitting, StoredIn
  <2>3. Pending(fs, {"countSet"}) = P \cup {n} /\ fs[n].key = k /\ fs[n].value = v
    BY <1>5, <1>7
  <2>4. k \in StoredIn(st)
    BY <1>10
  <2>5. \A i, j \in P : fs[i].key = fs[j].key => i = j
    BY <2>1 DEF Fitting
  <2> HIDE DEF P, n
  <2> QED  BY <2>1, <2>2, <2>3, <2>4, <2>5 DEF Fitting
<1>17. fs \in Seq(ProperFrames) /\ Pending(fs, Counting) # {}
  BY <1>6, <1>7
<1> QED  BY <1>15, <1>16, <1>17 DEF fs, f

LEMMA DueDeleted ==
    ASSUME TypeInv, NEW st \in Stores, NEW ahead \in CountRests, NEW k \in CacheKeys,
           store[k] # undefined, k \notin UncountedKeys(stack), st[k] = undefined,
           \A j \in CacheKeys \ {k} : st[j] = store[j]
    PROVE  LET fs == Append(ahead, Frame("countDel", k, store[k].value, undefined))
           IN  /\ KeysDue(st, fs) = KeysDue(store, stack) /\ ValuesDue(st, fs) = ValuesDue(store, stack)
               /\ Fitting(store, stack) => Fitting(st, fs)
               /\ Pending(fs, Counting) # {}
<1> DEFINE w == store[k].value
           f == Frame("countDel", k, w, undefined)
           fs == Append(ahead, f)
           C == Counted(store, stack)
           D == Counted(st, fs)
<1>1. store \in Stores /\ stack \in Seq(ProperFrames) /\ ahead \in Seq(ProperFrames)
  BY StoresType, StackType DEF CountRests
<1>2. k \in StoredIn(store) /\ w \in 1 .. MaxSets /\ KeySize[k] \in Nat
      /\ ValueSizes(store)[k] \in Nat /\ ValueSizes(store)[k] = ValueSize[w]
  <2>1. k \in StoredIn(store)
    BY DEF StoredIn
  <2> QED  BY <1>1, <2>1, SizeType
<1>3. f \in ProperFrames
  BY <1>2, FrameType
<1>4. f.do = "countDel" /\ f.key = k /\ f.value = w /\ f.do \in Counting
  BY DEF Frame, Counting
<1> HIDE DEF f
<1>5. Pending(fs, {"countSet"}) = Pending(ahead, {"countSet"})
      /\ Pending(ahead, {"countSet"}) \subseteq 1 .. Len(ahead)
      /\ (\A i \in 1 .. Len(ahead) : fs[i] = ahead[i])
      /\ Pending(fs, Counting) # {}
  BY <1>1, <1>3, <1>4, AppendedPending
<1>6. UncountedKeys(fs) = UncountedKeys(stack)
  <2>1. \A i \in Pending(ahead, {"countSet"}) : fs[i] = ahead[i]
    BY <1>5
  <2>2. UncountedKeys(fs) = UncountedKeys(ahead)
    <3> HIDE DEF fs
    <3> QED  BY <1>5, <2>1 DEF UncountedKeys
  <2> QED  BY <2>2, OwedSame
<1>7. KeysOwed(fs) = KeysOwed(stack) + KeySize[k] /\ ValuesOwed(fs) = ValuesOwed(stack) + ValueSizes(store)[k]
  <2>1. KeyWeight(f) = KeySize[k] /\ ValueWeight(f) = ValueSizes(store)[k]
    BY <1>2, <1>4 DEF KeyWeight, ValueWeight
  <2> QED  BY <1>1, <1>3, <1>4, <2>1, OwedAppended, OwedSame
<1>8. StoredIn(st) = StoredIn(store) \ {k}
  BY DEF StoredIn
<1>9. \A i \in Pending(stack, {"countSet"}) : fs[i].key = stack[i].key /\ fs[i].value = stack[i].value
  <2>1. Pending(ahead, {"countSet"}) = Pending(stack, {"countSet"})
        /\ \A i \in Pending(stack, {"countSet"}) : ahead[i].key = stack[i].key /\ ahead[i].value = stack[i].value
    BY OwedSame
  <2> HIDE DEF fs
  <2> QED  BY <1>5, <2>1
<1>10. Pending(fs, {"countSet"}) = Pending(stack, {"countSet"})
  BY <1>5, OwedSame
<1> HIDE DEF fs
<1>11. D = C \ {k} /\ k \in C /\ D \subseteq StoredIn(store) /\ C \in SUBSET StoredIn(store)
  BY <1>2, <1>6, <1>8 DEF Counted
<1>12. SumFunctionOnSet(ValueSizes(st), D) = SumFunctionOnSet(ValueSizes(store), D)
  <2>1. \A j \in D : j \in StoredIn(st) /\ st[j].value = store[j].value
    BY <1>8, <1>11 DEF StoredIn
  <2> QED  BY <1>1, <1>11, <2>1, ValueSumsSame
<1>13. SumFunctionOnSet(KeySize, D) \in Nat /\ SumFunctionOnSet(ValueSizes(store), D) \in Nat
       /\ KeysOwed(stack) \in Nat /\ ValuesOwed(stack) \in Nat
  BY <1>1, <1>11, CountedSums, WeightsType
<1>14. SumFunctionOnSet(KeySize, C) = KeySize[k] + SumFunctionOnSet(KeySize, D)
       /\ SumFunctionOnSet(ValueSizes(store), C) = ValueSizes(store)[k] + SumFunctionOnSet(ValueSizes(store), D)
  BY <1>1, <1>11, CountedSums
<1>15. KeysDue(st, fs) = SumFunctionOnSet(KeySize, D) + KeysOwed(fs)
       /\ ValuesDue(st, fs) = SumFunctionOnSet(ValueSizes(store), D) + ValuesOwed(fs)
       /\ KeysDue(store, stack) = SumFunctionOnSet(KeySize, C) + KeysOwed(stack)
       /\ ValuesDue(store, stack) = SumFunctionOnSet(ValueSizes(store), C) + ValuesOwed(stack)
  BY <1>12 DEF KeysDue, ValuesDue
<1> HIDE DEF C, D
<1>16. KeysDue(st, fs) = KeysDue(store, stack) /\ ValuesDue(st, fs) = ValuesDue(store, stack)
  BY <1>2, <1>7, <1>13, <1>14, <1>15
<1>17. Fitting(store, stack) => Fitting(st, fs)
  <2>1. \A i \in Pending(stack, {"countSet"}) : stack[i].key # k
    BY DEF UncountedKeys
  <2> QED  BY <1>8, <1>9, <1>10, <2>1 DEF Fitting, StoredIn
<1> QED  BY <1>5, <1>16, <1>17 DEF fs, f

Enabled(s) == s \in AllStats(CacheKeys) /\ s.enabled

LEMMA Incremented ==
    ASSUME NEW s, Enabled(s), NEW n \in Nat
    PROVE  /\ Enabled(increment(s, "ksize", n)) /\ Enabled(increment(s, "vsize", n))
           /\ increment(s, "ksize", n).ksize = s.ksize + n
           /\ increment(s, "ksize", n).vsize = s.vsize
           /\ increment(s, "vsize", n).vsize = s.vsize + n
           /\ increment(s, "vsize", n).ksize = s.ksize
<1>1. s \in AllStats(CacheKeys) /\ s.enabled
  BY DEF Enabled
<1>2. increment(s, "ksize", n) = [s EXCEPT !.ksize = @ + n]
      /\ increment(s, "vsize", n) = [s EXCEPT !.vsize = @ + n]
  BY <1>1 DEF increment
<1>3. increment(s, "ksize", n) \in AllStats(CacheKeys) /\ increment(s, "vsize", n) \in AllStats(CacheKeys)
  BY <1>1, IncrementType DEF Totals
<1> QED  BY <1>1, <1>2, <1>3 DEF AllStats, Enabled

LEMMA Decreased ==
    ASSUME NEW s, Enabled(s), NEW n \in Nat
    PROVE  /\ Enabled(decrease(s, "ksize", n)) /\ Enabled(decrease(s, "vsize", n))
           /\ decrease(s, "ksize", n).ksize = IF s.ksize > n THEN s.ksize - n ELSE 0
           /\ decrease(s, "ksize", n).vsize = s.vsize
           /\ decrease(s, "vsize", n).vsize = IF s.vsize > n THEN s.vsize - n ELSE 0
           /\ decrease(s, "vsize", n).ksize = s.ksize
<1>1. s \in AllStats(CacheKeys) /\ s.enabled
  BY DEF Enabled
<1>2. decrease(s, "ksize", n) = [s EXCEPT !.ksize = IF @ > n THEN @ - n ELSE 0]
      /\ decrease(s, "vsize", n) = [s EXCEPT !.vsize = IF @ > n THEN @ - n ELSE 0]
  BY <1>1 DEF decrease
<1>3. decrease(s, "ksize", n) \in AllStats(CacheKeys) /\ decrease(s, "vsize", n) \in AllStats(CacheKeys)
  BY <1>1, IncrementType DEF Totals
<1> QED  BY <1>1, <1>2, <1>3 DEF AllStats, Enabled

LEMMA CountStored ==
    ASSUME NEW s, Enabled(s), NEW n \in Nat
    PROVE  setCount(s, n).count = n /\ setCount(s, n).ksize = s.ksize /\ setCount(s, n).vsize = s.vsize
BY DEF Enabled, AllStats, setCount

\* What the operation on top of the stack makes of the sizes.
LEMMA CountNumbers ==
    ASSUME TypeInv, stack # <<>>, CountSet(Last(stack)) \/ CountDel(Last(stack))
    PROVE  LET f == Last(stack)
               kw == KeyWeight(f)
               vw == ValueWeight(f)
               more == f.do = "countSet"
           IN  /\ stats'.ksize = (IF stats.ksize > kw THEN stats.ksize - kw ELSE 0)
                                    + (IF more THEN KeySize[f.key] ELSE 0)
               /\ stats'.vsize = (IF stats.vsize > vw THEN stats.vsize - vw ELSE 0)
                                    + (IF more THEN ValueSize[f.value] ELSE 0)
               /\ stats'.count = Cardinality(Stored)
               /\ stack' = Below /\ UNCHANGED <<store, sizes>>
               /\ f \in ProperFrames /\ f.do \in Counting
<1> DEFINE f == Last(stack)
           kw == KeyWeight(f)
           vw == ValueWeight(f)
<1>1. stats \in AllStats(CacheKeys) /\ stats.enabled
  BY DEF TypeInv, CacheTypeOK
<1>2. f \in ProperFrames
  BY BelowType
<1>3. f.do \in Counting
  BY DEF CountSet, CountDel, Counting
<1>4. f.key \in CacheKeys /\ f.value \in 1 .. MaxSets /\ f.old \in 1 .. MaxSets \cup {undefined}
  BY <1>2, <1>3 DEF ProperFrames, Proper, Frames, Counting
<1>5. KeySize[f.key] \in Nat /\ ValueSize[f.value] \in Nat
      /\ (f.old # undefined => ValueSize[f.old] \in Nat)
  BY <1>4, NodeCacheAssumption
<1>6. Cardinality(Stored) \in Nat
  BY FS_CardinalityType DEF TypeInv
<1>9. stats.ksize \in Nat /\ stats.vsize \in Nat
  BY <1>1 DEF AllStats
<1>10. \A n \in Nat : (IF stats.ksize > n THEN stats.ksize - n ELSE 0) \in Nat
                      /\ (IF stats.vsize > n THEN stats.vsize - n ELSE 0) \in Nat
  BY <1>9
<1>11. Enabled(stats)
  BY <1>1 DEF Enabled
<1> DEFINE more == f.do = "countSet"
           lk == IF stats.ksize > kw THEN stats.ksize - kw ELSE 0
           lv == IF stats.vsize > vw THEN stats.vsize - vw ELSE 0
<1>14. PICK s :
          /\ Enabled(s) /\ stats' = setCount(s, Cardinality(Stored))
          /\ s.ksize = lk + (IF more THEN KeySize[f.key] ELSE 0)
          /\ s.vsize = lv + (IF more THEN ValueSize[f.value] ELSE 0)
  <2>1. CASE CountDel(f)
    <3> DEFINE s1 == decrease(stats, "ksize", KeySize[f.key])
               s2 == decrease(s1, "vsize", ValueSize[f.value])
    <3>1. f.do = "countDel" /\ stats' = setCount(s2, Cardinality(Stored))
      BY <2>1 DEF CountDel
    <3>2. kw = KeySize[f.key] /\ vw = ValueSize[f.value]
      BY <3>1 DEF KeyWeight, ValueWeight
    <3> HIDE DEF f, kw, vw
    <3>3. Enabled(s1) /\ s1.ksize = lk /\ s1.vsize = stats.vsize
      BY <1>5, <1>11, <3>2, Decreased
    <3> HIDE DEF s1
    <3>4. Enabled(s2) /\ s2.ksize = lk /\ s2.vsize = lv
      BY <1>5, <3>2, <3>3, Decreased
    <3> HIDE DEF s2
    <3>5. lk + 0 = lk /\ lv + 0 = lv
      BY <1>5, <1>10, <3>2
    <3> QED  BY <3>1, <3>4, <3>5
  <2>2. CASE CountSet(f) /\ f.old = undefined
    <3> DEFINE s1 == increment(stats, "ksize", KeySize[f.key])
               s2 == increment(s1, "vsize", ValueSize[f.value])
    <3>1. f.do = "countSet" /\ stats' = setCount(s2, Cardinality(Stored))
      BY <2>2 DEF CountSet
    <3>2. kw = 0 /\ vw = 0
      BY <2>2, <3>1 DEF KeyWeight, ValueWeight
    <3> HIDE DEF f, kw, vw
    <3>3. lk = stats.ksize /\ lv = stats.vsize
      BY <1>9, <3>2
    <3> HIDE DEF lk, lv
    <3>4. Enabled(s1) /\ s1.ksize = lk + KeySize[f.key] /\ s1.vsize = lv
      BY <1>5, <1>11, <3>3, Incremented
    <3> HIDE DEF s1
    <3>5. Enabled(s2) /\ s2.ksize = lk + KeySize[f.key]
          /\ s2.vsize = lv + ValueSize[f.value]
      BY <1>5, <3>4, Incremented
    <3> HIDE DEF s2
    <3> QED  BY <3>1, <3>5
  <2>3. CASE CountSet(f) /\ f.old # undefined
    <3> DEFINE s1 == decrease(stats, "ksize", KeySize[f.key])
               s2 == decrease(s1, "vsize", ValueSize[f.old])
               s3 == increment(s2, "ksize", KeySize[f.key])
               s4 == increment(s3, "vsize", ValueSize[f.value])
    <3>1. f.do = "countSet" /\ stats' = setCount(s4, Cardinality(Stored))
      BY <2>3 DEF CountSet
    <3>2. kw = KeySize[f.key] /\ vw = ValueSize[f.old] /\ ValueSize[f.old] \in Nat
      BY <1>5, <2>3, <3>1 DEF KeyWeight, ValueWeight
    <3> HIDE DEF f, kw, vw
    <3>3. Enabled(s1) /\ s1.ksize = lk /\ s1.vsize = stats.vsize
      BY <1>5, <1>11, <3>2, Decreased
    <3> HIDE DEF s1
    <3>4. Enabled(s2) /\ s2.ksize = lk /\ s2.vsize = lv
      BY <3>2, <3>3, Decreased
    <3> HIDE DEF s2, lk, lv
    <3>5. Enabled(s3) /\ s3.ksize = lk + KeySize[f.key] /\ s3.vsize = lv
      BY <1>5, <3>4, Incremented
    <3> HIDE DEF s3
    <3>6. Enabled(s4) /\ s4.ksize = lk + KeySize[f.key]
          /\ s4.vsize = lv + ValueSize[f.value]
      BY <1>5, <3>5, Incremented
    <3> HIDE DEF s4
    <3> QED  BY <3>1, <3>6
  <2> QED  BY <2>1, <2>2, <2>3
<1>15. stack' = Below /\ UNCHANGED <<store, sizes>>
  BY DEF CountSet, CountDel
<1>16. stats'.ksize = s.ksize /\ stats'.vsize = s.vsize /\ stats'.count = Cardinality(Stored)
  BY <1>6, <1>14, CountStored
<1> QED  BY <1>2, <1>3, <1>14, <1>15, <1>16

\* What SizesInv says of a store, a stack, statistics and what they are worth.
SizesOf(st, fs, s, worth) ==
    /\ worth # "unknown" => Fitting(st, fs)
    /\ worth = "exact" =>
          /\ s.ksize = KeysDue(st, fs) /\ s.vsize = ValuesDue(st, fs)
          /\ Pending(fs, Counting) = {} => s.count = Cardinality(StoredIn(st))
    /\ worth = "atMost" => s.ksize <= KeysDue(st, fs) /\ s.vsize <= ValuesDue(st, fs)

LEMMA SizesNow == SizesInv <=> SizesOf(store, stack, stats, sizes)
<1>1. StoredIn(store) = Stored
  BY DEF StoredIn, Stored
<1> QED  BY <1>1 DEF SizesInv, SizesOf

LEMMA SizesNext == SizesOf(store', stack', stats', sizes') => SizesInv'
<1> SUFFICES ASSUME SizesOf(store', stack', stats', sizes') PROVE SizesInv'
  OBVIOUS
<1>1. StoredIn(store') = Stored'
  BY DEF StoredIn, Stored
<1> QED  BY <1>1 DEF SizesInv, SizesOf

\* Steps that change neither what is stored nor what has to count.
LEMMA SizesKept ==
    ASSUME TypeInv, SizesInv, NEW st \in Stores, NEW fs \in CountRests,
           \A k \in CacheKeys : /\ st[k] = undefined <=> store[k] = undefined
                                /\ st[k].value = store[k].value
    PROVE  SizesOf(st, fs, stats, sizes)
<1>1. SizesOf(store, stack, stats, sizes)
  BY SizesNow
<1>2. StoredIn(st) = StoredIn(store) /\ Pending(fs, Counting) = Pending(stack, Counting)
  BY DueSame, StoresType DEF CountRests
<1> QED  BY <1>1, <1>2, DueSame DEF SizesOf

LEMMA SizesThrow ==
    ASSUME TypeInv, SizesInv, NEW below \in Rests, Throw(below)
    PROVE  SizesInv'
<1>1. SizesOf(store, stack, stats, sizes) /\ store \in Stores /\ stack \in Seq(ProperFrames)
  BY SizesNow, StoresType, StackType
<1>2. UNCHANGED <<store, stats>>
  BY DEF Throw
<1>3. CASE stack' = below /\ UNCHANGED sizes
  <2>1. SizesOf(store, below, stats, sizes)
    BY <1>1, RestCounts, SizesKept
  <2> QED  BY <1>2, <1>3, <2>1, SizesNext
<1>4. CASE stack' = <<>> /\ Pending(stack, Counting) = {} /\ UNCHANGED sizes
  <2>1. <<>> \in CountRests
    BY <1>4 DEF CountRests, Pending
  <2>2. SizesOf(store, <<>>, stats, sizes)
    BY <1>1, <2>1, SizesKept
  <2> QED  BY <1>2, <1>4, <2>2, SizesNext
<1>5. CASE stack' = <<>> /\ sizes' = "unknown"
  <2>1. SizesOf(store', stack', stats', sizes')
    BY <1>5 DEF SizesOf
  <2> QED  BY <2>1, SizesNext
<1> QED  BY <1>3, <1>4, <1>5 DEF Throw, Counting

LEMMA UncountedSame ==
    ASSUME TypeInv, NEW fs \in CountRests, NEW k
    PROVE  Uncounted(fs, k) <=> k \in UncountedKeys(stack)
<1>1. Uncounted(fs, k) <=> k \in UncountedKeys(fs)
  BY DEF Uncounted, UncountedKeys
<1> QED  BY <1>1, OwedSame

LEMMA NextStores ==
    ASSUME TypeInv, Effect
    PROVE  store' \in Stores
<1>1. DataOK'
  BY DataType
<1>2. Stored' = StoredIn(store')
  BY DEF Stored, StoredIn
<1> QED  BY <1>1, <1>2 DEF DataOK, Stores

LEMMA SizesSet ==
    ASSUME TypeInv, SizesInv, store' \in Stores,
           NEW below \in Rests, NEW k \in CacheKeys, NEW t \in Ttls, SetEntry(k, t, below)
    PROVE  SizesInv'
<1> DEFINE old == IF store[k] = undefined THEN undefined ELSE store[k].value
           ahead == IF old # undefined THEN below ELSE Unseen(below, k)
           fs == Append(ahead, Frame("countSet", k, sets + 1, old))
<1>1. SizesOf(store, stack, stats, sizes) /\ store \in Stores
  BY SizesNow, StoresType
<1>2. stack' = fs /\ stats' = stats /\ store' = [store EXCEPT ![k] = [value |-> sets + 1, ttl |-> Expiration(t)]]
  BY DEF SetEntry, Unseen
<1>3. sets + 1 \in 1 .. MaxSets
  <2>1. sets \in 0 .. MaxSets /\ sets < MaxSets
    BY TypeParts DEF SetEntry, DataOK
  <2> QED  BY <2>1, NodeCacheAssumption
<1>4. ahead \in CountRests
  BY UnseenRest, RestCounts
<1>5. CASE Uncounted(below, k)
  <2>1. sizes' = "unknown"
    BY <1>5 DEF SetEntry
  <2>2. SizesOf(store', stack', stats', sizes')
    BY <2>1 DEF SizesOf
  <2> QED  BY <2>2, SizesNext
<1>6. CASE ~Uncounted(below, k)
  <2>1. sizes' = sizes /\ k \notin UncountedKeys(stack)
    BY <1>6, RestCounts, UncountedSame DEF SetEntry
  <2>2. store \in [CacheKeys -> Entries \cup {undefined}]
    BY <1>1 DEF Stores
  <2>3. store'[k] # undefined /\ store'[k].value = sets + 1
        /\ \A j \in CacheKeys \ {k} : store'[j] = store[j]
    <3>1. [value |-> sets + 1, ttl |-> Expiration(t)] \in Entries
      BY <1>3, ExpirationType DEF Entries
    <3> QED  BY <1>2, <2>2, <3>1, NodeCacheAssumption
  <2> HIDE DEF ahead, old
  <2>4. old = IF store[k] = undefined THEN undefined ELSE store[k].value
    BY DEF old
  <2>5. /\ KeysDue(store', fs) = KeysDue(store, stack) /\ ValuesDue(store', fs) = ValuesDue(store, stack)
        /\ Fitting(store, stack) => Fitting(store', fs)
        /\ Pending(fs, Counting) # {}
    BY <1>3, <1>4, <2>1, <2>3, <2>4, DueSet
  <2> HIDE DEF fs
  <2>6. SizesOf(store', fs, stats, sizes)
    BY <1>1, <2>5 DEF SizesOf
  <2> QED  BY <1>2, <2>1, <2>6, SizesNext
<1> QED  BY <1>5, <1>6

LEMMA SizesDelete ==
    ASSUME TypeInv, SizesInv, store' \in Stores,
           NEW below \in CountRests, NEW k \in CacheKeys, Delete(k, below)
    PROVE  SizesInv'
<1> DEFINE fs == Append(below, Frame("countDel", k, store[k].value, undefined))
<1>1. SizesOf(store, stack, stats, sizes) /\ store \in Stores
  BY SizesNow, StoresType
<1>2. stack' = fs /\ stats' = stats /\ store' = [store EXCEPT ![k] = undefined] /\ store[k] # undefined
  BY DEF Delete
<1>3. CASE Uncounted(below, k)
  <2>1. sizes' = "unknown"
    BY <1>3 DEF Delete
  <2>2. SizesOf(store', stack', stats', sizes')
    BY <2>1 DEF SizesOf
  <2> QED  BY <2>2, SizesNext
<1>4. CASE ~Uncounted(below, k)
  <2>1. sizes' = sizes /\ k \notin UncountedKeys(stack)
    BY <1>4, UncountedSame DEF Delete
  <2>2. store'[k] = undefined /\ \A j \in CacheKeys \ {k} : store'[j] = store[j]
    BY <1>1, <1>2 DEF Stores
  <2>3. /\ KeysDue(store', fs) = KeysDue(store, stack) /\ ValuesDue(store', fs) = ValuesDue(store, stack)
        /\ Fitting(store, stack) => Fitting(store', fs)
        /\ Pending(fs, Counting) # {}
    BY <1>2, <2>1, <2>2, DueDeleted
  <2> HIDE DEF fs
  <2>4. SizesOf(store', fs, stats, sizes)
    BY <1>1, <2>3 DEF SizesOf
  <2> QED  BY <1>2, <2>1, <2>4, SizesNext
<1> QED  BY <1>3, <1>4

LEMMA SizesRemoving ==
    ASSUME TypeInv, SizesInv, store' \in Stores, NEW k \in CacheKeys, Removing(k)
    PROVE  SizesInv'
<1>1. CASE \E below \in Rests : Delete(k, below)
  BY <1>1, RestCounts, SizesDelete
<1>2. ASSUME NEW below \in Rests,
             Delete(k, Append(below, Frame("announce", k, store[k].value, undefined)))
      PROVE  SizesInv'
  <2>1. store[k] # undefined /\ store \in [CacheKeys -> Entries \cup {undefined}]
    BY <1>2 DEF Delete, TypeInv, CacheTypeOK
  <2>2. store[k].value \in 1 .. MaxSets
    BY <2>1 DEF Entries
  <2>3. Frame("announce", k, store[k].value, undefined) \in ProperFrames
        /\ Frame("announce", k, store[k].value, undefined).do \notin Counting
    <3>1. Frame("announce", k, store[k].value, undefined) \in ProperFrames
      BY <2>2, FrameType
    <3> QED  BY <3>1 DEF Frame, Counting
  <2>4. Append(below, Frame("announce", k, store[k].value, undefined)) \in CountRests
    BY <2>3, RestCounts, AppendedCounts
  <2> QED  BY <1>2, <2>4, SizesDelete
<1> QED  BY <1>1, <1>2 DEF Removing

LEMMA SizesAnnounced ==
    ASSUME TypeInv, SizesInv, Announcement
    PROVE  SizesInv'
<1>1. PICK below \in CountRests : stack' = Return(below)
  <2>1. CASE \E below \in Rests : stack' = Return(below)
    BY <2>1, RestCounts
  <2>2. CASE stack # <<>> /\ Last(stack).do = "announce" /\ stack' = Return(Below)
    BY <2>2, PoppedCounts DEF Counting
  <2> QED  BY <2>1, <2>2 DEF Announcement, Announce
<1>2. UNCHANGED <<store, stats, sizes>>
  BY DEF Announcement, Announce
<1>3. SizesOf(store, Return(below), stats, sizes)
  BY StoresType, ReturnCounts, SizesKept
<1> QED  BY <1>1, <1>2, <1>3, SizesNext

LEMMA SizesFlushed ==
    ASSUME TypeInv, SizesInv, store' \in Stores, flushStats \/ flushAll
    PROVE  SizesInv'
<1>1. stack' \in CountRests /\ stats' = NewStats(TRUE, FALSE, Unbounded)
  BY FlushRest, RestCounts
<1>2. stats'.ksize = 0 /\ stats'.vsize = 0 /\ stats'.count = 0
  BY <1>1 DEF NewStats
<1>3. SizesOf(store, stack, stats, sizes) /\ store \in Stores /\ StoredIn(store) = Stored
  BY SizesNow, StoresType
<1>4. Pending(stack', Counting) = Pending(stack, Counting) /\ stack' \in Seq(ProperFrames)
      /\ Pending(stack', {"countSet"}) = Pending(stack, {"countSet"})
  BY <1>1, OwedSame DEF CountRests
<1>5. KeysDue(store', stack') \in Nat /\ ValuesDue(store', stack') \in Nat
  BY <1>4, DueType
<1>6. CASE sizes' = "exact"
  <2>1. StoredIn(store') = {} /\ Pending(stack, Counting) = {}
    BY <1>3, <1>6 DEF flushStats, flushAll, StoredIn, Counting
  <2>2. KeysDue(store', stack') = 0 /\ ValuesDue(store', stack') = 0
    BY <1>4, <2>1, NothingDue
  <2>3. Pending(stack', {"countSet"}) = {}
    BY <1>4, <2>1 DEF Pending, Counting
  <2>4. Cardinality(StoredIn(store')) = 0
    BY <2>1, FS_EmptySet
  <2>5. SizesOf(store', stack', stats', sizes')
    BY <1>2, <1>6, <2>2, <2>3, <2>4 DEF SizesOf, Fitting
  <2> QED  BY <2>5, SizesNext
<1>7. CASE sizes' = "unknown"
  <2>1. SizesOf(store', stack', stats', sizes')
    BY <1>7 DEF SizesOf
  <2> QED  BY <2>1, SizesNext
<1>8. CASE sizes' = "atMost"
  <2>1. store' = store /\ (sizes # "unknown" \/ Pending(stack, {"countSet"}) = {})
    BY <1>8 DEF flushStats, flushAll
  <2>2. Fitting(store, stack')
    <3>1. CASE sizes # "unknown"
      <4>1. Fitting(store, stack)
        BY <1>3, <3>1 DEF SizesOf
      <4> QED  BY <1>1, <1>3, <4>1, DueSame
    <3>2. CASE Pending(stack, {"countSet"}) = {}
      BY <1>4, <3>2 DEF Fitting
    <3> QED  BY <2>1, <3>1, <3>2
  <2>3. SizesOf(store', stack', stats', sizes')
    BY <1>2, <1>5, <1>8, <2>1, <2>2 DEF SizesOf
  <2> QED  BY <2>3, SizesNext
<1>9. sizes' \in {"exact", "unknown", "atMost"}
  BY TypeParts DEF flushStats, flushAll
<1> QED  BY <1>6, <1>7, <1>8, <1>9

LEMMA Regrouped ==
    ASSUME NEW c \in Nat, NEW o \in Nat, NEW w \in Nat, NEW m \in Nat
    PROVE  c + o \in Nat /\ c + (o + w) = (c + o) + w /\ (c + m) + o = (c + o) + m
OBVIOUS

\* What is due once the operation on top of the stack has counted.
LEMMA DueCounted ==
    ASSUME TypeInv, stack # <<>>, Last(stack).do \in Counting, Fitting(store, stack)
    PROVE  LET f == Last(stack)
               mk == IF f.do = "countSet" THEN KeySize[f.key] ELSE 0
               mv == IF f.do = "countSet" THEN ValueSize[f.value] ELSE 0
           IN  /\ \E n \in Nat : KeysDue(store, stack) = n + KeyWeight(f) /\ KeysDue(store, Below) = n + mk
               /\ \E n \in Nat : ValuesDue(store, stack) = n + ValueWeight(f) /\ ValuesDue(store, Below) = n + mv
               /\ Fitting(store, Below)
               /\ mk \in Nat /\ mv \in Nat
<1> DEFINE f == Last(stack)
           k == f.key
           C == Counted(store, stack)
           D == Counted(store, Below)
           n == Len(Below) + 1
           mk == IF f.do = "countSet" THEN KeySize[f.key] ELSE 0
           mv == IF f.do = "countSet" THEN ValueSize[f.value] ELSE 0
<1>1. Below \in Seq(ProperFrames) /\ f \in ProperFrames /\ stack = Append(Below, f)
  BY BelowType, StackSplit
<1>2. f.key \in CacheKeys /\ f.value \in 1 .. MaxSets /\ f.do \in Counting
  BY <1>1 DEF ProperFrames, Proper, Counting
<1>3. KeySize[k] \in Nat /\ ValueSize[f.value] \in Nat /\ KeyWeight(f) \in Nat /\ ValueWeight(f) \in Nat
      /\ mk \in Nat /\ mv \in Nat
  BY <1>1, <1>2, WeightType, NodeCacheAssumption
<1>4. store \in Stores
  BY StoresType
<1>5. /\ KeysOwed(stack) = KeysOwed(Below) + KeyWeight(f)
      /\ ValuesOwed(stack) = ValuesOwed(Below) + ValueWeight(f)
      /\ KeysOwed(Below) \in Nat /\ ValuesOwed(Below) \in Nat
  BY <1>1, <1>2, OwedAppended, WeightsType
<1> HIDE DEF f
<1>6. /\ f.do = "countSet" => Pending(stack, {"countSet"}) = Pending(Below, {"countSet"}) \cup {n}
      /\ f.do # "countSet" => Pending(stack, {"countSet"}) = Pending(Below, {"countSet"})
      /\ \A i \in 1 .. Len(Below) : stack[i] = Below[i]
      /\ stack[n] = f
      /\ Pending(Below, {"countSet"}) \subseteq 1 .. Len(Below)
      /\ n \notin 1 .. Len(Below)
  BY <1>1, AppendedPending
<1>7. \A i \in Pending(Below, {"countSet"}) : stack[i] = Below[i]
  BY <1>6
<1> HIDE DEF n
<1>8. Fitting(store, Below)
  <2>1. Pending(Below, {"countSet"}) \subseteq Pending(stack, {"countSet"})
    BY <1>6
  <2> QED  BY <1>7, <2>1 DEF Fitting
<1>9. SumFunctionOnSet(KeySize, D) = SumFunctionOnSet(KeySize, C) + mk
      /\ SumFunctionOnSet(ValueSizes(store), D) = SumFunctionOnSet(ValueSizes(store), C) + mv
      /\ SumFunctionOnSet(KeySize, C) \in Nat /\ SumFunctionOnSet(ValueSizes(store), C) \in Nat
  <2>1. SumFunctionOnSet(KeySize, C) \in Nat /\ SumFunctionOnSet(ValueSizes(store), C) \in Nat
    BY <1>4, DueType, StackType
  <2>2. CASE f.do = "countSet"
    <3>1. n \in Pending(stack, {"countSet"}) /\ n \notin Pending(Below, {"countSet"})
      BY <1>6, <2>2
    <3>2. k \in StoredIn(store) /\ store[k].value = f.value
      BY <1>6, <3>1 DEF Fitting
    <3>3. k \notin UncountedKeys(Below)
      <4> SUFFICES ASSUME NEW i \in Pending(Below, {"countSet"}), Below[i].key = k PROVE FALSE
        BY DEF UncountedKeys
      <4>1. i \in Pending(stack, {"countSet"}) /\ stack[i].key = stack[n].key
        BY <1>6, <1>7, <2>2
      <4> QED  BY <3>1, <4>1 DEF Fitting
    <3>4. UncountedKeys(stack) = UncountedKeys(Below) \cup {k}
      BY <1>6, <1>7, <2>2 DEF UncountedKeys
    <3>5. C = D \ {k} /\ k \in D /\ D \in SUBSET StoredIn(store)
      BY <3>2, <3>3, <3>4 DEF Counted
    <3>6. SumFunctionOnSet(KeySize, D) = KeySize[k] + SumFunctionOnSet(KeySize, C)
          /\ SumFunctionOnSet(ValueSizes(store), D) = ValueSizes(store)[k] + SumFunctionOnSet(ValueSizes(store), C)
      BY <1>4, <3>5, CountedSums
    <3>7. ValueSizes(store)[k] = ValueSize[f.value]
      BY <1>4, <3>2, SizeType
    <3>8. mk = KeySize[k] /\ mv = ValueSize[f.value]
      BY <2>2
    <3> HIDE DEF C, D, mk, mv, k
    <3> QED  BY <1>3, <2>1, <3>6, <3>7, <3>8
  <2>3. CASE f.do # "countSet"
    <3>1. UncountedKeys(stack) = UncountedKeys(Below)
      BY <1>6, <1>7, <2>3 DEF UncountedKeys
    <3>2. C = D
      BY <3>1 DEF Counted
    <3>3. mk = 0 /\ mv = 0
      BY <2>3
    <3> HIDE DEF C, D, mk, mv, k
    <3> QED  BY <2>1, <3>2, <3>3
  <2> QED  BY <2>2, <2>3
<1>10. KeysDue(store, stack) = SumFunctionOnSet(KeySize, C) + KeysOwed(stack)
       /\ KeysDue(store, Below) = SumFunctionOnSet(KeySize, D) + KeysOwed(Below)
       /\ ValuesDue(store, stack) = SumFunctionOnSet(ValueSizes(store), C) + ValuesOwed(stack)
       /\ ValuesDue(store, Below) = SumFunctionOnSet(ValueSizes(store), D) + ValuesOwed(Below)
  BY DEF KeysDue, ValuesDue
<1>11. \E m \in Nat : KeysDue(store, stack) = m + KeyWeight(f) /\ KeysDue(store, Below) = m + mk
  <2> HIDE DEF C, D, mk, mv, k
  <2> DEFINE c == SumFunctionOnSet(KeySize, C)
             o == KeysOwed(Below)
             w == KeyWeight(f)
  <2>1. c \in Nat /\ o \in Nat /\ w \in Nat /\ mk \in Nat
    BY <1>3, <1>5, <1>9
  <2>2. KeysDue(store, stack) = c + (o + w) /\ KeysDue(store, Below) = (c + mk) + o
    BY <1>5, <1>9, <1>10
  <2> HIDE DEF c, o, w
  <2>3. c + o \in Nat /\ c + (o + w) = (c + o) + w /\ (c + mk) + o = (c + o) + mk
    BY <2>1, Regrouped
  <2>4. \E m \in Nat : KeysDue(store, stack) = m + w /\ KeysDue(store, Below) = m + mk
    BY <2>2, <2>3
  <2> QED  BY <2>4 DEF w
<1>12. \E m \in Nat : ValuesDue(store, stack) = m + ValueWeight(f) /\ ValuesDue(store, Below) = m + mv
  <2> HIDE DEF C, D, mk, mv, k
  <2> DEFINE c == SumFunctionOnSet(ValueSizes(store), C)
             o == ValuesOwed(Below)
             w == ValueWeight(f)
  <2>1. c \in Nat /\ o \in Nat /\ w \in Nat /\ mv \in Nat
    BY <1>3, <1>5, <1>9
  <2>2. ValuesDue(store, stack) = c + (o + w) /\ ValuesDue(store, Below) = (c + mv) + o
    BY <1>5, <1>9, <1>10
  <2> HIDE DEF c, o, w
  <2>3. c + o \in Nat /\ c + (o + w) = (c + o) + w /\ (c + mv) + o = (c + o) + mv
    BY <2>1, Regrouped
  <2>4. \E m \in Nat : ValuesDue(store, stack) = m + w /\ ValuesDue(store, Below) = m + mv
    BY <2>2, <2>3
  <2> QED  BY <2>4 DEF w
<1> QED  BY <1>3, <1>8, <1>11, <1>12 DEF f

LEMMA SizesCounted ==
    ASSUME TypeInv, SizesInv, stack # <<>>, CountSet(Last(stack)) \/ CountDel(Last(stack))
    PROVE  SizesInv'
<1> DEFINE f == Last(stack)
           kw == KeyWeight(f)
           vw == ValueWeight(f)
           mk == IF f.do = "countSet" THEN KeySize[f.key] ELSE 0
           mv == IF f.do = "countSet" THEN ValueSize[f.value] ELSE 0
<1>1. /\ stats'.ksize = (IF stats.ksize > kw THEN stats.ksize - kw ELSE 0) + mk
      /\ stats'.vsize = (IF stats.vsize > vw THEN stats.vsize - vw ELSE 0) + mv
      /\ stats'.count = Cardinality(Stored)
      /\ stack' = Below /\ UNCHANGED <<store, sizes>>
      /\ f \in ProperFrames /\ f.do \in Counting
  BY CountNumbers
<1>2. SizesOf(store, stack, stats, sizes) /\ StoredIn(store) = Stored
  BY SizesNow, StoresType
<1>3. stats.ksize \in Nat /\ stats.vsize \in Nat /\ kw \in Nat /\ vw \in Nat
  BY <1>1, WeightType DEF TypeInv, CacheTypeOK, AllStats
<1>4. CASE sizes = "unknown"
  <2>1. SizesOf(store', stack', stats', sizes')
    BY <1>1, <1>4 DEF SizesOf
  <2> QED  BY <2>1, SizesNext
<1>5. CASE sizes # "unknown"
  <2>1. Fitting(store, stack)
    BY <1>2, <1>5 DEF SizesOf
  <2>2. /\ \E n \in Nat : KeysDue(store, stack) = n + kw /\ KeysDue(store, Below) = n + mk
        /\ \E n \in Nat : ValuesDue(store, stack) = n + vw /\ ValuesDue(store, Below) = n + mv
        /\ Fitting(store, Below)
        /\ mk \in Nat /\ mv \in Nat
    BY <1>1, <2>1, DueCounted
  <2>3. PICK n \in Nat : KeysDue(store, stack) = n + kw /\ KeysDue(store, Below) = n + mk
    BY <2>2
  <2>4. PICK m \in Nat : ValuesDue(store, stack) = m + vw /\ ValuesDue(store, Below) = m + mv
    BY <2>2
  <2> HIDE DEF kw, vw, mk, mv
  <2>5. /\ sizes = "exact" => stats'.ksize = KeysDue(store, Below) /\ stats'.vsize = ValuesDue(store, Below)
        /\ sizes = "atMost" => stats'.ksize <= KeysDue(store, Below) /\ stats'.vsize <= ValuesDue(store, Below)
    <3>1. CASE sizes = "exact"
      <4>1. stats.ksize = n + kw /\ stats.vsize = m + vw
        BY <1>2, <2>3, <2>4, <3>1 DEF SizesOf
      <4>2. (IF stats.ksize > kw THEN stats.ksize - kw ELSE 0) = n
            /\ (IF stats.vsize > vw THEN stats.vsize - vw ELSE 0) = m
        BY <1>3, <4>1
      <4> QED  BY <1>1, <2>3, <2>4, <3>1, <4>2
    <3>2. CASE sizes = "atMost"
      <4>1. stats.ksize <= n + kw /\ stats.vsize <= m + vw
        BY <1>2, <2>3, <2>4, <3>2 DEF SizesOf
      <4> DEFINE lk == IF stats.ksize > kw THEN stats.ksize - kw ELSE 0
                 lv == IF stats.vsize > vw THEN stats.vsize - vw ELSE 0
      <4>2. lk \in Nat /\ lk <= n /\ lv \in Nat /\ lv <= m
        BY <1>3, <4>1
      <4> HIDE DEF lk, lv
      <4>3. lk + mk <= n + mk /\ lv + mv <= m + mv
        BY <2>2, <4>2
      <4>4. stats'.ksize = lk + mk /\ stats'.vsize = lv + mv
        BY <1>1 DEF lk, lv
      <4> QED  BY <2>3, <2>4, <3>2, <4>3, <4>4
    <3> QED  BY <3>1, <3>2
  <2>6. SizesOf(store', stack', stats', sizes')
    BY <1>1, <1>2, <2>2, <2>5 DEF SizesOf
  <2> QED  BY <2>6, SizesNext
<1> QED  BY <1>4, <1>5

LEMMA SizesEffect ==
    ASSUME TypeInv, SizesInv, Effect
    PROVE  SizesInv'
<1>1. store' \in Stores
  BY NextStores
<1>2. CASE Quiet
  <2>1. SizesOf(store', stack', stats, sizes)
    BY <1>1, <1>2, RestCounts, SizesKept DEF Quiet
  <2>2. SizesOf(store', stack', stats', sizes')
    BY <1>2, <2>1 DEF Quiet
  <2> QED  BY <2>2, SizesNext
<1>3. CASE \E below \in Rests, k \in CacheKeys, t \in Ttls : ~Full(k) /\ SetEntry(k, t, below)
  BY <1>1, <1>3, SizesSet
<1>4. CASE \E below \in Rests : Throw(below)
  BY <1>4, SizesThrow
<1>5. CASE \E k \in CacheKeys : Removing(k)
  BY <1>1, <1>5, SizesRemoving
<1>6. CASE Announcement
  BY <1>6, SizesAnnounced
<1>7. CASE flushStats \/ flushAll
  BY <1>1, <1>7, SizesFlushed
<1>8. CASE stack # <<>> /\ (CountSet(Last(stack)) \/ CountDel(Last(stack)))
  BY <1>8, SizesCounted
<1> QED  BY <1>2, <1>3, <1>4, <1>5, <1>6, <1>7, <1>8 DEF Effect

\* Between operations getStats of a NodeCache tells the number and the sizes of
\* what is stored, however calls from listeners were nested.
THEOREM StatsTrue == CacheSpec => []StatsMatchStore
<1>1. CacheInit => SizesInv
  <2> SUFFICES ASSUME CacheInit PROVE SizesInv
    OBVIOUS
  <2>1. TypeInv
    BY TypeStart
  <2>2. stack = <<>> /\ Stored = {} /\ sizes = "exact" /\ stats = NewStats(TRUE, FALSE, Unbounded)
    BY DEF CacheInit, Stored
  <2>3. Pending(stack, Counting) = {} /\ Pending(stack, {"countSet"}) = {}
    BY <2>2 DEF Pending
  <2>4. KeysDue(store, stack) = 0 /\ ValuesDue(store, stack) = 0
    BY <2>1, <2>2, <2>3, NothingDue, StoresType, StackType
  <2>5. Cardinality(Stored) = 0
    BY <2>2, FS_EmptySet
  <2>6. stats.ksize = 0 /\ stats.vsize = 0 /\ stats.count = 0
    BY <2>2 DEF NewStats
  <2> QED  BY <2>2, <2>3, <2>4, <2>5, <2>6 DEF SizesInv, Fitting
<1>2. ASSUME TypeInv, SizesInv, [CacheNext]_cacheVars PROVE SizesInv'
  <2>1. CASE CacheNext
    BY <1>2, <2>1, StepEffect, SizesEffect
  <2>2. CASE UNCHANGED cacheVars
    <3>1. SizesOf(store', stack', stats', sizes')
      BY <1>2, <2>2, SizesNow DEF cacheVars
    <3> QED  BY <3>1, SizesNext
  <2> QED  BY <1>2, <2>1, <2>2
<1>3. ASSUME TypeInv, SizesInv PROVE StatsMatchStore
  <2> SUFFICES ASSUME stack = <<>> PROVE StatsMatchStore
    BY DEF StatsMatchStore
  <2>1. Pending(stack, Counting) = {} /\ UncountedKeys(stack) = {}
    BY DEF Pending, UncountedKeys
  <2>2. KeysOwed(stack) = 0 /\ ValuesOwed(stack) = 0
    BY <2>1, SumEmpty DEF KeysOwed, ValuesOwed
  <2>3. StoredIn(store) = Stored /\ Counted(store, stack) = Stored
    BY <2>1, <1>3, StoresType DEF Counted
  <2>4. KSizeOfStore = SumFunctionOnSet(KeySize, Counted(store, stack))
        /\ VSizeOfStore = SumFunctionOnSet(ValueSizes(store), Counted(store, stack))
    BY <2>3 DEF KSizeOfStore, VSizeOfStore, ValueSizes
  <2>5. KSizeOfStore \in Nat /\ VSizeOfStore \in Nat
    BY <1>3, <2>4, DueType, StoresType, StackType
  <2>6. KeysDue(store, stack) = KSizeOfStore /\ ValuesDue(store, stack) = VSizeOfStore
    BY <2>2, <2>4, <2>5 DEF KeysDue, ValuesDue
  <2> QED  BY <1>3, <2>1, <2>6 DEF SizesInv, StatsMatchStore
<1> QED  BY <1>1, <1>2, <1>3, TypeStart, TypeStep, PTL DEF CacheSpec

-----------------------------------------------------------------------------
(* Limits of the cache and of its statistics                               *)

\* The counters of a sequence of keys: their sum, whose they are, and that no
\* key has two.
Total(es, field) == SumFunctionOnSet([i \in DOMAIN es |-> es[i][field]], DOMAIN es)
KeysOf(es) == {es[i].key : i \in DOMAIN es}
Distinct(es) == \A i, j \in DOMAIN es : es[i].key = es[j].key => i = j
Counts == {"sets", "deletes"}

LEMMA CounterType ==
    ASSUME NEW keys, NEW es \in Seq(KeyCounters(keys)), NEW i \in DOMAIN es, NEW field \in Counts
    PROVE  es[i][field] \in Nat
<1>1. es[i] \in KeyCounters(keys)
  OBVIOUS
<1>2. es[i]["sets"] \in Nat /\ es[i]["deletes"] \in Nat
  BY <1>1 DEF KeyCounters
<1> QED  BY <1>2 DEF Counts

LEMMA TotalType ==
    ASSUME NEW keys, NEW es \in Seq(KeyCounters(keys)), NEW field \in Counts
    PROVE  Total(es, field) \in Nat /\ IsFiniteSet(DOMAIN es)
<1> DEFINE f == [i \in DOMAIN es |-> es[i][field]]
<1>1. IsFiniteSet(DOMAIN es)
  <2>1. DOMAIN es = 1 .. Len(es) /\ Len(es) \in Int
    OBVIOUS
  <2> QED  BY <2>1, FS_Interval
<1>2. \A i \in DOMAIN es : f[i] \in Nat
  BY CounterType
<1>3. Total(es, field) = SumFunctionOnSet(f, DOMAIN es)
  BY DEF Total
<1> HIDE DEF f
<1>4. SumFunctionOnSet(f, DOMAIN es) \in Nat
  BY <1>1, <1>2, SumType
<1> QED  BY <1>1, <1>3, <1>4

\* A key more, and a key whose counter changes.
LEMMA TotalAppended ==
    ASSUME NEW keys, NEW es \in Seq(KeyCounters(keys)), NEW c \in KeyCounters(keys), NEW field \in Counts
    PROVE  Total(Append(es, c), field) = Total(es, field) + c[field]
<1> DEFINE gs == Append(es, c)
           n == Len(es) + 1
           f == [i \in DOMAIN es |-> es[i][field]]
           g == [i \in DOMAIN gs |-> gs[i][field]]
<1>1. gs \in Seq(KeyCounters(keys)) /\ DOMAIN gs = DOMAIN es \cup {n} /\ n \notin DOMAIN es
      /\ gs[n] = c /\ \A i \in DOMAIN es : gs[i] = es[i]
  <2>1. DOMAIN es = 1 .. Len(es) /\ Len(es) \in Nat /\ DOMAIN gs = 1 .. (Len(es) + 1)
    OBVIOUS
  <2>2. gs[n] = c /\ \A i \in 1 .. Len(es) : gs[i] = es[i]
    OBVIOUS
  <2> QED  BY <2>1, <2>2
<1>2. IsFiniteSet(DOMAIN gs) /\ IsFiniteSet(DOMAIN es)
  BY <1>1, TotalType
<1>3. \A i \in DOMAIN gs : gs[i][field] \in Nat
  BY <1>1, CounterType
<1>4. Total(es, field) = SumFunctionOnSet(f, DOMAIN es) /\ Total(gs, field) = SumFunctionOnSet(g, DOMAIN gs)
  BY DEF Total
<1> HIDE DEF gs, n
<1>5. \A i \in DOMAIN gs : g[i] \in Nat
  BY <1>3
<1>6. \A i \in DOMAIN es : g[i] \in Nat /\ g[i] = f[i]
  BY <1>1, <1>3
<1>7. n \in DOMAIN gs /\ (DOMAIN gs) \ {n} = DOMAIN es /\ g[n] = c[field]
  BY <1>1
<1> HIDE DEF f, g
<1>8. SumFunctionOnSet(g, DOMAIN gs) = g[n] + SumFunctionOnSet(g, DOMAIN es)
  BY <1>2, <1>5, <1>7, SumWithout
<1>9. SumFunctionOnSet(g, DOMAIN es) = SumFunctionOnSet(f, DOMAIN es)
      /\ SumFunctionOnSet(g, DOMAIN es) \in Nat
  BY <1>2, <1>6, SumSame, SumType
<1>10. g[n] \in Nat
  BY <1>5, <1>7
<1>11. Total(gs, field) = Total(es, field) + c[field]
  BY <1>4, <1>7, <1>8, <1>9, <1>10
<1> QED  BY <1>11 DEF gs

LEMMA TotalChanged ==
    ASSUME NEW keys, NEW es \in Seq(KeyCounters(keys)), NEW gs \in Seq(KeyCounters(keys)),
           NEW n \in DOMAIN es, NEW field \in Counts, DOMAIN gs = DOMAIN es,
           \A i \in DOMAIN es \ {n} : gs[i][field] = es[i][field],
           gs[n][field] <= es[n][field] + 1
    PROVE  Total(gs, field) <= Total(es, field) + 1
<1> DEFINE R == (DOMAIN es) \ {n}
           f == [i \in DOMAIN es |-> es[i][field]]
           g == [i \in DOMAIN gs |-> gs[i][field]]
<1>1. \A i \in DOMAIN es : es[i][field] \in Nat /\ gs[i][field] \in Nat
  BY CounterType
<1>2. IsFiniteSet(DOMAIN es) /\ IsFiniteSet(R)
  BY TotalType, FS_Subset
<1>3. Total(es, field) = SumFunctionOnSet(f, DOMAIN es) /\ Total(gs, field) = SumFunctionOnSet(g, DOMAIN es)
  BY DEF Total
<1>4. \A i \in DOMAIN es : f[i] \in Nat /\ g[i] \in Nat
  BY <1>1
<1>5. \A i \in R : g[i] \in Nat /\ g[i] = f[i]
  BY <1>1
<1>6. f[n] = es[n][field] /\ g[n] = gs[n][field]
  OBVIOUS
<1> HIDE DEF f, g
<1>7. SumFunctionOnSet(f, DOMAIN es) = f[n] + SumFunctionOnSet(f, R)
      /\ SumFunctionOnSet(g, DOMAIN es) = g[n] + SumFunctionOnSet(g, R)
  BY <1>2, <1>4, SumWithout
<1>8. SumFunctionOnSet(g, R) = SumFunctionOnSet(f, R) /\ SumFunctionOnSet(g, R) \in Nat
  BY <1>2, <1>5, SumSame, SumType
<1>9. f[n] \in Nat /\ g[n] \in Nat /\ g[n] <= f[n] + 1
  BY <1>1, <1>6
<1> QED  BY <1>3, <1>7, <1>8, <1>9

\* The keys of the first entries, and what they count.
FirstKeys(es, n) == {es[i].key : i \in 1 .. n}
FirstTotal(es, n, field) == SumFunctionOnSet([i \in DOMAIN es |-> es[i][field]], 1 .. n)

LEMMA FirstAnother ==
    ASSUME NEW keys, NEW es \in Seq(KeyCounters(keys)), NEW n \in Nat, n + 1 \in 1 .. Len(es),
           NEW field \in Counts
    PROVE  /\ FirstTotal(es, n + 1, field) = FirstTotal(es, n, field) + es[n + 1][field]
           /\ FirstTotal(es, n, field) \in Nat /\ es[n + 1][field] \in Nat
<1> DEFINE f == [i \in DOMAIN es |-> es[i][field]]
           S == 1 .. n
           T == 1 .. (n + 1)
<1>1. T \subseteq DOMAIN es /\ T \ {n + 1} = S /\ n + 1 \in T /\ S \subseteq DOMAIN es
  OBVIOUS
<1>2. \A i \in DOMAIN es : f[i] \in Nat
  BY CounterType
<1>3. f[n + 1] = es[n + 1][field]
  BY <1>1
<1>4. IsFiniteSet(T) /\ IsFiniteSet(S)
  BY FS_Interval
<1>5. FirstTotal(es, n + 1, field) = SumFunctionOnSet(f, T) /\ FirstTotal(es, n, field) = SumFunctionOnSet(f, S)
  BY DEF FirstTotal
<1> HIDE DEF f, S, T
<1>6. SumFunctionOnSet(f, T) = f[n + 1] + SumFunctionOnSet(f, S)
  BY <1>1, <1>2, <1>4, SumWithout
<1>7. SumFunctionOnSet(f, S) \in Nat /\ f[n + 1] \in Nat
  BY <1>1, <1>2, <1>4, SumType
<1> QED  BY <1>3, <1>5, <1>6, <1>7

\* What is left of the entries of some keys: the other keys, with no more counted.
LEMMA EntriesWithoutKeys ==
    ASSUME NEW keys, NEW es \in Seq(KeyCounters(keys)), NEW gone, Distinct(es)
    PROVE  LET rest == EntriesWithout(es, gone)
           IN  /\ rest \in Seq(KeyCounters(keys)) /\ Distinct(rest)
               /\ KeysOf(rest) = KeysOf(es) \ gone
               /\ Len(rest) <= Len(es)
               /\ KeysOf(es) \cap gone # {} => Len(rest) < Len(es)
               /\ \A field \in Counts : Total(rest, field) <= Total(es, field)
<1> DEFINE KC == KeyCounters(keys)
<1>0. es \in Seq(KC)
  OBVIOUS
<1> HIDE DEF KC
<1>1. PICK g \in [0 .. Len(es) -> Seq(KC)] :
          /\ g[0] = <<>>
          /\ \A n \in 1 .. Len(es) :
                g[n] = IF es[n].key \in gone THEN g[n - 1] ELSE Append(g[n - 1], es[n])
          /\ EntriesWithout(es, gone) = g[Len(es)]
  BY <1>0, KeptEntries
<1>2. DOMAIN es = 1 .. Len(es) /\ Len(es) \in Nat
  BY <1>0
<1> DEFINE Good(n) ==
               /\ Distinct(g[n]) /\ KeysOf(g[n]) = FirstKeys(es, n) \ gone
               /\ Len(g[n]) <= n /\ (FirstKeys(es, n) \cap gone # {} => Len(g[n]) < n)
               /\ \A field \in Counts : Total(g[n], field) <= FirstTotal(es, n, field)
           N == {n \in Nat : n <= Len(es) => Good(n)}
<1>3. 0 \in N
  <2>1. FirstKeys(es, 0) = {} /\ 1 .. 0 = {}
    BY DEF FirstKeys
  <2>2. Distinct(<<>>) /\ KeysOf(<<>>) = {} /\ Len(<<>>) = 0 /\ DOMAIN <<>> = {}
    BY DEF Distinct, KeysOf
  <2>3. \A field : Total(<<>>, field) = 0 /\ FirstTotal(es, 0, field) = 0
    BY <2>1, <2>2, SumEmpty DEF Total, FirstTotal
  <2> QED  BY <1>1, <2>1, <2>2, <2>3
<1>4. ASSUME NEW n \in Nat, n \in N, n + 1 <= Len(es) PROVE Good(n + 1)
  <2>1. Good(n) /\ n \in 0 .. Len(es) /\ n + 1 \in 1 .. Len(es) /\ (n + 1) - 1 = n /\ n <= n + 1
    BY <1>2, <1>4
  <2>2. g[n] \in Seq(KC) /\ es[n + 1] \in KC
    BY <1>0, <1>2, <2>1
  <2>3. FirstKeys(es, n + 1) = FirstKeys(es, n) \cup {es[n + 1].key} /\ es[n + 1].key \notin FirstKeys(es, n)
    <3>1. 1 .. (n + 1) = (1 .. n) \cup {n + 1} /\ n + 1 \notin 1 .. n
      OBVIOUS
    <3>2. \A i \in 1 .. n : es[i].key # es[n + 1].key
      BY <1>2, <2>1, <3>1 DEF Distinct
    <3> QED  BY <3>1, <3>2 DEF FirstKeys
  <2>4. \A field \in Counts : /\ FirstTotal(es, n + 1, field) = FirstTotal(es, n, field) + es[n + 1][field]
                              /\ FirstTotal(es, n, field) \in Nat /\ es[n + 1][field] \in Nat
    BY <2>1, FirstAnother
  <2>5. CASE es[n + 1].key \in gone
    <3>1. g[n + 1] = g[n]
      BY <1>1, <2>1, <2>5
    <3>2. \A field \in Counts : Total(g[n], field) <= FirstTotal(es, n + 1, field)
      <4> TAKE field \in Counts
      <4>1. Total(g[n], field) \in Nat /\ Total(g[n], field) <= FirstTotal(es, n, field)
        BY <2>1, <2>2, TotalType DEF KC
      <4> QED  BY <2>4, <4>1
    <3>3. Len(g[n]) \in Nat /\ Len(g[n]) < n + 1
      BY <2>1, <2>2
    <3>4. FirstKeys(es, n + 1) \ gone = FirstKeys(es, n) \ gone
      BY <2>3, <2>5
    <3> QED  BY <2>1, <3>1, <3>2, <3>3, <3>4
  <2>6. CASE es[n + 1].key \notin gone
    <3> DEFINE c == es[n + 1]
               h == Append(g[n], c)
    <3>1. g[n + 1] = h
      BY <1>1, <2>1, <2>6
    <3>2. Len(h) = Len(g[n]) + 1 /\ Len(g[n]) \in Nat
      BY <2>2
    <3>3. DOMAIN h = DOMAIN g[n] \cup {Len(g[n]) + 1} /\ Len(g[n]) + 1 \notin DOMAIN g[n]
          /\ h[Len(g[n]) + 1] = c /\ \A i \in DOMAIN g[n] : h[i] = g[n][i]
      <4>1. DOMAIN g[n] = 1 .. Len(g[n]) /\ DOMAIN h = 1 .. (Len(g[n]) + 1) /\ Len(g[n]) \in Nat
        BY <2>2
      <4>2. h[Len(g[n]) + 1] = c /\ \A i \in 1 .. Len(g[n]) : h[i] = g[n][i]
        BY <2>2
      <4> QED  BY <4>1, <4>2
    <3>4. \A field \in Counts : Total(h, field) <= FirstTotal(es, n + 1, field)
      <4> TAKE field \in Counts
      <4>1. Total(g[n], field) \in Nat /\ Total(g[n], field) <= FirstTotal(es, n, field)
        BY <2>1, <2>2, TotalType DEF KC
      <4>2. Total(h, field) = Total(g[n], field) + c[field]
        BY <2>2, TotalAppended DEF KC
      <4> QED  BY <2>4, <4>1, <4>2
    <3> HIDE DEF h
    <3>5. KeysOf(h) = KeysOf(g[n]) \cup {c.key}
      BY <3>3 DEF KeysOf
    <3>6. \A i \in DOMAIN g[n] : g[n][i].key \in FirstKeys(es, n)
      BY <2>1 DEF KeysOf
    <3>7. Distinct(h)
      BY <2>1, <2>3, <3>3, <3>6 DEF Distinct
    <3>8. KeysOf(h) = FirstKeys(es, n + 1) \ gone
      BY <2>1, <2>3, <2>6, <3>5
    <3>9. Len(h) <= n + 1 /\ (FirstKeys(es, n + 1) \cap gone # {} => Len(h) < n + 1)
      <4>1. FirstKeys(es, n + 1) \cap gone = FirstKeys(es, n) \cap gone
        BY <2>3, <2>6
      <4> QED  BY <2>1, <3>2, <4>1
    <3> QED  BY <3>1, <3>4, <3>7, <3>8, <3>9
  <2> QED  BY <2>5, <2>6
<1> HIDE DEF Good
<1>5. \A n \in Nat : n \in N => n + 1 \in N
  <2> SUFFICES ASSUME NEW n \in Nat, n \in N PROVE n + 1 \in N
    OBVIOUS
  <2> QED  BY <1>4
<1> HIDE DEF N
<1>6. Nat \subseteq N
  BY <1>3, <1>5, Induction
<1>7. Good(Len(es))
  BY <1>2, <1>6 DEF N
<1>8. FirstKeys(es, Len(es)) = KeysOf(es)
  BY <1>2 DEF KeysOf, FirstKeys
<1>9. \A field \in Counts : FirstTotal(es, Len(es), field) = Total(es, field)
  BY <1>2 DEF Total, FirstTotal
<1>10. EntriesWithout(es, gone) \in Seq(KC)
  BY <1>1, <1>2
<1> QED  BY <1>1, <1>7, <1>8, <1>9, <1>10 DEF Good, KC

\* How many keys a cap leaves room for.
Room(cap) == IF cap > 1 THEN cap ELSE 1

KeysInv(s) ==
    /\ Distinct(s.trackedKeys)
    /\ \A field \in Counts : Total(s.trackedKeys, field) <= s[field]
    /\ s.maxTrackedKeys # Unbounded => Len(s.trackedKeys) <= Room(s.maxTrackedKeys)

LEMMA LeastNumber ==
    ASSUME NEW S \in SUBSET Nat, S # {}
    PROVE  \E m \in S : \A n \in S : m <= n
<1>1. PICK m \in S : \A n \in S : <<n, m>> \notin OpToRel(<, Nat)
  BY WFMin, NatLessThanWellFounded, Zenon
<1>2. \A n \in S : ~(n < m)
  BY <1>1, Zenon DEF OpToRel
<1> QED  BY <1>2

\* Of the entries whose key is not protected one sorts before all others.
LEMMA FirstToGo ==
    ASSUME NEW keys, NEW es \in Seq(KeyCounters(keys)), NEW others \in SUBSET DOMAIN es, others # {}
    PROVE  \E i \in others : {j \in others : SortedBefore(es, j, i)} = {}
<1>1. \A i \in others : totalOf(es[i]) \in Nat
  <2>1. \A i \in others : es[i]["sets"] \in Nat /\ es[i]["deletes"] \in Nat
    BY CounterType DEF Counts
  <2> QED  BY <2>1 DEF totalOf
<1> DEFINE S == {totalOf(es[i]) : i \in others}
<1>2. S \in SUBSET Nat /\ S # {}
  BY <1>1
<1>3. PICK m \in S : \A n \in S : m <= n
  <2> HIDE DEF S
  <2> QED  BY <1>2, LeastNumber
<1> DEFINE T == {i \in others : totalOf(es[i]) = m}
<1>4. T \in SUBSET Nat /\ T # {}
  <2>1. DOMAIN es \subseteq Nat
    OBVIOUS
  <2> QED  BY <2>1
<1>5. PICK i \in T : \A n \in T : i <= n
  <2> HIDE DEF T
  <2> QED  BY <1>4, LeastNumber
<1>6. i \in others /\ totalOf(es[i]) = m /\ m \in Nat
  BY <1>1
<1>7. ASSUME NEW j \in others, SortedBefore(es, j, i) PROVE FALSE
  <2>1. totalOf(es[j]) \in Nat /\ m <= totalOf(es[j]) /\ j \in Nat /\ i \in Nat
    BY <1>1, <1>3, <1>4, <1>5
  <2>2. totalOf(es[j]) = m /\ j < i
    BY <1>6, <1>7, <2>1 DEF SortedBefore
  <2>3. j \in T
    BY <2>2
  <2> QED  BY <1>5, <2>1, <2>2, <2>3
<1> QED  BY <1>6, <1>7

\* Pruning keeps the protected key and makes room.
LEMMA Pruned ==
    ASSUME NEW keys, NEW es \in Seq(KeyCounters(keys)), Distinct(es), NEW k \in KeysOf(es),
           NEW cap \in Nat \cup {Unbounded}, cap # Unbounded => Len(es) <= Room(cap) + 1
    PROVE  LET rest == pruneTrackedKeys(es, k, cap)
           IN  /\ rest \in Seq(KeyCounters(keys)) /\ Distinct(rest) /\ k \in KeysOf(rest)
               /\ cap # Unbounded => Len(rest) <= Room(cap)
               /\ \A field \in Counts : Total(rest, field) <= Total(es, field)
<1> DEFINE tenths == (cap * 9) \div 10
           target == IF tenths > 1 THEN tenths ELSE 1
           others == {i \in DOMAIN es : es[i].key # k}
           pruned == {i \in others : Cardinality({j \in others : SortedBefore(es, j, i)}) < Len(es) - target}
           gone == {es[i].key : i \in pruned}
           rest == EntriesWithout(es, gone)
<1>1. \A field \in Counts : Total(es, field) \in Nat
  BY TotalType
<1>2. CASE cap = Unbounded \/ Len(es) <= cap
  <2>1. pruneTrackedKeys(es, k, cap) = es
    BY <1>2 DEF pruneTrackedKeys
  <2>2. cap # Unbounded => Len(es) <= Room(cap)
    BY <1>2 DEF Room
  <2> QED  BY <1>1, <2>1, <2>2
<1>3. CASE ~(cap = Unbounded \/ Len(es) <= cap)
  <2>1. pruneTrackedKeys(es, k, cap) = rest
    BY <1>3 DEF pruneTrackedKeys
  <2>2. cap \in Nat /\ Len(es) \in Nat /\ Len(es) > cap /\ Room(cap) \in Nat
    BY <1>3 DEF Room
  <2>3. k \notin gone /\ gone \subseteq KeysOf(es)
    BY DEF KeysOf
  <2>4. ASSUME Len(es) > Room(cap) PROVE KeysOf(es) \cap gone # {}
    <3>1. others # {}
      <4>1. Len(es) >= 2
        BY <2>2, <2>4 DEF Room
      <4>2. 1 \in DOMAIN es /\ 2 \in DOMAIN es
        BY <2>2, <4>1
      <4>3. es[1].key # es[2].key
        BY <4>2 DEF Distinct
      <4> QED  BY <4>2, <4>3
    <3>2. PICK i \in others : {j \in others : SortedBefore(es, j, i)} = {}
      <4>1. others \in SUBSET DOMAIN es
        OBVIOUS
      <4> HIDE DEF others
      <4> QED  BY <3>1, <4>1, FirstToGo
    <3>3. target \in Nat /\ target <= Room(cap)
      <4>1. tenths \in Nat /\ tenths <= cap
        BY <2>2
      <4> HIDE DEF tenths
      <4> QED  BY <2>2, <4>1 DEF Room
    <3> HIDE DEF target
    <3>4. 0 < Len(es) - target
      BY <2>2, <2>4, <3>3
    <3>5. Cardinality({j \in others : SortedBefore(es, j, i)}) = 0
      BY <3>2, FS_EmptySet
    <3>6. i \in pruned
      BY <3>4, <3>5
    <3> HIDE DEF pruned
    <3>7. es[i].key \in gone
      BY <3>6
    <3> QED  BY <2>3, <3>7
  <2> HIDE DEF gone
  <2>5. /\ rest \in Seq(KeyCounters(keys)) /\ Distinct(rest)
        /\ KeysOf(rest) = KeysOf(es) \ gone
        /\ Len(rest) <= Len(es)
        /\ KeysOf(es) \cap gone # {} => Len(rest) < Len(es)
        /\ \A field \in Counts : Total(rest, field) <= Total(es, field)
    BY EntriesWithoutKeys
  <2> HIDE DEF rest
  <2>6. Len(rest) \in Nat
    BY <2>5
  <2>7. Len(rest) <= Room(cap)
    <3>1. Len(es) <= Room(cap) + 1
      BY <1>3
    <3>2. CASE Len(es) > Room(cap)
      <4>1. Len(rest) < Len(es)
        BY <2>4, <2>5, <3>2
      <4> HIDE DEF tenths, target, others, pruned
      <4> QED  BY <2>2, <2>6, <3>1, <4>1
    <3>3. CASE ~(Len(es) > Room(cap))
      <4> HIDE DEF tenths, target, others, pruned
      <4> QED  BY <2>2, <2>5, <2>6, <3>3
    <3> QED  BY <3>2, <3>3
  <2> QED  BY <2>1, <2>3, <2>5, <2>7
<1> QED  BY <1>2, <1>3

LEMMA TotalSame ==
    ASSUME NEW keys, NEW es \in Seq(KeyCounters(keys)), NEW gs \in Seq(KeyCounters(keys)),
           NEW field \in Counts, DOMAIN gs = DOMAIN es,
           \A i \in DOMAIN es : gs[i][field] = es[i][field]
    PROVE  Total(gs, field) = Total(es, field)
<1> DEFINE f == [i \in DOMAIN es |-> es[i][field]]
           g == [i \in DOMAIN gs |-> gs[i][field]]
<1>1. IsFiniteSet(DOMAIN es)
  BY TotalType
<1>2. \A i \in DOMAIN es : f[i] \in Nat /\ f[i] = g[i]
  BY CounterType
<1>3. Total(es, field) = SumFunctionOnSet(f, DOMAIN es) /\ Total(gs, field) = SumFunctionOnSet(g, DOMAIN es)
  BY DEF Total
<1> HIDE DEF f, g
<1> QED  BY <1>1, <1>2, <1>3, SumSame

\* Recording a key: it is tracked, and the totals stay ahead of the counters.
LEMMA RecordKeyKeys ==
    ASSUME NEW keys, NEW s \in AllStats(keys), NEW k \in keys, NEW field \in Counts,
           KeysInv(s), s.enabled
    PROVE  LET r == recordKey(increment(s, field, 1), k, field)
           IN  /\ r \in AllStats(keys) /\ KeysInv(r)
               /\ r.enabled /\ r.trackKeys = s.trackKeys
               /\ s.trackKeys => k \in Tracked(r)
               /\ r.sets = (IF field = "sets" THEN s.sets + 1 ELSE s.sets)
<1> DEFINE u == increment(s, field, 1)
           KC == KeyCounters(keys)
           new == [key |-> k, sets |-> 0, deletes |-> 0]
           more == Append(u.trackedKeys, new)
           cap == s.maxTrackedKeys
           es == IF k \in Tracked(u) THEN u.trackedKeys ELSE pruneTrackedKeys(more, k, u.maxTrackedKeys)
           gs == [i \in DOMAIN es |-> IF es[i].key = k THEN [es[i] EXCEPT ![field] = @ + 1] ELSE es[i]]
           r == recordKey(u, k, field)
<1>1. /\ u \in AllStats(keys) /\ u.enabled /\ u.trackKeys = s.trackKeys
      /\ u.trackedKeys = s.trackedKeys /\ u.maxTrackedKeys = cap
      /\ u.sets = (IF field = "sets" THEN s.sets + 1 ELSE s.sets)
      /\ u.deletes = (IF field = "deletes" THEN s.deletes + 1 ELSE s.deletes)
  <2>1. increment(s, field, 1) \in AllStats(keys)
    BY IncrementType DEF Totals, Counts
  <2>2. CASE field = "sets"
    <3>1. u = [s EXCEPT !.sets = @ + 1]
      BY <2>2 DEF increment
    <3> QED  BY <2>1, <2>2, <3>1 DEF AllStats
  <2>3. CASE field = "deletes"
    <3>1. u = [s EXCEPT !.deletes = @ + 1]
      BY <2>3 DEF increment
    <3> QED  BY <2>1, <2>3, <3>1 DEF AllStats
  <2> QED  BY <2>2, <2>3 DEF Counts
<1> HIDE DEF u
<1>2. s.trackedKeys \in Seq(KC) /\ cap \in Nat \cup {Unbounded} /\ s.sets \in Nat /\ s.deletes \in Nat
      /\ u.sets \in Nat /\ u.deletes \in Nat
  BY <1>1 DEF AllStats
<1>3. Distinct(s.trackedKeys) /\ (\A a \in Counts : Total(s.trackedKeys, a) <= s[a])
      /\ (cap # Unbounded => Len(s.trackedKeys) <= Room(cap))
  BY DEF KeysInv
<1>4. KeysOf(s.trackedKeys) = Tracked(u)
  BY <1>1 DEF KeysOf, Tracked
<1>5. /\ es \in Seq(KC) /\ Distinct(es) /\ k \in KeysOf(es)
      /\ cap # Unbounded => Len(es) <= Room(cap)
      /\ \A a \in Counts : Total(es, a) <= s[a]
  <2>1. CASE k \in Tracked(u)
    BY <1>1, <1>2, <1>3, <1>4, <2>1
  <2>2. CASE k \notin Tracked(u)
    <3> DEFINE old == s.trackedKeys
    <3>1. new \in KC
      BY DEF KeyCounters
    <3>2. more = Append(old, new) /\ old \in Seq(KC) /\ k \notin KeysOf(old)
      BY <1>1, <1>2, <1>4, <2>2
    <3>3. more \in Seq(KC) /\ Len(more) = Len(old) + 1 /\ Len(old) \in Nat
          /\ DOMAIN more = DOMAIN old \cup {Len(old) + 1} /\ more[Len(old) + 1] = new
          /\ \A i \in DOMAIN old : more[i] = old[i]
      <4>1. Append(old, new) \in Seq(KC) /\ Len(Append(old, new)) = Len(old) + 1 /\ Len(old) \in Nat
            /\ DOMAIN Append(old, new) = 1 .. (Len(old) + 1) /\ DOMAIN old = 1 .. Len(old)
        BY <3>1, <3>2
      <4>2. Append(old, new)[Len(old) + 1] = new
            /\ \A i \in 1 .. Len(old) : Append(old, new)[i] = old[i]
        BY <3>1, <3>2
      <4>3. more = Append(old, new)
        BY <3>2
      <4> HIDE DEF more, new, old, es, gs, r
      <4> QED  BY <4>1, <4>2, <4>3
    <3>4. \A a \in Counts : Total(more, a) = Total(old, a) /\ Total(old, a) \in Nat
      <4> TAKE a \in Counts
      <4>1. Total(Append(old, new), a) = Total(old, a) + new[a]
        BY <3>1, <3>2, TotalAppended
      <4>2. new[a] = 0
        BY DEF Counts
      <4>3. Total(old, a) \in Nat
        BY <3>2, TotalType
      <4>4. more = Append(old, new)
        BY <3>2
      <4> HIDE DEF more, new, old, es, gs, r
      <4> QED  BY <4>1, <4>2, <4>3, <4>4
    <3> HIDE DEF more, old
    <3>5. Distinct(more) /\ k \in KeysOf(more)
      <4>1. new.key = k
        OBVIOUS
      <4>2. \A i \in DOMAIN old : old[i].key # k
        BY <3>2 DEF KeysOf
      <4>3. Distinct(old)
        BY <1>3 DEF old
      <4> HIDE DEF new
      <4> QED  BY <3>3, <4>1, <4>2, <4>3 DEF Distinct, KeysOf
    <3>6. cap # Unbounded => Len(more) <= Room(cap) + 1
      <4>1. cap # Unbounded => Room(cap) \in Nat
        BY <1>2 DEF Room
      <4> QED  BY <1>3, <3>3, <4>1 DEF old
    <3> DEFINE rest == pruneTrackedKeys(more, k, cap)
    <3> HIDE DEF cap
    <3>7. /\ rest \in Seq(KC) /\ Distinct(rest) /\ k \in KeysOf(rest)
          /\ cap # Unbounded => Len(rest) <= Room(cap)
          /\ \A a \in Counts : Total(rest, a) <= Total(more, a)
      BY <1>2, <3>3, <3>5, <3>6, Pruned
    <3>8. es = rest
      BY <1>1, <2>2
    <3> HIDE DEF rest, es
    <3>9. \A a \in Counts : Total(rest, a) <= s[a]
      <4> TAKE a \in Counts
      <4>1. Total(rest, a) \in Nat /\ s[a] \in Nat
        BY <1>2, <3>7, TotalType DEF Counts
      <4> QED  BY <1>3, <3>4, <3>7, <4>1 DEF old
    <3> QED  BY <3>7, <3>8, <3>9
  <2> QED  BY <2>1, <2>2
<1> HIDE DEF es
<1>6. PICK n \in DOMAIN es : es[n].key = k
  BY <1>5 DEF KeysOf
<1>7. \A i \in DOMAIN es : i # n => es[i].key # k
  BY <1>5, <1>6 DEF Distinct
<1>8. ASSUME NEW i \in DOMAIN es
      PROVE  LET c == [es[i] EXCEPT ![field] = @ + 1]
             IN  /\ c \in KC /\ es[i] \in KC /\ c.key = es[i].key
                 /\ c[field] = es[i][field] + 1
                 /\ \A a \in Counts \ {field} : c[a] = es[i][a]
  <2>1. es[i] \in KC
    BY <1>5
  <2>2. CASE field = "sets"
    BY <2>1, <2>2 DEF KeyCounters, Counts
  <2>3. CASE field = "deletes"
    BY <2>1, <2>3 DEF KeyCounters, Counts
  <2> QED  BY <2>2, <2>3 DEF Counts
<1>9. /\ gs \in Seq(KC) /\ DOMAIN gs = DOMAIN es /\ Len(gs) = Len(es)
      /\ \A i \in DOMAIN es : gs[i].key = es[i].key
      /\ gs[n][field] = es[n][field] + 1
      /\ \A i \in DOMAIN es \ {n} : gs[i] = es[i]
      /\ \A a \in Counts \ {field} : \A i \in DOMAIN es : gs[i][a] = es[i][a]
  <2>1. \A i \in DOMAIN es : gs[i] = IF es[i].key = k THEN [es[i] EXCEPT ![field] = @ + 1] ELSE es[i]
    OBVIOUS
  <2>2. DOMAIN es = 1 .. Len(es) /\ Len(es) \in Nat /\ DOMAIN gs = DOMAIN es
    BY <1>5
  <2>3. \A i \in 1 .. Len(es) : gs[i] \in KC
    BY <1>8, <2>1, <2>2
  <2>4. gs = [i \in 1 .. Len(es) |-> gs[i]]
    BY <2>2
  <2> HIDE DEF gs
  <2>5. gs \in Seq(KC) /\ Len(gs) = Len(es)
    BY <2>2, <2>3, <2>4
  <2>6. gs[n] = [es[n] EXCEPT ![field] = @ + 1]
    BY <1>6, <2>1
  <2>7. \A i \in DOMAIN es \ {n} : gs[i] = es[i]
    BY <1>7, <2>1
  <2>8. gs[n].key = es[n].key /\ gs[n][field] = es[n][field] + 1
    BY <1>6, <1>8, <2>6
  <2>9. \A i \in DOMAIN es : gs[i].key = es[i].key
    BY <2>7, <2>8
  <2>10. \A a \in Counts \ {field} : gs[n][a] = es[n][a]
    BY <1>6, <1>8, <2>6
  <2>11. \A a \in Counts \ {field} : \A i \in DOMAIN es : gs[i][a] = es[i][a]
    BY <2>7, <2>10
  <2> QED  BY <2>2, <2>5, <2>7, <2>8, <2>9, <2>11
<1>10. r = IF s.trackKeys THEN [u EXCEPT !.trackedKeys = gs] ELSE u
  BY <1>1 DEF recordKey, es
<1> HIDE DEF gs, r
<1>11. \A a \in Counts : Total(gs, a) <= u[a] /\ Total(s.trackedKeys, a) <= u[a]
  <2> TAKE a \in Counts
  <2>1. Total(gs, a) \in Nat /\ Total(es, a) \in Nat /\ Total(s.trackedKeys, a) \in Nat /\ s[a] \in Nat
    BY <1>2, <1>5, <1>9, TotalType DEF Counts
  <2>2. u[a] = IF a = field THEN s[a] + 1 ELSE s[a]
    BY <1>1 DEF Counts
  <2>3. a = field => Total(gs, a) <= Total(es, a) + 1
    <3> SUFFICES ASSUME a = field PROVE Total(gs, field) <= Total(es, field) + 1
      OBVIOUS
    <3>1. gs[n][field] \in Nat /\ es[n][field] \in Nat
      BY <1>5, <1>6, <1>9, CounterType
    <3>2. gs[n][field] <= es[n][field] + 1
      BY <1>9, <3>1
    <3>3. \A i \in DOMAIN es \ {n} : gs[i][field] = es[i][field]
      BY <1>9
    <3> HIDE DEF KC
    <3> QED  BY <1>5, <1>6, <1>9, <3>2, <3>3, TotalChanged DEF KC
  <2>4. a # field => Total(gs, a) = Total(es, a)
    BY <1>5, <1>9, TotalSame
  <2>5. Total(es, a) <= s[a] /\ Total(s.trackedKeys, a) <= s[a]
    BY <1>3, <1>5
  <2> QED  BY <2>1, <2>2, <2>3, <2>4, <2>5
<1>12. Distinct(gs) /\ KeysOf(gs) = KeysOf(es)
  BY <1>5, <1>9 DEF Distinct, KeysOf
<1>13. CASE s.trackKeys
  <2>1. r = [u EXCEPT !.trackedKeys = gs]
    BY <1>10, <1>13
  <2>2. r \in AllStats(keys) /\ r.trackedKeys = gs /\ r.maxTrackedKeys = cap /\ r.sets = u.sets
        /\ r.deletes = u.deletes /\ r.enabled = u.enabled /\ r.trackKeys = u.trackKeys
    BY <1>1, <1>9, <2>1 DEF AllStats
  <2>3. \A a \in Counts : Total(gs, a) <= r[a]
    BY <1>11, <2>2 DEF Counts
  <2>4. k \in Tracked(r)
    BY <1>5, <1>12, <2>2 DEF Tracked, KeysOf
  <2>5. KeysInv(r)
    BY <1>5, <1>9, <1>12, <2>2, <2>3 DEF KeysInv
  <2> QED  BY <1>1, <2>2, <2>4, <2>5 DEF r, u
<1>14. CASE ~s.trackKeys
  <2>1. r = u
    BY <1>10, <1>14
  <2>2. KeysInv(u)
    BY <1>1, <1>3, <1>11 DEF KeysInv
  <2> QED  BY <1>1, <1>14, <2>1, <2>2 DEF r, u
<1> QED  BY <1>13, <1>14

\* What an event does to the keys of a subscriber, and to its number of sets.
LEMMA EventKeys ==
    ASSUME NEW keys, NEW s \in AllStats(keys), KeysInv(s), NEW name, NEW k,
           name \in {"set", "del"} => k \in keys
    PROVE  LET r == applyEvent(s, [name |-> name, key |-> k])
           IN  /\ r \in AllStats(keys) /\ KeysInv(r)
               /\ r.enabled = s.enabled /\ r.trackKeys = s.trackKeys
               /\ ~s.enabled => r = s
               /\ name # "set" => r.sets <= s.sets
               /\ name = "set" /\ s.enabled /\ s.trackKeys => k \in Tracked(r)
<1> DEFINE e == [name |-> name, key |-> k]
           r == applyEvent(s, e)
           Right == /\ r \in AllStats(keys) /\ KeysInv(r)
                    /\ r.enabled = s.enabled /\ r.trackKeys = s.trackKeys
                    /\ ~s.enabled => r = s
                    /\ name # "set" => r.sets <= s.sets
                    /\ name = "set" /\ s.enabled /\ s.trackKeys => k \in Tracked(r)
<1> SUFFICES Right
  OBVIOUS
<1>1. r \in AllStats(keys)
  BY EventType
<1> HIDE DEF r
<1>2. /\ s.sets \in Nat /\ s.deletes \in Nat /\ s.clears \in Nat
      /\ s.enabled \in BOOLEAN /\ s.trackKeys \in BOOLEAN
      /\ s.maxTrackedKeys \in Nat \cup {Unbounded} /\ s.trackedKeys \in Seq(KeyCounters(keys))
  BY DEF AllStats
<1>3. CASE ~s.enabled
  <2>1. r = s
    BY <1>3 DEF applyEvent, r
  <2> QED  BY <1>1, <1>2, <1>3, <2>1
<1>4. CASE s.enabled /\ name \in {"set", "del"}
  <2> DEFINE field == IF name = "set" THEN "sets" ELSE "deletes"
  <2>1. r = recordKey(increment(s, field, 1), k, field)
    BY <1>4 DEF applyEvent, nodeCacheStatsEventMap, r
  <2>2. field \in Counts /\ k \in keys
    BY <1>4 DEF Counts
  <2>3. name = "del" => field # "sets"
    OBVIOUS
  <2> HIDE DEF field
  <2>4. /\ KeysInv(r) /\ r.enabled /\ r.trackKeys = s.trackKeys
        /\ s.trackKeys => k \in Tracked(r)
        /\ r.sets = (IF field = "sets" THEN s.sets + 1 ELSE s.sets)
    BY <1>4, <2>1, <2>2, RecordKeyKeys
  <2>5. r.enabled = s.enabled
    BY <1>4, <2>4
  <2>6. name # "set" => r.sets <= s.sets
    BY <1>2, <1>4, <2>3, <2>4
  <2> QED  BY <1>1, <1>4, <2>4, <2>5, <2>6
<1>5. CASE s.enabled /\ name \notin {"set", "del"}
  <2>1. r = s \/ r = increment(s, "clears", 1) \/ r = reset(s)
    BY <1>5 DEF applyEvent, nodeCacheStatsEventMap, r
  <2>2. CASE r = s
    <3>1. KeysInv(r) /\ r.sets <= s.sets /\ r.enabled = s.enabled /\ r.trackKeys = s.trackKeys
      BY <1>2, <2>2
    <3> QED  BY <1>1, <1>5, <3>1
  <2>3. CASE r = increment(s, "clears", 1)
    <3>1. r = [s EXCEPT !.clears = @ + 1]
      BY <1>5, <2>3 DEF increment
    <3>2. r.sets = s.sets /\ r.deletes = s.deletes /\ r.trackedKeys = s.trackedKeys
          /\ r.maxTrackedKeys = s.maxTrackedKeys /\ r.enabled = s.enabled /\ r.trackKeys = s.trackKeys
      BY <3>1 DEF AllStats
    <3>3. r["sets"] = s["sets"] /\ r["deletes"] = s["deletes"]
      BY <3>2
    <3>4. KeysInv(r)
      BY <3>2, <3>3 DEF KeysInv, Counts
    <3> QED  BY <1>1, <1>2, <1>5, <3>2, <3>4
  <2>4. CASE r = reset(s)
    <3>1. r.sets = 0 /\ r.deletes = 0 /\ r.trackedKeys = <<>> /\ r.maxTrackedKeys = s.maxTrackedKeys
          /\ r.enabled = s.enabled /\ r.trackKeys = s.trackKeys
      BY <2>4 DEF reset, NewStats
    <3>2. \A field \in Counts : Total(<<>>, field) = 0 /\ r[field] = 0
      BY <3>1, SumEmpty DEF Total, Counts
    <3>3. KeysInv(r)
      BY <1>2, <3>1, <3>2 DEF KeysInv, Distinct, Room
    <3> QED  BY <1>1, <1>2, <1>5, <3>1, <3>3
  <2> QED  BY <2>1, <2>2, <2>3, <2>4
<1> QED  BY <1>2, <1>3, <1>4, <1>5

LEMMA HeardKeys ==
    ASSUME TypeInv, KeysInv(subscriber.stats), NEW name, NEW k, name \in {"set", "del"} => k \in CacheKeys
    PROVE  LET s == subscriber.stats
               r == Heard(name, k).stats
           IN  /\ KeysInv(r)
               /\ name # "set" => r.sets <= s.sets
               /\ r.sets > s.sets /\ s.trackKeys => k \in Tracked(r)
<1> DEFINE e == [name |-> name, key |-> k]
           s == subscriber.stats
           s1 == applyEvent(s, e)
           s2 == applyEvent(s1, e)
           r == Heard(name, k).stats
<1>1. s \in AllStats(CacheKeys) /\ subscriber \in [stats : AllStats(CacheKeys), times : 0 .. 2]
  BY DEF TypeInv, CacheTypeOK
<1>2. r = s \/ r = s1 \/ r = s2
  BY <1>1 DEF Heard
<1>3. /\ s1 \in AllStats(CacheKeys) /\ KeysInv(s1)
      /\ s1.enabled = s.enabled /\ s1.trackKeys = s.trackKeys
      /\ ~s.enabled => s1 = s
      /\ name # "set" => s1.sets <= s.sets
      /\ name = "set" /\ s.enabled /\ s.trackKeys => k \in Tracked(s1)
  BY <1>1, EventKeys
<1> HIDE DEF s1
<1>4. /\ s2 \in AllStats(CacheKeys) /\ KeysInv(s2)
      /\ ~s1.enabled => s2 = s1
      /\ name # "set" => s2.sets <= s1.sets
      /\ name = "set" /\ s1.enabled /\ s1.trackKeys => k \in Tracked(s2)
  BY <1>3, EventKeys
<1>5. s.sets \in Nat /\ s1.sets \in Nat /\ s2.sets \in Nat
  BY <1>1, <1>3, <1>4 DEF AllStats
<1> HIDE DEF s, s2, r
<1>6. KeysInv(s)
  BY DEF s
<1>7. CASE r = s
  BY <1>5, <1>6, <1>7 DEF r, s
<1>8. CASE r = s1
  <2>1. name = "set" /\ r.sets > s.sets => s.enabled
    BY <1>3, <1>5, <1>8
  <2>2. r.sets > s.sets => name = "set"
    BY <1>3, <1>5, <1>8
  <2> QED  BY <1>3, <1>8, <2>1, <2>2 DEF r, s
<1>9. CASE r = s2
  <2>1. name # "set" => r.sets <= s.sets
    BY <1>3, <1>4, <1>5, <1>9
  <2>2. name = "set" /\ r.sets > s.sets => s.enabled
    BY <1>3, <1>4, <1>5, <1>9
  <2>3. r.sets > s.sets => name = "set"
    BY <1>5, <1>9, <2>1
  <2> QED  BY <1>3, <1>4, <1>9, <2>1, <2>2, <2>3 DEF r, s
<1> QED  BY <1>2, <1>7, <1>8, <1>9

\* What the program does with its subscriber.
LEMMA SubscriberKeys ==
    ASSUME TypeInv, KeysInv(subscriber.stats), Subscriber
    PROVE  KeysInv(subscriber'.stats) /\ subscriber'.stats.sets = subscriber.stats.sets
<1> DEFINE s == subscriber.stats
<1>1. s \in AllStats(CacheKeys) /\ subscriber \in [stats : AllStats(CacheKeys), times : 0 .. 2]
  BY DEF TypeInv, CacheTypeOK
<1>2. \/ subscriber'.stats = s
      \/ subscriber'.stats = [s EXCEPT !.enabled = ~@]
      \/ subscriber'.stats = clearKeys(s)
  BY <1>1 DEF Subscriber
<1> HIDE DEF s
<1>3. KeysInv(s)
  BY DEF s
<1>4. CASE subscriber'.stats = [s EXCEPT !.enabled = ~@]
  <2> DEFINE r == [s EXCEPT !.enabled = ~@]
  <2>1. r.sets = s.sets /\ r.deletes = s.deletes /\ r.trackedKeys = s.trackedKeys
        /\ r.maxTrackedKeys = s.maxTrackedKeys
    BY <1>1 DEF AllStats
  <2> HIDE DEF r
  <2>2. r["sets"] = s["sets"] /\ r["deletes"] = s["deletes"]
    BY <2>1
  <2>3. KeysInv(r)
    BY <1>3, <2>1, <2>2 DEF KeysInv, Counts
  <2>4. subscriber'.stats = r
    BY <1>4 DEF r
  <2> QED  BY <2>1, <2>3, <2>4 DEF s
<1>5. CASE subscriber'.stats = clearKeys(s)
  <2> DEFINE r == clearKeys(s)
  <2>1. r.sets = s.sets /\ r.deletes = s.deletes /\ r.trackedKeys = <<>>
        /\ r.maxTrackedKeys = s.maxTrackedKeys
    BY <1>1 DEF AllStats, clearKeys
  <2> HIDE DEF r
  <2>2. s.sets \in Nat /\ s.deletes \in Nat /\ s.maxTrackedKeys \in Nat \cup {Unbounded}
    BY <1>1 DEF AllStats
  <2>3. \A field \in Counts : Total(<<>>, field) = 0 /\ r[field] \in Nat
    BY <2>1, <2>2, SumEmpty DEF Total, Counts
  <2>4. KeysInv(r)
    BY <2>1, <2>2, <2>3 DEF KeysInv, Distinct, Room
  <2>5. subscriber'.stats = r
    BY <1>5 DEF r
  <2> QED  BY <2>1, <2>4, <2>5 DEF s
<1> QED  BY <1>2, <1>3, <1>4, <1>5 DEF s

\* A step either stores a key below the limit and says so, or stores none.
LEMMA CapsStep ==
    ASSUME TypeInv, KeysInv(subscriber.stats), LimitKept, Effect, UNCHANGED options
    PROVE  KeysInv(subscriber'.stats) /\ LimitKept' /\ RecordedStaysTracked
<1> DEFINE s == subscriber.stats
           r == subscriber'.stats
           Calm == KeysInv(r) /\ r.sets <= s.sets
<1>1. s.sets \in Nat /\ IsFiniteSet(Stored) /\ Cardinality(Stored) \in Nat
      /\ store \in [CacheKeys -> Entries \cup {undefined}]
  BY FS_CardinalityType DEF TypeInv, CacheTypeOK, AllStats
<1>2. r.sets \in Nat
  <2>1. subscriber' \in [stats : AllStats(CacheKeys), times : 0 .. 2]
    BY DataType DEF DataOK
  <2> QED  BY <2>1 DEF AllStats
<1>3. Calm => RecordedStaysTracked
  BY <1>1, <1>2 DEF RecordedStaysTracked
<1>4. \A name, k : name \notin {"set", "del"} /\ subscriber' = Heard(name, k) => Calm
  BY HeardKeys
<1>5. \A k \in CacheKeys : subscriber' = Heard("del", k) => Calm
  BY HeardKeys
<1>6. UNCHANGED subscriber => Calm
  BY <1>1
<1>7. Subscriber => Calm
  BY <1>1, SubscriberKeys
<1>8. Stored' \subseteq Stored => LimitKept'
  <2> SUFFICES ASSUME Stored' \subseteq Stored PROVE LimitKept'
    OBVIOUS
  <2>1. Cardinality(Stored') <= Cardinality(Stored) /\ Cardinality(Stored') \in Nat
    BY <1>1, FS_Subset, FS_CardinalityType
  <2>2. options.maxKeys \in Int
    BY DEF TypeInv, CacheTypeOK, Options
  <2> QED  BY <1>1, <2>1, <2>2 DEF LimitKept
<1>9. CASE Quiet
  <2>1. Calm
    BY <1>4, <1>6, <1>7, <1>9 DEF Quiet
  <2>2. Stored' \subseteq Stored
    BY <1>9 DEF Quiet, Stored
  <2> HIDE DEF Calm
  <2> QED  BY <1>3, <1>8, <2>1, <2>2 DEF Calm
<1>10. ASSUME NEW below \in Rests, NEW k \in CacheKeys, NEW t \in Ttls, ~Full(k), SetEntry(k, t, below)
       PROVE  KeysInv(r) /\ LimitKept' /\ RecordedStaysTracked
  <2>1. subscriber' = Heard("set", k)
    BY <1>10 DEF SetEntry
  <2>2. KeysInv(r) /\ (r.sets > s.sets /\ s.trackKeys => k \in Tracked(r))
    BY <2>1, HeardKeys
  <2>3. Last(stack').key = k
    <3> DEFINE old == IF store[k] = undefined THEN undefined ELSE store[k].value
               ahead == IF old # undefined THEN below ELSE Unseen(below, k)
               f == Frame("countSet", k, sets + 1, old)
    <3>1. stack' = Append(ahead, f)
      BY <1>10 DEF SetEntry, Unseen
    <3>2. ahead \in Seq(ProperFrames)
      BY UnseenRest DEF Rests
    <3>3. f.key = k
      BY DEF Frame
    <3> HIDE DEF ahead, f
    <3>4. Last(Append(ahead, f)) = f
      BY <3>2 DEF Last
    <3> QED  BY <3>1, <3>3, <3>4
  <2>4. RecordedStaysTracked
    BY <2>2, <2>3 DEF RecordedStaysTracked
  <2>5. LimitKept'
    <3> SUFFICES ASSUME options.maxKeys > 0 PROVE Cardinality(Stored') <= options.maxKeys
      BY DEF LimitKept
    <3>1. Cardinality(Stored) <= options.maxKeys /\ options.maxKeys \in Int
      BY DEF LimitKept, TypeInv, CacheTypeOK, Options
    <3>2. Stored' \subseteq Stored \cup {k}
      BY <1>1, <1>10 DEF SetEntry, Stored
    <3>3. IsFiniteSet(Stored \cup {k})
          /\ Cardinality(Stored \cup {k}) = IF k \in Stored THEN Cardinality(Stored) ELSE Cardinality(Stored) + 1
      BY <1>1, FS_AddElement
    <3>4. Cardinality(Stored') <= Cardinality(Stored \cup {k}) /\ Cardinality(Stored') \in Nat
      BY <3>2, <3>3, FS_Subset, FS_CardinalityType
    <3>5. k \in Stored \/ ~(Cardinality(Stored) >= options.maxKeys)
      BY <1>10 DEF Full, Stored
    <3> QED  BY <1>1, <3>1, <3>3, <3>4, <3>5
  <2> QED  BY <2>2, <2>4, <2>5
<1>11. ASSUME \/ \E below \in Rests : Throw(below)
              \/ stack # <<>> /\ (CountSet(Last(stack)) \/ CountDel(Last(stack)))
       PROVE  KeysInv(r) /\ LimitKept' /\ RecordedStaysTracked
  <2>1. UNCHANGED subscriber /\ Stored' \subseteq Stored
    BY <1>11 DEF Throw, CountSet, CountDel, Stored
  <2>2. Calm
    BY <1>6, <2>1
  <2> QED  BY <1>3, <1>8, <2>1, <2>2
<1>12. ASSUME NEW k \in CacheKeys, Removing(k)
       PROVE  KeysInv(r) /\ LimitKept' /\ RecordedStaysTracked
  <2>1. subscriber' = Heard("del", k) /\ store' = [store EXCEPT ![k] = undefined]
    BY <1>12 DEF Removing, Delete
  <2>2. Stored' \subseteq Stored
    BY <1>1, <2>1 DEF Stored
  <2>3. Calm
    BY <1>5, <2>1
  <2> QED  BY <1>3, <1>8, <2>2, <2>3
<1>13. CASE Announcement
  <2>1. \E k : subscriber' = Heard("expired", k)
    BY <1>13 DEF Announcement, Announce
  <2>2. Stored' \subseteq Stored
    BY <1>13 DEF Announcement, Announce, Stored
  <2>3. Calm
    BY <1>4, <2>1
  <2> QED  BY <1>3, <1>8, <2>2, <2>3
<1>14. CASE flushStats \/ flushAll
  <2>1. subscriber' = Heard("flush_stats", undefined)
    BY <1>14 DEF flushStats, flushAll, FlushStats
  <2>2. Stored' \subseteq Stored
    BY <1>14 DEF flushStats, flushAll, Stored
  <2>3. Calm
    BY <1>4, <2>1
  <2> QED  BY <1>3, <1>8, <2>2, <2>3
<1> QED  BY <1>9, <1>10, <1>11, <1>12, <1>13, <1>14 DEF Effect

CapsInv == KeysInv(subscriber.stats) /\ LimitKept

\* The invariant says of the subscriber what the property does.
LEMMA TotalsOfKeys ==
    CacheTypeOK /\ CapsInv => KeysWithinTotals
<1> SUFFICES ASSUME CacheTypeOK, KeysInv(subscriber.stats) PROVE KeysWithinTotals
  BY DEF CapsInv
<1> DEFINE s == subscriber.stats
           es == s.trackedKeys
<1>1. es \in Seq(KeyCounters(CacheKeys)) /\ s.maxTrackedKeys \in Nat \cup {Unbounded}
  BY DEF CacheTypeOK, AllStats
<1>2. SumOf("sets") <= s.sets /\ SumOf("deletes") <= s.deletes
  <2>1. Total(es, "sets") <= s["sets"] /\ Total(es, "deletes") <= s["deletes"]
    BY DEF KeysInv, Counts
  <2>2. SumOf("sets") = Total(es, "sets") /\ SumOf("deletes") = Total(es, "deletes")
    BY DEF SumOf, Total
  <2> QED  BY <2>1, <2>2
<1>3. Cardinality(Tracked(s)) = Len(es)
  <2> DEFINE D == 1 .. Len(es)
             T == Tracked(s)
             f == [i \in D |-> es[i].key]
  <2>1. DOMAIN es = D /\ Len(es) \in Nat
    BY <1>1
  <2>2. T = {es[i].key : i \in D}
    BY <2>1 DEF Tracked
  <2>3. \A i, j \in D : es[i].key = es[j].key => i = j
    BY <2>1 DEF KeysInv, Distinct
  <2>4. f \in Bijection(D, T)
    <3> HIDE DEF D, T
    <3>1. f \in [D -> T]
      BY <2>2
    <3>2. \A t \in T : \E i \in D : f[i] = t
      BY <2>2
    <3>3. \A i, j \in D : f[i] = f[j] => i = j
      BY <2>3
    <3> QED  BY <3>1, <3>2, <3>3 DEF Bijection, Injection, Surjection, IsInjective
  <2>5. IsFiniteSet(D) /\ Cardinality(D) = Len(es)
    <3>1. Len(es) \in Int /\ (Len(es) < 1 => Len(es) = 0)
      BY <2>1
    <3> HIDE DEF es, s
    <3>2. IsFiniteSet(1 .. Len(es)) /\ Cardinality(1 .. Len(es)) = IF 1 > Len(es) THEN 0 ELSE Len(es) - 1 + 1
      BY <3>1, FS_Interval
    <3> QED  BY <2>1, <3>1, <3>2 DEF D
  <2>6. ExistsBijection(D, T)
    BY <2>4 DEF ExistsBijection
  <2> HIDE DEF D, T
  <2>7. Cardinality(T) = Cardinality(D)
    BY <2>5, <2>6, FS_Bijection
  <2> QED  BY <2>5, <2>7 DEF T
<1>4. ASSUME s.maxTrackedKeys # Unbounded
      PROVE  Len(es) <= Max({1, s.maxTrackedKeys})
  <2> DEFINE cap == s.maxTrackedKeys
  <2>1. cap \in Nat /\ Len(es) <= Room(cap)
    BY <1>1, <1>4 DEF KeysInv
  <2> HIDE DEF cap
  <2>2. \E x \in {1, cap} : \A y \in {1, cap} : x >= y
    BY <2>1
  <2>3. Max({1, cap}) \in {1, cap} /\ \A y \in {1, cap} : Max({1, cap}) >= y
    BY <2>2 DEF Max
  <2>4. Max({1, cap}) = Room(cap)
    BY <2>1, <2>3 DEF Room
  <2> QED  BY <2>1, <2>4 DEF cap
<1> QED  BY <1>2, <1>3, <1>4 DEF KeysWithinTotals

LEMMA TotalsNext == CacheTypeOK' /\ CapsInv' => KeysWithinTotals'
BY TotalsOfKeys, PTL

\* maxKeys holds over every nesting of calls; a subscribed Stats tracks no more
\* keys than its cap, counts no more for keys than in total, and tracks the key
\* it has just recorded.
THEOREM CapsHold == CacheSpec => CapsKept
<1> DEFINE Inv == TypeInv /\ CapsInv
<1>1. CacheInit => Inv
  <2> SUFFICES ASSUME CacheInit PROVE KeysInv(subscriber.stats) /\ LimitKept
    BY TypeStart DEF CapsInv
  <2>1. Stored = {}
    BY DEF CacheInit, Stored
  <2>2. options.maxKeys \in Int /\ Cardinality(Stored) = 0
    BY <2>1, TypeStart, FS_EmptySet DEF TypeInv, CacheTypeOK, Options
  <2>3. PICK cap \in TrackedCaps : subscriber = [stats |-> NewStats(TRUE, TRUE, cap), times |-> 0]
    BY DEF CacheInit
  <2>4. cap \in Nat \cup {Unbounded}
    BY NodeCacheAssumption
  <2>5. subscriber.stats.trackedKeys = <<>> /\ subscriber.stats.maxTrackedKeys = cap
        /\ subscriber.stats.sets = 0 /\ subscriber.stats.deletes = 0
    BY <2>3 DEF NewStats
  <2>6. \A field \in Counts : Total(<<>>, field) = 0 /\ subscriber.stats[field] = 0
    BY <2>5, SumEmpty DEF Total, Counts
  <2> QED  BY <2>2, <2>4, <2>5, <2>6 DEF KeysInv, Distinct, Room, LimitKept
<1>2. Inv /\ [CacheNext]_cacheVars =>
        Inv' /\ (CacheNext => LimitKept' /\ KeysWithinTotals' /\ RecordedStaysTracked)
  <2> SUFFICES ASSUME Inv, [CacheNext]_cacheVars
               PROVE  Inv' /\ (CacheNext => LimitKept' /\ KeysWithinTotals' /\ RecordedStaysTracked)
    OBVIOUS
  <2>1. TypeInv'
    BY TypeStep
  <2>2. CASE CacheNext
    <3>1. KeysInv(subscriber'.stats) /\ LimitKept' /\ RecordedStaysTracked
      BY <2>2, StepEffect, SettingsKept, CapsStep DEF CapsInv
    <3>2. CacheTypeOK'
      BY <2>1 DEF TypeInv
    <3>3. CapsInv'
      BY <3>1 DEF CapsInv
    <3> QED  BY <2>1, <3>1, <3>2, <3>3, TotalsNext
  <2>3. CASE ~CacheNext
    <3>1. UNCHANGED cacheVars
      BY <2>3
    <3>2. UNCHANGED <<subscriber, options, store>>
      BY <3>1 DEF cacheVars
    <3>3. KeysInv(subscriber'.stats) /\ LimitKept'
      BY <3>2 DEF LimitKept, Stored, CapsInv
    <3> QED  BY <2>1, <2>3, <3>3 DEF CapsInv
  <2> QED  BY <2>2, <2>3
<1> HIDE DEF Inv
<1>3. Inv /\ [CacheNext]_cacheVars => [LimitKept' /\ KeysWithinTotals' /\ RecordedStaysTracked]_cacheVars
  BY <1>2
<1> QED  BY <1>1, <1>2, <1>3, PTL DEF CacheSpec, CapsKept

=============================================================================
