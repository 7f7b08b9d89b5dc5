----------------------------- MODULE Cacheable -----------------------------
(***************************************************************************)
(* One key of the Cacheable instances that share a secondary store, each    *)
(* with a primary store of its own.  A call is a slot of Calls: it issues   *)
(* requests to the stores, each of which lands (or is rejected) in a step   *)
(* of its own, and it waits for them or leaves them in the background.      *)
(* getMany, setMany, deleteMany and takeMany are calls with batch = TRUE;   *)
(* the keys of a batch do not affect each other.  A value may be lost from  *)
(* a store at any time: TTLs and evictions.  The tag service is reduced to  *)
(* one tag; races on its counter are the subject of CacheTags.              *)
(***************************************************************************)
EXTENDS Integers

CONSTANTS
    Instances, Calls, Values,
    Falsy,          \* the values that are falsy in JavaScript
    NonBlocking,    \* the instances' nonBlocking setting
    Overrides,      \* nonBlocking of a get or set: the setting, or its option
    TagsEnabled,
    MayReject,      \* stores may reject requests
    None,
    MaxVersion      \* bound of the model

ASSUME CacheableAssumption ==
    /\ Falsy \subseteq Values /\ None \notin Values
    /\ NonBlocking \in BOOLEAN /\ Overrides \subseteq BOOLEAN
    /\ TagsEnabled \in BOOLEAN /\ MayReject \in BOOLEAN
    /\ MaxVersion \in Nat

VARIABLES
    primary,    \* value in each instance's primary store
    secondary,  \* value in the shared store
    snapshot,   \* version of the tag when the value was tagged, or -1
    version,    \* counter of the tag
    call,
    allowed,    \* history: the values each primary store may hold
    shared,     \* history: the values the secondary store may hold
    tagged,     \* history: the last write is a tagged set that met no other call
    invalid     \* history: its tag was invalidated since, and no write began

vars == <<primary, secondary, snapshot, version, call, allowed, shared,
          tagged, invalid>>

NoSnapshot == -1

NoVersion == 0

\* Requests a call can have in flight: its write or delete of the primary and
\* of the secondary store, the back-fill of the primary store, and the two
\* steps of tagging (read the counter, write or remove the snapshot).
Request == {"primary", "secondary", "backfill", "version", "snapshot"}

Step == {"getPrimary", "getSecondary", "backfill", "checkSnapshot",
         "checkVersion", "stores", "second", "tags", "returned"}

Call == [op : {"get", "set", "delete", "clear"},
         inst : Instances, batch : BOOLEAN, background : BOOLEAN,
         take : BOOLEAN,            \* a delete follows the get
         value : Values \cup {None},  \* to be set, or to be back-filled
         result : Values \cup {None}, \* of a get
         tag : BOOLEAN, at : Step, pending : SUBSET Request,
         seen : Int,                \* version or snapshot it has read
         served : BOOLEAN,          \* history: the primary store had the value
         clean : BOOLEAN,           \* history: nothing disturbed its write
         must : BOOLEAN]            \* history: began on an invalidated value

ASSUME NoneAssumption == None \notin Call

Active(d) == call[d] # None
Idle == \A d \in Calls : ~Active(d)

\* What the call's requests leave in the stores.
Writes(d) == IF d.op = "set" THEN d.value ELSE None

SetInFlight == \E d \in Calls : Active(d) /\ call[d].op = "set"

\* A call of instance i before it does anything.
Blank(i) ==
    [op |-> "get", inst |-> i, batch |-> FALSE, background |-> NonBlocking,
     take |-> FALSE, value |-> None, result |-> None, tag |-> FALSE,
     at |-> "returned", pending |-> {}, seen |-> NoSnapshot,
     served |-> FALSE, clean |-> FALSE, must |-> FALSE]

\* History: a write of the key begins as call c with the record r.
Write(c, r) ==
    /\ call' = [d \in Calls |->
           IF d = c THEN [r EXCEPT !.clean = ~SetInFlight]
           ELSE IF ~Active(d) THEN None
           ELSE [call[d] EXCEPT !.clean = @ /\ r.op # "set", !.must = FALSE]]
    /\ tagged' = IF r.tag /\ Idle THEN "soon" ELSE "no"
    /\ invalid' = FALSE
    /\ UNCHANGED <<primary, secondary, snapshot, version>>

\* Mutant: the secondary store is forgotten.
FirstRequests_PrimaryOnly(batch) == {"primary"}

\* The requests of a delete or set: both stores at once, or one by one.
FirstRequests(batch) == IF batch THEN {"primary"} ELSE {"primary", "secondary"}

-----------------------------------------------------------------------------
(* Calls                                                                    *)

Get(c, i, batch, take, background) ==
    /\ ~Active(c)
    /\ call' = [call EXCEPT ![c] =
           [Blank(i) EXCEPT !.batch = batch, !.take = take,
                         !.background = background, !.at = "getPrimary",
                         !.must = invalid]]
    /\ tagged' = IF tagged = "soon" THEN "no" ELSE tagged
    /\ UNCHANGED <<primary, secondary, snapshot, version, allowed, shared,
                   invalid>>

\* setMany has no nonBlocking option.
Set(c, i, v, tag, batch, background) ==
    /\ ~Active(c)
    /\ batch => background = NonBlocking
    /\ Write(c, [Blank(i) EXCEPT !.op = "set", !.value = v,
                              !.tag = tag /\ TagsEnabled, !.batch = batch,
                              !.background = background, !.at = "stores",
                              !.pending = FirstRequests(batch)])
    /\ allowed' = [j \in Instances |-> allowed[j] \cup {v}]
    /\ shared' = shared \cup {v}

Delete(c, i, batch) ==
    /\ ~Active(c)
    /\ Write(c, [Blank(i) EXCEPT !.op = "delete", !.batch = batch,
                              !.at = "stores",
                              !.pending = FirstRequests(batch)])
    /\ UNCHANGED <<allowed, shared>>

Clear(c, i) ==
    /\ ~Active(c)
    /\ Write(c, [Blank(i) EXCEPT !.op = "clear", !.at = "stores",
                              !.pending = {"primary", "secondary"}])
    /\ UNCHANGED <<allowed, shared>>

\* take goes on to delete the key once its get has returned.  That it first
\* lets the get's own deletes land is a bound of the model.
TakeDelete(c) ==
    /\ Active(c) /\ call[c].at = "returned" /\ call[c].take
    /\ call[c].pending \subseteq {"backfill"}
    /\ Write(c, [call[c] EXCEPT !.op = "delete", !.take = FALSE,
                                !.at = "stores", !.background = NonBlocking,
                                !.pending = @ \cup FirstRequests(call[c].batch)])
    /\ UNCHANGED <<allowed, shared>>

\* The call's last request has landed.  History: if nothing disturbed it, the
\* stores of its instance hold what it wrote, or nothing.
Finish(c) ==
    /\ Active(c) /\ call[c].at = "returned" /\ ~call[c].take
    /\ call[c].pending = {}
    /\ call' = [call EXCEPT ![c] = None]
    /\ LET undisturbed ==
               /\ call[c].clean
               /\ \A d \in Calls : Active(d) /\ "backfill" \in call[d].pending =>
                      \/ call[d].inst # call[c].inst
                      \/ call[d].value = Writes(call[c])
           left == {Writes(call[c])} \ {None}
       IN  /\ allowed' = IF undisturbed
                         THEN [allowed EXCEPT ![call[c].inst] = left]
                         ELSE allowed
           /\ shared' = IF undisturbed THEN left ELSE shared
           /\ tagged' = IF tagged # "soon" THEN tagged
                        ELSE IF undisturbed THEN "yes" ELSE "no"
    /\ UNCHANGED <<primary, secondary, snapshot, version, invalid>>

-----------------------------------------------------------------------------
(* getRaw, getManyRaw                                                       *)

\* Mutant: no tag check.
Checked_Skipped == "returned"

Checked == IF TagsEnabled THEN "checkSnapshot" ELSE "returned"

GetPrimary(c) ==
    /\ Active(c) /\ call[c].at = "getPrimary"
    /\ LET v == primary[call[c].inst]
       IN  call' = [call EXCEPT ![c].result = v, ![c].served = (v # None),
                                ![c].at = IF v = None THEN "getSecondary"
                                          ELSE Checked]
    /\ UNCHANGED <<primary, secondary, snapshot, version, allowed, shared,
                   tagged, invalid>>

\* A hit: for get a truthy value, for getMany any value.
SecondaryHit(c) ==
    secondary # None /\ (call[c].batch \/ secondary \notin Falsy)

GetSecondary(c) ==
    /\ Active(c) /\ call[c].at = "getSecondary"
    /\ call' = IF SecondaryHit(c)
               THEN [call EXCEPT
                   ![c].value = secondary, ![c].result = secondary,
                   ![c].pending = @ \cup {"backfill"},
                   ![c].at = IF call[c].background THEN Checked
                             ELSE "backfill"]
               ELSE [call EXCEPT ![c].at = "returned"]
    /\ UNCHANGED <<primary, secondary, snapshot, version, allowed, shared,
                   tagged, invalid>>

AfterBackfill(c) ==
    /\ Active(c) /\ call[c].at = "backfill" /\ "backfill" \notin call[c].pending
    /\ call' = [call EXCEPT ![c].at = Checked]
    /\ UNCHANGED <<primary, secondary, snapshot, version, allowed, shared,
                   tagged, invalid>>

CheckSnapshot(c) ==
    /\ Active(c) /\ call[c].at = "checkSnapshot"
    /\ call' = [call EXCEPT ![c].seen = snapshot,
                            ![c].at = IF snapshot = NoSnapshot THEN "returned"
                                      ELSE "checkVersion"]
    /\ UNCHANGED <<primary, secondary, snapshot, version, allowed, shared,
                   tagged, invalid>>

\* A stale key is deleted; only then is the result dropped.
CheckVersion(c) ==
    /\ Active(c) /\ call[c].at = "checkVersion"
    /\ call' = IF call[c].seen = version
               THEN [call EXCEPT ![c].at = "returned"]
               ELSE [call EXCEPT ![c].at = "stores",
                   ![c].background = NonBlocking,
                   ![c].pending = @ \cup FirstRequests(call[c].batch),
                   ![c].result = IF call[c].batch THEN None ELSE @]
    /\ UNCHANGED <<primary, secondary, snapshot, version, allowed, shared,
                   tagged, invalid>>

-----------------------------------------------------------------------------
(* set, setMany, delete, deleteMany, clear                                  *)

\* A batch writes the secondary store after the primary one.
IssueSecondary(c) ==
    /\ Active(c) /\ call[c].at = "stores" /\ call[c].batch
    /\ "primary" \notin call[c].pending
    /\ call' = [call EXCEPT ![c].at = "second",
                            ![c].pending = @ \cup {"secondary"}]
    /\ UNCHANGED <<primary, secondary, snapshot, version, allowed, shared,
                   tagged, invalid>>

\* Mutant: a batch waits like a single call, for both stores at once.
StoresSettled_SameForBatch(d) ==
    /\ d.at = "stores"
    /\ IF d.background THEN ~({"primary", "secondary"} \subseteq d.pending)
       ELSE {"primary", "secondary"} \cap d.pending = {}

\* Promise.all, or in nonBlocking mode Promise.race; a batch waits for the
\* primary store and in nonBlocking mode not for the secondary one.
StoresSettled(d) ==
    IF d.batch
    THEN d.at = "second" /\ (d.background \/ "secondary" \notin d.pending)
    ELSE /\ d.at = "stores"
         /\ IF d.background THEN ~({"primary", "secondary"} \subseteq d.pending)
            ELSE {"primary", "secondary"} \cap d.pending = {}

\* The tag snapshot is written or removed, by clear left to the stores.
AfterStores(c) ==
    /\ Active(c) /\ StoresSettled(call[c])
    /\ call' = IF TagsEnabled /\ call[c].op # "clear"
               THEN [call EXCEPT ![c].at = "tags",
                   ![c].pending = @ \cup
                       {IF call[c].op = "set" /\ call[c].tag
                        THEN "version" ELSE "snapshot"}]
               ELSE [call EXCEPT ![c].at = "returned"]
    /\ UNCHANGED <<primary, secondary, snapshot, version, allowed, shared,
                   tagged, invalid>>

AfterTags(c) ==
    /\ Active(c) /\ call[c].at = "tags"
    /\ call[c].background \/ {"version", "snapshot"} \cap call[c].pending = {}
    /\ call' = [call EXCEPT ![c].at = "returned",
                            ![c].result = IF call[c].op = "get" THEN None ELSE @]
    /\ UNCHANGED <<primary, secondary, snapshot, version, allowed, shared,
                   tagged, invalid>>

-----------------------------------------------------------------------------
(* Requests land, or are rejected                                           *)

LandPrimary(c) ==
    /\ Active(c) /\ "primary" \in call[c].pending
    /\ primary' = [primary EXCEPT ![call[c].inst] = Writes(call[c])]
    /\ call' = [call EXCEPT ![c].pending = @ \ {"primary"}]
    /\ UNCHANGED <<secondary, snapshot, version, allowed, shared, tagged,
                   invalid>>

\* Clearing the store also clears the tag metadata it holds.
LandSecondary(c) ==
    /\ Active(c) /\ "secondary" \in call[c].pending
    /\ secondary' = Writes(call[c])
    /\ snapshot' = IF call[c].op = "clear" THEN NoSnapshot ELSE snapshot
    /\ version' = IF call[c].op = "clear" THEN NoVersion ELSE version
    /\ call' = [call EXCEPT ![c].pending = @ \ {"secondary"}]
    /\ UNCHANGED <<primary, allowed, shared, tagged, invalid>>

\* History: it disturbs the calls of its instance whose primary write it undoes.
LandBackfill(c) ==
    /\ Active(c) /\ "backfill" \in call[c].pending
    /\ primary' = [primary EXCEPT ![call[c].inst] = call[c].value]
    /\ call' = [d \in Calls |->
           LET r == IF d = c THEN [call[c] EXCEPT !.pending = @ \ {"backfill"}]
                    ELSE call[d]
           IN  IF /\ Active(d) /\ call[d].inst = call[c].inst
                  /\ "primary" \notin call[d].pending
                  /\ Writes(call[d]) # call[c].value
               THEN [r EXCEPT !.clean = FALSE] ELSE r]
    /\ UNCHANGED <<secondary, snapshot, version, allowed, shared, tagged,
                   invalid>>

ReadVersion(c) ==
    /\ Active(c) /\ "version" \in call[c].pending
    /\ call' = [call EXCEPT ![c].seen = version,
                            ![c].pending = (@ \ {"version"}) \cup {"snapshot"}]
    /\ UNCHANGED <<primary, secondary, snapshot, version, allowed, shared,
                   tagged, invalid>>

LandSnapshot(c) ==
    /\ Active(c) /\ "snapshot" \in call[c].pending
    /\ snapshot' = IF call[c].op = "set" /\ call[c].tag THEN call[c].seen
                   ELSE NoSnapshot
    /\ call' = [call EXCEPT ![c].pending = @ \ {"snapshot"}]
    /\ UNCHANGED <<primary, secondary, version, allowed, shared, tagged,
                   invalid>>

\* A call whose awaited request is rejected ends.  A get keeps the result it
\* has by then: getMany's, but not get's, includes the value to back-fill.
Abort(c) ==
    [call[c] EXCEPT !.at = "returned",
                    !.result = IF call[c].at = "backfill" /\ ~call[c].batch
                               THEN None ELSE @]

\* Requests whose rejection reaches the call: those it waits for, in nonBlocking
\* mode the first of the two stores' to settle.
Awaited(d) ==
    CASE d.at = "stores" /\ (d.batch \/ ~d.background) -> {"primary", "secondary"}
      [] d.at = "stores" /\ d.background /\ {"primary", "secondary"} \subseteq d.pending
           -> {"primary", "secondary"}
      [] d.at = "second" /\ ~d.background -> {"secondary"}
      [] d.at = "tags" /\ ~d.background -> {"version", "snapshot"}
      [] d.at = "backfill" -> {"backfill"}
      [] OTHER -> {}

Reject(c, r) ==
    /\ MayReject
    /\ Active(c) /\ r \in call[c].pending
    /\ call' = [call EXCEPT ![c] =
           [(IF r \in Awaited(call[c]) THEN Abort(c) ELSE call[c])
            EXCEPT !.pending = @ \ {r}, !.clean = FALSE]]
    /\ UNCHANGED <<primary, secondary, snapshot, version, allowed, shared,
                   tagged, invalid>>

RejectRead(c) ==
    /\ MayReject
    /\ Active(c)
    /\ call[c].at \in {"getPrimary", "getSecondary", "checkSnapshot",
                       "checkVersion"}
    /\ call' = [call EXCEPT ![c] = Abort(c)]
    /\ UNCHANGED <<primary, secondary, snapshot, version, allowed, shared,
                   tagged, invalid>>

-----------------------------------------------------------------------------
(* The tag service and the stores                                           *)

InvalidateTag ==
    /\ TagsEnabled /\ version < MaxVersion
    /\ version' = version + 1
    /\ invalid' = (invalid \/ tagged = "yes")
    /\ UNCHANGED <<primary, secondary, snapshot, call, allowed, shared, tagged>>

LosePrimary(i) ==
    /\ primary[i] # None
    /\ primary' = [primary EXCEPT ![i] = None]
    /\ UNCHANGED <<secondary, snapshot, version, call, allowed, shared, tagged,
                   invalid>>

LoseSecondary ==
    /\ secondary # None
    /\ secondary' = None
    /\ UNCHANGED <<primary, snapshot, version, call, allowed, shared, tagged,
                   invalid>>

\* The snapshot's TTL covers every copy's (SnapshotCovers in TieredTtl).  That
\* no call is under way is a bound of the model: it leaves out calls that span
\* the last instant of the snapshot's life.
LoseSnapshot ==
    /\ snapshot # NoSnapshot
    /\ secondary = None /\ \A i \in Instances : primary[i] = None
    /\ Idle
    /\ snapshot' = NoSnapshot
    /\ UNCHANGED <<primary, secondary, version, call, allowed, shared, tagged,
                   invalid>>

-----------------------------------------------------------------------------
Init ==
    /\ primary = [i \in Instances |-> None] /\ secondary = None
    /\ snapshot = NoSnapshot /\ version = NoVersion
    /\ call = [c \in Calls |-> None]
    /\ allowed = [i \in Instances |-> {}] /\ shared = {}
    /\ tagged = "no" /\ invalid = FALSE

Begin(c) ==
    \E i \in Instances, batch \in BOOLEAN :
        \/ \E take \in BOOLEAN, b \in Overrides : Get(c, i, batch, take, b)
        \/ \E v \in Values, tag \in BOOLEAN, b \in Overrides :
               Set(c, i, v, tag, batch, b)
        \/ Delete(c, i, batch)
        \/ Clear(c, i)

Run(c) ==
    \/ TakeDelete(c) \/ Finish(c)
    \/ GetPrimary(c) \/ GetSecondary(c) \/ AfterBackfill(c)
    \/ CheckSnapshot(c) \/ CheckVersion(c)
    \/ IssueSecondary(c) \/ AfterStores(c) \/ AfterTags(c)

Land(c) ==
    \/ LandPrimary(c) \/ LandSecondary(c) \/ LandBackfill(c)
    \/ ReadVersion(c) \/ LandSnapshot(c)
    \/ \E r \in Request : Reject(c, r)
    \/ RejectRead(c)

Next ==
    \/ \E c \in Calls : Begin(c) \/ Run(c) \/ Land(c)
    \/ InvalidateTag
    \/ \E i \in Instances : LosePrimary(i)
    \/ LoseSecondary \/ LoseSnapshot

Spec == Init /\ [][Next]_vars

\* The stores answer every request, and the event loop resumes every call.
FairSpec == Spec /\ \A c \in Calls : WF_vars(Run(c) \/ Land(c))

-----------------------------------------------------------------------------
TypeOK ==
    /\ primary \in [Instances -> Values \cup {None}]
    /\ secondary \in Values \cup {None}
    /\ snapshot \in Int /\ version \in Nat
    /\ call \in [Calls -> Call \cup {None}]
    /\ allowed \in [Instances -> SUBSET Values] /\ shared \subseteq Values
    /\ tagged \in {"no", "soon", "yes"} /\ invalid \in BOOLEAN

\* Once a set or delete has ended that met no other set, no rejection and no
\* back-fill of another value into its instance's primary store, no store of
\* the instance ever shows an older value again, whatever gets, deletes,
\* back-fills and losses follow, until another set begins.
OnlyRecentValues ==
    /\ \A i \in Instances : primary[i] # None => primary[i] \in allowed[i]
    /\ secondary # None => secondary \in shared

\* A get that begins when the tag of the key's last value has been invalidated
\* returns nothing (README: "If any tag has been bumped since, the entry is
\* treated as a miss"); it holds when calls do not overlap.
InvalidatedMissed ==
    \A c \in Calls :
        Active(c) /\ call[c].op = "get" /\ call[c].at = "returned" /\ call[c].must
        => call[c].result = None

\* Every call comes to an end, whether it waits for all of its requests, for
\* the first of them, or for none.
CallsEnd == \A c \in Calls : Active(c) ~> ~Active(c)
=============================================================================
