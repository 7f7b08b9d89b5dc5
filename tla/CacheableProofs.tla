-------------------------- MODULE CacheableProofs --------------------------
(***************************************************************************)
(* Type correctness of Cacheable; the proof that an undisturbed write       *)
(* supersedes every older value in both stores, for every number of         *)
(* instances, calls and values; and the proof that an invalidated value is  *)
(* a miss where calls of one instance do not overlap.                       *)
(***************************************************************************)
EXTENDS Cacheable, TLAPS

\* A record of a call is well-formed as long as its fields are.
LEMMA CallFields ==
    ASSUME NEW r \in Call
    PROVE  /\ r.op \in {"get", "set", "delete", "clear"} /\ r.inst \in Instances
           /\ r.batch \in BOOLEAN /\ r.background \in BOOLEAN
           /\ r.take \in BOOLEAN /\ r.value \in Values \cup {None}
           /\ r.result \in Values \cup {None} /\ r.tag \in BOOLEAN
           /\ r.at \in Step /\ r.pending \subseteq Request /\ r.seen \in Int
           /\ r.served \in BOOLEAN /\ r.clean \in BOOLEAN /\ r.must \in BOOLEAN
BY DEF Call

\* An active call is a record, and no record is None.
LEMMA ActiveCall ==
    ASSUME TypeOK, NEW c \in Calls
    PROVE  Active(c) <=> call[c] \in Call
BY NoneAssumption DEF TypeOK, Active

\* A call that has not begun its first request is a well-formed record.
LEMMA BlankType == ASSUME NEW i \in Instances PROVE Blank(i) \in Call
BY CacheableAssumption DEF Blank, Call, Step, NoSnapshot

\* Beginning a write keeps the types.
LEMMA WriteType ==
    ASSUME TypeOK, NEW c \in Calls, NEW r \in Call, Write(c, r)
    PROVE  /\ call' \in [Calls -> Call \cup {None}]
           /\ tagged' \in {"no", "soon", "yes"} /\ invalid' \in BOOLEAN
           /\ UNCHANGED <<primary, secondary, snapshot, version>>
<1>1. [r EXCEPT !.clean = ~SetInFlight] \in Call
  BY DEF Call, SetInFlight
<1>2. ASSUME NEW d \in Calls, Active(d)
      PROVE  [call[d] EXCEPT !.clean = @ /\ r.op # "set", !.must = FALSE] \in Call
  BY <1>2, ActiveCall DEF Call
<1>3. call' \in [Calls -> Call \cup {None}]
  BY <1>1, <1>2 DEF Write
<1> QED  BY <1>3 DEF Write

\* Every reachable state of the stores, the calls and the tag metadata is well typed.
THEOREM Typing == Spec => []TypeOK
<1>1. Init => TypeOK
  <2> SUFFICES ASSUME Init PROVE TypeOK
    OBVIOUS
  <2>1. snapshot \in Int /\ version \in Nat
    BY DEF Init, NoSnapshot, NoVersion
  <2> QED  BY <2>1 DEF Init, TypeOK
<1>2. TypeOK /\ [Next]_vars => TypeOK'
  <2> SUFFICES ASSUME TypeOK, [Next]_vars PROVE TypeOK'
    OBVIOUS
  <2>1. ASSUME NEW c \in Calls, Begin(c) PROVE TypeOK'
    <3>1. PICK i \in Instances, batch \in BOOLEAN :
            \/ \E take \in BOOLEAN, b \in Overrides : Get(c, i, batch, take, b)
            \/ \E v \in Values, tag \in BOOLEAN, b \in Overrides :
                   Set(c, i, v, tag, batch, b)
            \/ Delete(c, i, batch) \/ Clear(c, i)
      BY <2>1 DEF Begin
    <3>2. Overrides \subseteq BOOLEAN
      BY CacheableAssumption
    <3>3. ASSUME NEW take \in BOOLEAN, NEW b \in Overrides,
                 Get(c, i, batch, take, b)
          PROVE  TypeOK'
      <4> DEFINE s == Blank(i)
      <4>1. [s EXCEPT !.batch = batch, !.take = take, !.background = b,
                      !.at = "getPrimary", !.must = invalid] \in Call
        <5>1. s \in Call /\ b \in BOOLEAN /\ invalid \in BOOLEAN
          BY <3>2, BlankType DEF TypeOK
        <5> HIDE DEF s
        <5> QED  BY <5>1 DEF Call, Step
      <4> QED  BY <3>3, <4>1 DEF Get, TypeOK
    <3>4. FirstRequests(batch) \subseteq Request
      BY DEF FirstRequests, Request
    <3>5. ASSUME NEW v \in Values, NEW tag \in BOOLEAN, NEW b \in Overrides,
                 Set(c, i, v, tag, batch, b)
          PROVE  TypeOK'
      <4> DEFINE r == [Blank(i) EXCEPT
                          !.op = "set", !.value = v, !.tag = tag /\ TagsEnabled,
                          !.batch = batch, !.background = b, !.at = "stores",
                          !.pending = FirstRequests(batch)]
      <4>1. r \in Call
        <5> DEFINE s == Blank(i)  t == tag /\ TagsEnabled
        <5>1. s \in Call /\ b \in BOOLEAN /\ t \in BOOLEAN
          BY <3>2, BlankType, CacheableAssumption
        <5> HIDE DEF s, t
        <5>2. [s EXCEPT !.op = "set", !.value = v, !.tag = t,
                        !.batch = batch, !.background = b, !.at = "stores",
                        !.pending = FirstRequests(batch)] \in Call
          BY <3>4, <5>1 DEF Call, Step
        <5> QED  BY <5>2 DEF s, t
      <4>2. Write(c, r)
        BY <3>5 DEF Set
      <4> HIDE DEF r
      <4>3. allowed' \in [Instances -> SUBSET Values] /\ shared' \subseteq Values
        BY <3>5 DEF Set, TypeOK
      <4> QED  BY <4>1, <4>2, <4>3, WriteType DEF TypeOK
    <3>6. ASSUME Delete(c, i, batch) PROVE TypeOK'
      <4> DEFINE r == [Blank(i) EXCEPT !.op = "delete", !.batch = batch,
                          !.at = "stores", !.pending = FirstRequests(batch)]
      <4>1. r \in Call
        <5> DEFINE s == Blank(i)
        <5>1. s \in Call
          BY BlankType
        <5> HIDE DEF s
        <5>2. [s EXCEPT !.op = "delete", !.batch = batch, !.at = "stores",
                        !.pending = FirstRequests(batch)] \in Call
          BY <3>4, <5>1 DEF Call, Step
        <5> QED  BY <5>2 DEF s
      <4>2. Write(c, r) /\ UNCHANGED <<allowed, shared>>
        BY <3>6 DEF Delete
      <4> HIDE DEF r
      <4> QED  BY <4>1, <4>2, WriteType DEF TypeOK
    <3>7. ASSUME Clear(c, i) PROVE TypeOK'
      <4> DEFINE r == [Blank(i) EXCEPT !.op = "clear", !.at = "stores",
                          !.pending = {"primary", "secondary"}]
      <4>1. r \in Call
        <5> DEFINE s == Blank(i)
        <5>1. s \in Call
          BY BlankType
        <5> HIDE DEF s
        <5>2. [s EXCEPT !.op = "clear", !.at = "stores",
                        !.pending = {"primary", "secondary"}] \in Call
          BY <5>1 DEF Call, Step, Request
        <5> QED  BY <5>2 DEF s
      <4>2. Write(c, r) /\ UNCHANGED <<allowed, shared>>
        BY <3>7 DEF Clear
      <4> HIDE DEF r
      <4> QED  BY <4>1, <4>2, WriteType DEF TypeOK
    <3> QED  BY <3>1, <3>3, <3>5, <3>6, <3>7
  <2>2. ASSUME NEW c \in Calls, Run(c) PROVE TypeOK'
    <3>1. CASE TakeDelete(c)
      <4> DEFINE r == [call[c] EXCEPT !.op = "delete", !.take = FALSE,
                          !.at = "stores", !.background = NonBlocking,
                          !.pending = @ \cup FirstRequests(call[c].batch)]
      <4>1. call[c] \in Call
        BY <3>1, ActiveCall DEF TakeDelete
      <4>2. FirstRequests(call[c].batch) \subseteq Request
        BY DEF FirstRequests, Request
      <4>3. r \in Call
        BY <4>1, <4>2, CacheableAssumption DEF Call, Step
      <4>4. Write(c, r) /\ UNCHANGED <<allowed, shared>>
        BY <3>1 DEF TakeDelete
      <4> HIDE DEF r
      <4> QED  BY <4>3, <4>4, WriteType DEF TypeOK
    <3>2. CASE Finish(c)
      <4>1. Writes(call[c]) \in Values \cup {None}
        BY <3>2, ActiveCall, CallFields DEF Finish, Writes
      <4>2. {Writes(call[c])} \ {None} \subseteq Values
        BY <4>1
      <4>3. allowed' \in [Instances -> SUBSET Values] /\ shared' \subseteq Values
        BY <3>2, <4>2 DEF Finish, TypeOK
      <4>4. tagged' \in {"no", "soon", "yes"}
        BY <3>2 DEF Finish, TypeOK
      <4> QED  BY <3>2, <4>3, <4>4 DEF Finish, TypeOK
    <3>3. CASE GetPrimary(c)
      BY <3>3, ActiveCall DEF GetPrimary, TypeOK, Call, Step, Checked
    <3>4. CASE GetSecondary(c)
      <4>1. CASE SecondaryHit(c)
        BY <3>4, <4>1, ActiveCall
           DEF GetSecondary, TypeOK, Call, Step, Checked, Request
      <4>2. CASE ~SecondaryHit(c)
        BY <3>4, <4>2, ActiveCall DEF GetSecondary, TypeOK, Call, Step
      <4> QED  BY <4>1, <4>2
    <3>5. CASE AfterBackfill(c)
      BY <3>5, ActiveCall DEF AfterBackfill, TypeOK, Call, Step, Checked
    <3>6. CASE CheckSnapshot(c)
      BY <3>6, ActiveCall DEF CheckSnapshot, TypeOK, Call, Step
    <3>7. CASE CheckVersion(c)
      <4>1. call[c] \in Call
        BY <3>7, ActiveCall DEF CheckVersion
      <4>2. FirstRequests(call[c].batch) \subseteq Request
        BY DEF FirstRequests, Request
      <4>3. [call[c] EXCEPT !.at = "returned"] \in Call
        BY <4>1 DEF Call, Step
      <4>4. [call[c] EXCEPT
                !.at = "stores", !.background = NonBlocking,
                !.pending = @ \cup FirstRequests(call[c].batch),
                !.result = IF call[c].batch THEN None ELSE @] \in Call
        BY <4>1, <4>2, CacheableAssumption DEF Call, Step
      <4>5. \E r \in Call : call' = [call EXCEPT ![c] = r]
        <5>1. CASE call[c].seen = version
          BY <3>7, <5>1, <4>3 DEF CheckVersion
        <5>2. CASE call[c].seen # version
          <6> DEFINE r == [call[c] EXCEPT
                !.at = "stores", !.background = NonBlocking,
                !.pending = @ \cup FirstRequests(call[c].batch),
                !.result = IF call[c].batch THEN None ELSE @]
          <6>1. call' = [call EXCEPT ![c] = r]
            BY <3>7, <5>2 DEF CheckVersion
          <6>2. r \in Call
            BY <4>4
          <6> HIDE DEF r
          <6> QED  BY <6>1, <6>2
        <5> QED  BY <5>1, <5>2
      <4>6. UNCHANGED <<primary, secondary, snapshot, version, allowed, shared,
                        tagged, invalid>>
        BY <3>7 DEF CheckVersion
      <4> QED  BY <4>5, <4>6 DEF TypeOK
    <3>8. CASE IssueSecondary(c)
      <4>1. call[c] \in Call
        BY <3>8, ActiveCall DEF IssueSecondary
      <4>2. [call[c] EXCEPT !.at = "second",
                            !.pending = @ \cup {"secondary"}] \in Call
        BY <4>1 DEF Call, Step, Request
      <4> QED  BY <3>8, <4>2 DEF IssueSecondary, TypeOK
    <3>9. CASE AfterStores(c)
      <4>1. call[c] \in Call
        BY <3>9, ActiveCall DEF AfterStores
      <4>2. ASSUME NEW q \in {"version", "snapshot"}
            PROVE  [call[c] EXCEPT !.at = "tags", !.pending = @ \cup {q}] \in Call
        BY <4>1 DEF Call, Step, Request
      <4>3. [call[c] EXCEPT !.at = "returned"] \in Call
        BY <4>1 DEF Call, Step
      <4>4. \E r \in Call : call' = [call EXCEPT ![c] = r]
        <5>1. CASE TagsEnabled /\ call[c].op # "clear"
          BY <3>9, <5>1, <4>2 DEF AfterStores
        <5>2. CASE ~(TagsEnabled /\ call[c].op # "clear")
          BY <3>9, <5>2, <4>3 DEF AfterStores
        <5> QED  BY <5>1, <5>2
      <4> QED  BY <3>9, <4>4 DEF AfterStores, TypeOK
    <3>10. CASE AfterTags(c)
      <4>1. call[c] \in Call
        BY <3>10, ActiveCall DEF AfterTags
      <4>2. [call[c] EXCEPT !.at = "returned",
                !.result = IF call[c].op = "get" THEN None ELSE @] \in Call
        BY <4>1 DEF Call, Step
      <4> QED  BY <3>10, <4>2 DEF AfterTags, TypeOK
    <3> QED  BY <2>2, <3>1, <3>2, <3>3, <3>4, <3>5, <3>6, <3>7, <3>8, <3>9,
                <3>10 DEF Run
  <2>3. ASSUME NEW c \in Calls, Land(c) PROVE TypeOK'
    <3>1. CASE LandPrimary(c)
      BY <3>1, ActiveCall DEF LandPrimary, TypeOK, Call, Writes
    <3>2. CASE LandSecondary(c)
      BY <3>2, ActiveCall
         DEF LandSecondary, TypeOK, Call, Writes, NoSnapshot, NoVersion
    <3>3. CASE LandBackfill(c)
      <4> DEFINE r(d) == IF d = c THEN [call[c] EXCEPT !.pending = @ \ {"backfill"}]
                         ELSE call[d]
      <4>1. call[c] \in Call
        BY <3>3, ActiveCall DEF LandBackfill
      <4>2. ASSUME NEW d \in Calls PROVE r(d) \in Call \cup {None}
        BY <4>1 DEF Call, TypeOK
      <4>3. ASSUME NEW d \in Calls, Active(d)
            PROVE  [r(d) EXCEPT !.clean = FALSE] \in Call
        <5>1. call[d] \in Call
          BY <4>3, ActiveCall
        <5>2. r(d) \in Call
          BY <4>1, <5>1 DEF Call
        <5> HIDE DEF r
        <5> QED  BY <5>2 DEF Call
      <4>4. call' = [d \in Calls |->
               IF /\ Active(d) /\ call[d].inst = call[c].inst
                  /\ "primary" \notin call[d].pending
                  /\ Writes(call[d]) # call[c].value
               THEN [r(d) EXCEPT !.clean = FALSE] ELSE r(d)]
        BY <3>3 DEF LandBackfill
      <4> HIDE DEF r
      <4>5. call' \in [Calls -> Call \cup {None}]
        BY <4>2, <4>3, <4>4
      <4>6. primary' \in [Instances -> Values \cup {None}]
        BY <3>3, <4>1, CallFields DEF LandBackfill, TypeOK
      <4> QED  BY <3>3, <4>5, <4>6 DEF LandBackfill, TypeOK
    <3>4. CASE ReadVersion(c)
      BY <3>4, ActiveCall DEF ReadVersion, TypeOK, Call, Request
    <3>5. CASE LandSnapshot(c)
      BY <3>5, ActiveCall DEF LandSnapshot, TypeOK, Call, NoSnapshot
    <3>6. ASSUME NEW q \in Request, Reject(c, q) PROVE TypeOK'
      <4>1. call[c] \in Call
        BY <3>6, ActiveCall DEF Reject
      <4>2. Abort(c) \in Call
        BY <4>1 DEF Abort, Call, Step
      <4>3. \A r \in Call :
                [r EXCEPT !.pending = @ \ {q}, !.clean = FALSE] \in Call
        BY DEF Call
      <4>4. \E r \in Call : call' = [call EXCEPT ![c] = r]
        <5> DEFINE s == IF q \in Awaited(call[c]) THEN Abort(c) ELSE call[c]
        <5>1. s \in Call
          BY <4>1, <4>2
        <5>2. call' = [call EXCEPT ![c] =
                           [s EXCEPT !.pending = @ \ {q}, !.clean = FALSE]]
          BY <3>6 DEF Reject
        <5> HIDE DEF s
        <5> QED  BY <5>1, <5>2, <4>3
      <4> QED  BY <3>6, <4>4 DEF Reject, TypeOK
    <3>7. CASE RejectRead(c)
      <4>1. call[c] \in Call
        BY <3>7, ActiveCall DEF RejectRead
      <4>2. Abort(c) \in Call
        BY <4>1 DEF Abort, Call, Step
      <4> QED  BY <3>7, <4>2 DEF RejectRead, TypeOK
    <3> QED  BY <2>3, <3>1, <3>2, <3>3, <3>4, <3>5, <3>6, <3>7 DEF Land
  <2>4. CASE InvalidateTag
    BY <2>4 DEF InvalidateTag, TypeOK
  <2>5. ASSUME NEW i \in Instances, LosePrimary(i) PROVE TypeOK'
    BY <2>5 DEF LosePrimary, TypeOK
  <2>6. CASE LoseSecondary
    BY <2>6 DEF LoseSecondary, TypeOK
  <2>7. CASE LoseSnapshot
    BY <2>7 DEF LoseSnapshot, TypeOK, NoSnapshot
  <2>8. CASE UNCHANGED vars
    BY <2>8 DEF vars, TypeOK
  <2> QED  BY <2>1, <2>2, <2>3, <2>4, <2>5, <2>6, <2>7, <2>8 DEF Next
<1> QED  BY <1>1, <1>2, PTL DEF Spec

-----------------------------------------------------------------------------
(* The inductive invariant behind OnlyRecentValues.                         *)

GetStep == {"getPrimary", "getSecondary", "backfill", "checkSnapshot",
            "checkVersion"}

\* What a set in flight may still write, both stores may hold.
SetsAllowed ==
    \A d \in Calls : Active(d) /\ call[d].op = "set" => call[d].value \in shared

\* What a get reads in the secondary store, every primary store may hold.
SharedAllowed == \A i \in Instances : shared \subseteq allowed[i]

BackfillAllowed ==
    \A d \in Calls : Active(d) /\ "backfill" \in call[d].pending =>
        call[d].value \in allowed[call[d].inst]

\* While an undisturbed write is in flight no other call sets the key.
CleanAlone ==
    \A c, d \in Calls :
        Active(c) /\ call[c].clean /\ Active(d) /\ d # c => call[d].op # "set"

GetsUnclean ==
    \A c \in Calls : Active(c) =>
        /\ call[c].op = "get" => ~call[c].clean
        /\ call[c].at \in GetStep => call[c].op = "get"

PrimaryLanded(c) == "primary" \notin call[c].pending

SecondaryLanded(c) ==
    /\ "secondary" \notin call[c].pending
    /\ ~(call[c].batch /\ call[c].at = "stores")

\* What an undisturbed write has written is still there, or nothing is.
CleanHolds(c) ==
    Active(c) /\ call[c].clean =>
        /\ PrimaryLanded(c) =>
               primary[call[c].inst] \in {None, Writes(call[c])}
        /\ SecondaryLanded(c) => secondary \in {None, Writes(call[c])}

RecentInv ==
    /\ SetsAllowed /\ SharedAllowed /\ BackfillAllowed
    /\ CleanAlone /\ GetsUnclean
    /\ \A c \in Calls : CleanHolds(c)
    /\ OnlyRecentValues

\* A step of call c that neither writes a store nor finishes a write.
Quiet(c) ==
    /\ UNCHANGED <<primary, secondary, allowed, shared>>
    /\ \A d \in Calls : d # c => call'[d] = call[d]
    /\ Active(c) /\ Active(c)'
    /\ call'[c].op = call[c].op /\ call'[c].inst = call[c].inst
    /\ call'[c].value = call[c].value
    /\ call'[c].at \in GetStep => call[c].at \in GetStep
    /\ "backfill" \in call'[c].pending => "backfill" \in call[c].pending
    /\ call'[c].clean => /\ call[c].clean
                         /\ PrimaryLanded(c)' => PrimaryLanded(c)
                         /\ SecondaryLanded(c)' => SecondaryLanded(c)

\* A step that writes no store and adds no undisturbed write keeps the invariant.
LEMMA QuietStep ==
    ASSUME RecentInv, NEW c \in Calls, Quiet(c)
    PROVE  RecentInv'
<1>1. \A d \in Calls : Active(d)' <=> Active(d)
  BY DEF Quiet, Active
<1>2. \A d \in Calls : /\ call'[d].op = call[d].op
                       /\ call'[d].inst = call[d].inst
                       /\ call'[d].value = call[d].value
                       /\ call'[d].clean => call[d].clean
  BY DEF Quiet
<1>3. SetsAllowed'
  BY <1>1, <1>2 DEF SetsAllowed, RecentInv, Quiet
<1>4. SharedAllowed'
  BY DEF SharedAllowed, RecentInv, Quiet
<1>5. BackfillAllowed'
  BY <1>1, <1>2 DEF BackfillAllowed, RecentInv, Quiet
<1>6. CleanAlone'
  BY <1>1, <1>2 DEF CleanAlone, RecentInv
<1>7. GetsUnclean'
  BY <1>1, <1>2 DEF GetsUnclean, RecentInv, Quiet
<1>8. ASSUME NEW d \in Calls PROVE CleanHolds(d)'
  <2>1. CleanHolds(d)
    BY DEF RecentInv
  <2>2. Writes(call'[d]) = Writes(call[d])
    BY <1>2 DEF Writes
  <2>3. call'[d].clean => /\ PrimaryLanded(d)' => PrimaryLanded(d)
                          /\ SecondaryLanded(d)' => SecondaryLanded(d)
    BY DEF Quiet, PrimaryLanded, SecondaryLanded
  <2> QED  BY <1>1, <1>2, <2>1, <2>2, <2>3 DEF CleanHolds, Quiet
<1>9. OnlyRecentValues'
  BY DEF OnlyRecentValues, RecentInv, Quiet
<1> QED  BY <1>3, <1>4, <1>5, <1>6, <1>7, <1>8, <1>9 DEF RecentInv

\* A write begins: a set makes its value admissible, a delete or clear nothing.
LEMMA WriteStep ==
    ASSUME TypeOK, RecentInv, NEW c \in Calls, NEW r \in Call, Write(c, r),
           r.op # "get", r.at = "stores", "primary" \in r.pending,
           r.batch \/ "secondary" \in r.pending,
           "backfill" \in r.pending =>
               /\ Active(c) /\ "backfill" \in call[c].pending
               /\ r.value = call[c].value /\ r.inst = call[c].inst,
           \/ r.op # "set" /\ UNCHANGED <<allowed, shared>>
           \/ /\ r.op = "set"
              /\ allowed' = [j \in Instances |-> allowed[j] \cup {r.value}]
              /\ shared' = shared \cup {r.value}
    PROVE  RecentInv'
<1>1. call' = [d \in Calls |->
           IF d = c THEN [r EXCEPT !.clean = ~SetInFlight]
           ELSE IF ~Active(d) THEN None
           ELSE [call[d] EXCEPT !.clean = @ /\ r.op # "set", !.must = FALSE]]
  BY DEF Write
<1>2. UNCHANGED <<primary, secondary>>
  BY DEF Write
<1>3. /\ Active(c)' /\ call'[c].op = r.op /\ call'[c].inst = r.inst
      /\ call'[c].value = r.value /\ call'[c].at = r.at
      /\ call'[c].pending = r.pending /\ call'[c].batch = r.batch
      /\ call'[c].clean = ~SetInFlight
  <2>1. call'[c] = [r EXCEPT !.clean = ~SetInFlight]
    BY <1>1
  <2>2. call'[c] \in Call
    BY <2>1 DEF Call, SetInFlight
  <2> QED  BY <2>1, <2>2, NoneAssumption DEF Active, Call
<1>4. ASSUME NEW d \in Calls, d # c
      PROVE  /\ Active(d)' <=> Active(d)
             /\ Active(d) =>
                  /\ call'[d].op = call[d].op /\ call'[d].inst = call[d].inst
                  /\ call'[d].value = call[d].value /\ call'[d].at = call[d].at
                  /\ call'[d].pending = call[d].pending
                  /\ call'[d].batch = call[d].batch
                  /\ call'[d].clean => call[d].clean /\ r.op # "set"
  <2>1. CASE Active(d)
    <3>1. call'[d] = [call[d] EXCEPT !.clean = @ /\ r.op # "set", !.must = FALSE]
      BY <1>1, <1>4, <2>1
    <3>2. call[d] \in Call
      BY <2>1, ActiveCall
    <3>3. call'[d] \in Call
      BY <3>1, <3>2 DEF Call
    <3> QED  BY <2>1, <3>1, <3>2, <3>3, NoneAssumption DEF Active, Call
  <2>2. CASE ~Active(d)
    BY <1>1, <1>4, <2>2 DEF Active
  <2> QED  BY <2>1, <2>2
<1>5. shared \subseteq shared' /\ \A i \in Instances : allowed[i] \subseteq allowed'[i]
  BY DEF TypeOK
<1>6. SetsAllowed'
  BY <1>3, <1>4, <1>5 DEF SetsAllowed, RecentInv
<1>7. SharedAllowed'
  BY <1>5 DEF SharedAllowed, RecentInv
<1>8. BackfillAllowed'
  <2> SUFFICES ASSUME NEW d \in Calls, Active(d)', "backfill" \in call'[d].pending
               PROVE  call'[d].value \in allowed'[call'[d].inst]
    BY DEF BackfillAllowed
  <2>1. Active(d) /\ "backfill" \in call[d].pending
    BY <1>3, <1>4
  <2>2. call[d].value \in allowed[call[d].inst] /\ call[d].inst \in Instances
    BY <2>1, ActiveCall, CallFields DEF RecentInv, BackfillAllowed
  <2>3. call'[d].value = call[d].value /\ call'[d].inst = call[d].inst
    BY <1>3, <1>4, <2>1
  <2> QED  BY <1>5, <2>2, <2>3
<1>9. CleanAlone'
  <2> SUFFICES ASSUME NEW d \in Calls, NEW e \in Calls, Active(d)',
                      call'[d].clean, Active(e)', e # d
               PROVE  call'[e].op # "set"
    BY DEF CleanAlone
  <2>1. CASE d = c
    BY <1>3, <1>4, <2>1 DEF SetInFlight
  <2>2. CASE d # c /\ e = c
    BY <1>3, <1>4, <2>2
  <2>3. CASE d # c /\ e # c
    BY <1>4, <2>3 DEF RecentInv, CleanAlone
  <2> QED  BY <2>1, <2>2, <2>3
<1>10. GetsUnclean'
  BY <1>3, <1>4 DEF GetsUnclean, RecentInv, GetStep
<1>11. ASSUME NEW d \in Calls PROVE CleanHolds(d)'
  <2>1. CASE d = c
    BY <1>3, <2>1 DEF CleanHolds, PrimaryLanded, SecondaryLanded
  <2>2. CASE d # c
    <3> SUFFICES ASSUME Active(d)', call'[d].clean
                 PROVE  CleanHolds(d)'
      BY DEF CleanHolds
    <3>1. /\ Writes(call'[d]) = Writes(call[d])
          /\ PrimaryLanded(d)' <=> PrimaryLanded(d)
          /\ SecondaryLanded(d)' <=> SecondaryLanded(d)
      BY <1>4, <2>2 DEF Writes, PrimaryLanded, SecondaryLanded
    <3>2. CleanHolds(d)
      BY DEF RecentInv
    <3> QED  BY <1>2, <1>4, <2>2, <3>1, <3>2 DEF CleanHolds
  <2> QED  BY <2>1, <2>2
<1>12. OnlyRecentValues'
  BY <1>2, <1>5 DEF OnlyRecentValues, RecentInv
<1> QED  BY <1>6, <1>7, <1>8, <1>9, <1>10, <1>11, <1>12 DEF RecentInv

\* The steps of an active call c that change its record r into another record.
LEMMA RecordStep ==
    ASSUME TypeOK, NEW c \in Calls, NEW r \in Call, Active(c),
           call' = [call EXCEPT ![c] = r]
    PROVE  /\ Active(c)' /\ call'[c] = r
           /\ \A d \in Calls : d # c => call'[d] = call[d]
BY NoneAssumption DEF TypeOK, Active

\* A get that reads the secondary store takes on a value admissible for it.
LEMMA GetSecondaryStep ==
    ASSUME TypeOK, RecentInv, NEW c \in Calls, GetSecondary(c), SecondaryHit(c)
    PROVE  RecentInv'
<1> DEFINE r == [call[c] EXCEPT
                   !.value = secondary, !.result = secondary,
                   !.pending = @ \cup {"backfill"},
                   !.at = IF call[c].background THEN Checked ELSE "backfill"]
<1>1. call[c] \in Call /\ call[c].at = "getSecondary" /\ Active(c)
  BY ActiveCall DEF GetSecondary
<1>2. call[c].op = "get" /\ ~call[c].clean
  BY <1>1 DEF RecentInv, GetsUnclean, GetStep
<1>3. /\ r.op = "get" /\ r.inst = call[c].inst /\ r.value = secondary
      /\ ~r.clean
  BY <1>1, <1>2 DEF Call
<1>4. UNCHANGED <<primary, secondary, allowed, shared>>
  BY DEF GetSecondary
<1>5. call' = [call EXCEPT ![c] = r]
  BY <1>1 DEF GetSecondary
<1>6. r \in Call
  BY <1>1 DEF Call, Step, Checked, TypeOK, Request
<1>7. secondary \in shared
  BY DEF SecondaryHit, RecentInv, OnlyRecentValues
<1> HIDE DEF r
<1>8. /\ Active(c)' /\ call'[c] = r
      /\ \A d \in Calls : d # c => call'[d] = call[d]
  BY <1>1, <1>5, <1>6, RecordStep
<1>9. \A d \in Calls : Active(d)' <=> Active(d)
  BY <1>1, <1>8 DEF Active
<1>10. SetsAllowed'
  BY <1>3, <1>4, <1>8, <1>9 DEF SetsAllowed, RecentInv
<1>11. SharedAllowed'
  BY <1>4 DEF SharedAllowed, RecentInv
<1>12. BackfillAllowed'
  <2>1. secondary \in allowed[call[c].inst]
    BY <1>1, <1>7, CallFields DEF RecentInv, SharedAllowed
  <2> QED  BY <1>3, <1>4, <1>8, <1>9, <2>1 DEF BackfillAllowed, RecentInv
<1>13. CleanAlone'
  BY <1>3, <1>8, <1>9 DEF CleanAlone, RecentInv
<1>14. GetsUnclean'
  BY <1>3, <1>8, <1>9 DEF GetsUnclean, RecentInv
<1>15. ASSUME NEW d \in Calls PROVE CleanHolds(d)'
  BY <1>3, <1>4, <1>8, <1>9
     DEF CleanHolds, RecentInv, PrimaryLanded, SecondaryLanded, Writes
<1>16. OnlyRecentValues'
  BY <1>4 DEF OnlyRecentValues, RecentInv
<1> QED  BY <1>10, <1>11, <1>12, <1>13, <1>14, <1>15, <1>16 DEF RecentInv

\* A write that nothing disturbed ends: the stores hold what it wrote.
LEMMA FinishStep ==
    ASSUME TypeOK, RecentInv, NEW c \in Calls, Finish(c)
    PROVE  RecentInv'
<1>1. call[c] \in Call /\ Active(c) /\ call[c].pending = {}
      /\ call[c].at = "returned"
  BY ActiveCall DEF Finish
<1>2. /\ ~Active(c)' /\ UNCHANGED <<primary, secondary>>
      /\ \A d \in Calls : d # c => call'[d] = call[d]
  BY DEF Finish, Active, TypeOK
<1>3. \A d \in Calls : Active(d)' <=> Active(d) /\ d # c
  BY <1>2 DEF Active
<1>4. CleanAlone' /\ GetsUnclean'
  BY <1>2, <1>3 DEF CleanAlone, GetsUnclean, RecentInv
<1>5. ASSUME NEW d \in Calls PROVE CleanHolds(d)'
  BY <1>2, <1>3
     DEF CleanHolds, RecentInv, PrimaryLanded, SecondaryLanded, Writes
<1>6. CASE UNCHANGED <<allowed, shared>>
  <2>1. SetsAllowed' /\ SharedAllowed' /\ BackfillAllowed'
    BY <1>2, <1>3, <1>6
       DEF SetsAllowed, SharedAllowed, BackfillAllowed, RecentInv
  <2>2. OnlyRecentValues'
    BY <1>2, <1>6 DEF OnlyRecentValues, RecentInv
  <2> QED  BY <1>4, <1>5, <2>1, <2>2 DEF RecentInv
<1>7. CASE ~UNCHANGED <<allowed, shared>>
  <2> DEFINE left == {Writes(call[c])} \ {None}
             i == call[c].inst
  <2>1. /\ call[c].clean
        /\ \A d \in Calls : Active(d) /\ "backfill" \in call[d].pending =>
               call[d].inst # i \/ call[d].value = Writes(call[c])
        /\ allowed' = [allowed EXCEPT ![i] = left]
        /\ shared' = left
    BY <1>7 DEF Finish
  <2>2. i \in Instances
    BY <1>1, CallFields
  <2>3. \A d \in Calls : Active(d) /\ d # c => call[d].op # "set"
    BY <1>1, <2>1 DEF RecentInv, CleanAlone
  <2>4. SetsAllowed'
    BY <1>2, <1>3, <2>3 DEF SetsAllowed
  <2>5. SharedAllowed'
    <3>1. \A j \in Instances : left \subseteq allowed[j]
      BY <1>1 DEF RecentInv, SetsAllowed, SharedAllowed, Writes
    <3> QED  BY <2>1, <2>2, <3>1 DEF SharedAllowed, TypeOK
  <2>6. BackfillAllowed'
    <3> SUFFICES ASSUME NEW d \in Calls, Active(d), d # c,
                        "backfill" \in call[d].pending
                 PROVE  call[d].value \in allowed'[call[d].inst]
      BY <1>2, <1>3 DEF BackfillAllowed
    <3>1. call[d].value \in allowed[call[d].inst] /\ call[d].inst \in Instances
      BY ActiveCall, CallFields DEF RecentInv, BackfillAllowed
    <3>2. call[d].value # None
      BY <3>1, CacheableAssumption DEF TypeOK
    <3> QED  BY <2>1, <2>2, <3>1, <3>2 DEF TypeOK
  <2>7. OnlyRecentValues'
    <3>1. primary[i] \in {None, Writes(call[c])}
          /\ secondary \in {None, Writes(call[c])}
      BY <1>1, <2>1 DEF RecentInv, CleanHolds, PrimaryLanded, SecondaryLanded
    <3> QED  BY <1>2, <2>1, <2>2, <3>1
             DEF OnlyRecentValues, RecentInv, TypeOK
  <2> QED  BY <1>4, <1>5, <2>4, <2>5, <2>6, <2>7 DEF RecentInv
<1> QED  BY <1>6, <1>7

\* A request that lands in a store leaves the call what it was, up to `pending`.
LEMMA LandStep ==
    ASSUME TypeOK, RecentInv, NEW c \in Calls, Active(c),
           NEW q \in {"primary", "secondary"},
           call' = [call EXCEPT ![c].pending = @ \ {q}],
           UNCHANGED <<allowed, shared>>
    PROVE  /\ SetsAllowed' /\ SharedAllowed' /\ BackfillAllowed'
           /\ CleanAlone' /\ GetsUnclean'
           /\ \A d \in Calls :
                  /\ Active(d)' <=> Active(d)
                  /\ Writes(call'[d]) = Writes(call[d])
                  /\ call'[d].inst = call[d].inst
                  /\ call'[d].clean = call[d].clean
           /\ \A d \in Calls : d # c =>
                  /\ PrimaryLanded(d)' <=> PrimaryLanded(d)
                  /\ SecondaryLanded(d)' <=> SecondaryLanded(d)
           /\ q = "primary" => (SecondaryLanded(c)' <=> SecondaryLanded(c))
           /\ q = "secondary" => (PrimaryLanded(c)' <=> PrimaryLanded(c))
<1> DEFINE r == [call[c] EXCEPT !.pending = @ \ {q}]
<1>1. call[c] \in Call /\ r \in Call
  BY ActiveCall DEF Call
<1>2. /\ r.op = call[c].op /\ r.inst = call[c].inst
      /\ r.value = call[c].value /\ r.at = call[c].at
      /\ r.batch = call[c].batch /\ r.clean = call[c].clean
      /\ r.pending = call[c].pending \ {q}
  BY <1>1 DEF Call
<1>3. call' = [call EXCEPT ![c] = r]
  OBVIOUS
<1> HIDE DEF r
<1>4. /\ Active(c)' /\ call'[c] = r
      /\ \A d \in Calls : d # c => call'[d] = call[d]
  BY <1>1, <1>3, RecordStep
<1>5. ASSUME NEW d \in Calls
      PROVE  /\ Active(d)' <=> Active(d)
             /\ call'[d].op = call[d].op /\ call'[d].inst = call[d].inst
             /\ call'[d].value = call[d].value /\ call'[d].at = call[d].at
             /\ call'[d].batch = call[d].batch
             /\ call'[d].clean = call[d].clean
             /\ call'[d].pending = IF d = c THEN call[d].pending \ {q}
                                   ELSE call[d].pending
  BY <1>2, <1>4 DEF Active
<1>6. SetsAllowed' /\ SharedAllowed' /\ BackfillAllowed'
  <2>1. SetsAllowed'
    <3> SUFFICES ASSUME NEW d \in Calls, Active(d)', call'[d].op = "set"
                 PROVE  call'[d].value \in shared'
      BY DEF SetsAllowed
    <3>1. Active(d) /\ call[d].op = "set" /\ call'[d].value = call[d].value
      BY <1>5
    <3> QED  BY <3>1 DEF SetsAllowed, RecentInv
  <2>2. SharedAllowed'
    BY DEF SharedAllowed, RecentInv
  <2>3. BackfillAllowed'
    <3> SUFFICES ASSUME NEW d \in Calls, Active(d)',
                        "backfill" \in call'[d].pending
                 PROVE  call'[d].value \in allowed'[call'[d].inst]
      BY DEF BackfillAllowed
    <3>1. /\ Active(d) /\ call'[d].pending \subseteq call[d].pending
          /\ call'[d].value = call[d].value /\ call'[d].inst = call[d].inst
      <4>1. call'[d].pending = IF d = c THEN call[d].pending \ {q}
                               ELSE call[d].pending
        BY <1>5
      <4> QED  BY <1>5, <4>1
    <3> QED  BY <3>1 DEF BackfillAllowed, RecentInv
  <2> QED  BY <2>1, <2>2, <2>3
<1>7. CleanAlone' /\ GetsUnclean'
  <2>1. CleanAlone'
    BY <1>5 DEF CleanAlone, RecentInv
  <2>2. GetsUnclean'
    BY <1>5 DEF GetsUnclean, RecentInv
  <2> QED  BY <2>1, <2>2
<1>8. ASSUME NEW d \in Calls
      PROVE  /\ Writes(call'[d]) = Writes(call[d])
             /\ d # c \/ q # "primary" => (PrimaryLanded(d)' <=> PrimaryLanded(d))
             /\ d # c \/ q # "secondary" =>
                    (SecondaryLanded(d)' <=> SecondaryLanded(d))
  BY <1>5 DEF Writes, PrimaryLanded, SecondaryLanded
<1> QED  BY <1>5, <1>6, <1>7, <1>8

\* A value written to a store is None or one the set it comes from made admissible.
LEMMA WritesAllowed ==
    ASSUME TypeOK, RecentInv, NEW c \in Calls, Active(c)
    PROVE  /\ Writes(call[c]) # None =>
                 Writes(call[c]) \in shared \cap allowed[call[c].inst]
           /\ \A d \in Calls : Active(d) /\ call[d].clean /\ d # c
                 => Writes(call[c]) = None
<1>1. call[c].inst \in Instances
  BY ActiveCall, CallFields
<1> QED  BY <1>1 DEF Writes, RecentInv, SetsAllowed, SharedAllowed, CleanAlone

\* A write's request to the primary store lands and keeps the invariant.
LEMMA LandPrimaryStep ==
    ASSUME TypeOK, RecentInv, NEW c \in Calls, LandPrimary(c)
    PROVE  RecentInv'
<1>1. /\ Active(c) /\ UNCHANGED <<allowed, shared, secondary>>
      /\ call' = [call EXCEPT ![c].pending = @ \ {"primary"}]
      /\ primary' = [primary EXCEPT ![call[c].inst] = Writes(call[c])]
  BY DEF LandPrimary
<1>2. /\ SetsAllowed' /\ SharedAllowed' /\ BackfillAllowed'
      /\ CleanAlone' /\ GetsUnclean'
  BY <1>1, LandStep
<1>3. ASSUME NEW d \in Calls
      PROVE  /\ Active(d)' <=> Active(d)
             /\ Writes(call'[d]) = Writes(call[d])
             /\ call'[d].inst = call[d].inst
             /\ call'[d].clean = call[d].clean
             /\ d # c => (PrimaryLanded(d)' <=> PrimaryLanded(d))
             /\ SecondaryLanded(d)' <=> SecondaryLanded(d)
  BY <1>1, LandStep
<1>4. call[c].inst \in Instances
  BY <1>1, ActiveCall, CallFields
<1>5. ASSUME NEW d \in Calls PROVE CleanHolds(d)'
  <2> SUFFICES ASSUME Active(d), call[d].clean PROVE CleanHolds(d)'
    BY <1>3 DEF CleanHolds
  <2>1. d # c => Writes(call[c]) = None
    BY <1>1, WritesAllowed
  <2>2. PrimaryLanded(d)' => primary'[call[d].inst] \in {None, Writes(call[d])}
    <3>1. CASE d = c
      BY <1>1, <1>4, <3>1 DEF TypeOK
    <3>2. CASE d # c
      BY <1>1, <1>3, <2>1, <3>2 DEF TypeOK, RecentInv, CleanHolds
    <3> QED  BY <3>1, <3>2
  <2>3. SecondaryLanded(d)' => secondary' \in {None, Writes(call[d])}
    BY <1>1, <1>3 DEF RecentInv, CleanHolds
  <2> QED  BY <1>3, <2>2, <2>3 DEF CleanHolds
<1>6. OnlyRecentValues'
  BY <1>1, <1>4, WritesAllowed DEF OnlyRecentValues, RecentInv, TypeOK
<1> QED  BY <1>2, <1>5, <1>6 DEF RecentInv

\* A write's request to the secondary store lands and keeps the invariant.
LEMMA LandSecondaryStep ==
    ASSUME TypeOK, RecentInv, NEW c \in Calls, LandSecondary(c)
    PROVE  RecentInv'
<1>1. /\ Active(c) /\ UNCHANGED <<allowed, shared, primary>>
      /\ call' = [call EXCEPT ![c].pending = @ \ {"secondary"}]
      /\ secondary' = Writes(call[c])
  BY DEF LandSecondary
<1>2. /\ SetsAllowed' /\ SharedAllowed' /\ BackfillAllowed'
      /\ CleanAlone' /\ GetsUnclean'
  BY <1>1, LandStep
<1>3. ASSUME NEW d \in Calls
      PROVE  /\ Active(d)' <=> Active(d)
             /\ Writes(call'[d]) = Writes(call[d])
             /\ call'[d].inst = call[d].inst
             /\ call'[d].clean = call[d].clean
             /\ PrimaryLanded(d)' <=> PrimaryLanded(d)
             /\ d # c => (SecondaryLanded(d)' <=> SecondaryLanded(d))
  BY <1>1, LandStep
<1>4. ASSUME NEW d \in Calls PROVE CleanHolds(d)'
  <2> SUFFICES ASSUME Active(d), call[d].clean PROVE CleanHolds(d)'
    BY <1>3 DEF CleanHolds
  <2>1. d # c => Writes(call[c]) = None
    BY <1>1, WritesAllowed
  <2>2. PrimaryLanded(d)' => primary'[call[d].inst] \in {None, Writes(call[d])}
    BY <1>1, <1>3 DEF RecentInv, CleanHolds
  <2>3. secondary' \in {None, Writes(call[d])}
    BY <1>1, <2>1
  <2> QED  BY <1>3, <2>2, <2>3 DEF CleanHolds
<1>5. OnlyRecentValues'
  BY <1>1, WritesAllowed DEF OnlyRecentValues, RecentInv
<1> QED  BY <1>2, <1>4, <1>5 DEF RecentInv

\* A back-fill lands: it disturbs the writes whose primary request it undoes.
LEMMA LandBackfillStep ==
    ASSUME TypeOK, RecentInv, NEW c \in Calls, LandBackfill(c)
    PROVE  RecentInv'
<1> DEFINE r(d) == IF d = c THEN [call[c] EXCEPT !.pending = @ \ {"backfill"}]
                   ELSE call[d]
           i == call[c].inst
           hit(d) == /\ Active(d) /\ call[d].inst = i
                     /\ "primary" \notin call[d].pending
                     /\ Writes(call[d]) # call[c].value
<1>1. /\ Active(c) /\ UNCHANGED <<allowed, shared, secondary>>
      /\ "backfill" \in call[c].pending
      /\ call' = [d \in Calls |-> IF hit(d) THEN [r(d) EXCEPT !.clean = FALSE]
                                  ELSE r(d)]
      /\ primary' = [primary EXCEPT ![i] = call[c].value]
  BY DEF LandBackfill
<1>2. call[c] \in Call /\ i \in Instances
  BY <1>1, ActiveCall, CallFields
<1>3. ASSUME NEW d \in Calls, Active(d)
      PROVE  /\ Active(d)'
             /\ call'[d].op = call[d].op /\ call'[d].inst = call[d].inst
             /\ call'[d].value = call[d].value /\ call'[d].at = call[d].at
             /\ call'[d].batch = call[d].batch
             /\ call'[d].clean = (call[d].clean /\ ~hit(d))
             /\ call'[d].pending = IF d = c THEN call[d].pending \ {"backfill"}
                                   ELSE call[d].pending
  <2>1. call[d] \in Call
    BY <1>3, ActiveCall
  <2>2. /\ r(d) \in Call
        /\ r(d).op = call[d].op /\ r(d).inst = call[d].inst
        /\ r(d).value = call[d].value /\ r(d).at = call[d].at
        /\ r(d).batch = call[d].batch /\ r(d).clean = call[d].clean
        /\ r(d).pending = IF d = c THEN call[d].pending \ {"backfill"}
                          ELSE call[d].pending
    BY <1>2, <2>1 DEF Call
  <2> HIDE DEF r
  <2>3. CASE hit(d)
    <3>1. call'[d] = [r(d) EXCEPT !.clean = FALSE]
      BY <1>1, <2>3
    <3>2. call'[d] \in Call
      BY <2>2, <3>1 DEF Call
    <3> HIDE DEF hit
    <3> QED  BY <2>2, <2>3, <3>1, <3>2, NoneAssumption DEF Active, Call
  <2>4. CASE ~hit(d)
    <3>1. call'[d] = r(d)
      BY <1>1, <2>4
    <3>2. call[d].clean \in BOOLEAN
      BY <2>1, CallFields
    <3> HIDE DEF hit
    <3> QED  BY <2>2, <2>4, <3>1, <3>2, NoneAssumption DEF Active
  <2> QED  BY <2>3, <2>4
<1>4. ASSUME NEW d \in Calls, ~Active(d) PROVE ~Active(d)'
  BY <1>1, <1>4 DEF Active
<1>5. call[c].value \in allowed[i]
  BY <1>1 DEF RecentInv, BackfillAllowed
<1> HIDE DEF r
<1>6. SetsAllowed' /\ SharedAllowed' /\ BackfillAllowed'
  <2>1. SetsAllowed'
    <3> SUFFICES ASSUME NEW d \in Calls, Active(d)', call'[d].op = "set"
                 PROVE  call'[d].value \in shared'
      BY DEF SetsAllowed
    <3>1. Active(d) /\ call[d].op = "set" /\ call'[d].value = call[d].value
      BY <1>3, <1>4
    <3> QED  BY <1>1, <3>1 DEF SetsAllowed, RecentInv
  <2>2. SharedAllowed'
    BY <1>1 DEF SharedAllowed, RecentInv
  <2>3. BackfillAllowed'
    <3> SUFFICES ASSUME NEW d \in Calls, Active(d)',
                        "backfill" \in call'[d].pending
                 PROVE  call'[d].value \in allowed'[call'[d].inst]
      BY DEF BackfillAllowed
    <3>1. /\ Active(d) /\ "backfill" \in call[d].pending
          /\ call'[d].value = call[d].value /\ call'[d].inst = call[d].inst
      BY <1>3, <1>4
    <3> QED  BY <1>1, <3>1 DEF BackfillAllowed, RecentInv
  <2> QED  BY <2>1, <2>2, <2>3
<1>7. CleanAlone' /\ GetsUnclean'
  <2>1. CleanAlone'
    BY <1>3, <1>4 DEF CleanAlone, RecentInv
  <2>2. GetsUnclean'
    BY <1>3, <1>4 DEF GetsUnclean, RecentInv
  <2> QED  BY <2>1, <2>2
<1>8. ASSUME NEW d \in Calls PROVE CleanHolds(d)'
  <2> SUFFICES ASSUME Active(d), call[d].clean, ~hit(d) PROVE CleanHolds(d)'
    BY <1>3, <1>4 DEF CleanHolds
  <2>1. /\ Writes(call'[d]) = Writes(call[d])
        /\ call'[d].inst = call[d].inst
        /\ PrimaryLanded(d)' <=> PrimaryLanded(d)
        /\ SecondaryLanded(d)' <=> SecondaryLanded(d)
    BY <1>3 DEF Writes, PrimaryLanded, SecondaryLanded
  <2>2. CleanHolds(d)
    BY DEF RecentInv
  <2>3. PrimaryLanded(d) => primary'[call[d].inst] \in {None, Writes(call[d])}
    <3>1. CASE call[d].inst = i
      BY <1>1, <1>2, <3>1 DEF PrimaryLanded, TypeOK
    <3>2. CASE call[d].inst # i
      BY <1>1, <2>2, <3>2 DEF CleanHolds, TypeOK
    <3> QED  BY <3>1, <3>2
  <2> QED  BY <1>1, <2>1, <2>2, <2>3 DEF CleanHolds
<1>9. OnlyRecentValues'
  BY <1>1, <1>2, <1>5 DEF OnlyRecentValues, RecentInv, TypeOK
<1> QED  BY <1>6, <1>7, <1>8, <1>9 DEF RecentInv

-----------------------------------------------------------------------------
\* Losing a copy, or touching only the tag metadata, keeps the invariant.
LEMMA LossStep ==
    ASSUME TypeOK, RecentInv, UNCHANGED <<call, allowed, shared>>,
           \A i \in Instances : primary'[i] \in {None, primary[i]},
           secondary' \in {None, secondary}
    PROVE  RecentInv'
<1>1. /\ SetsAllowed' /\ SharedAllowed' /\ BackfillAllowed'
      /\ CleanAlone' /\ GetsUnclean'
  BY DEF RecentInv, SetsAllowed, SharedAllowed, BackfillAllowed, CleanAlone,
         GetsUnclean, Active
<1>2. ASSUME NEW c \in Calls PROVE CleanHolds(c)'
  <2>1. Active(c) => call[c].inst \in Instances
    BY ActiveCall, CallFields
  <2> QED  BY <2>1 DEF RecentInv, CleanHolds, Active, PrimaryLanded,
                       SecondaryLanded, Writes
<1>3. OnlyRecentValues'
  BY DEF RecentInv, OnlyRecentValues
<1> QED  BY <1>1, <1>2, <1>3 DEF RecentInv

\* A step of call c that changes its record and nothing else is quiet if the
\* record keeps what the invariant speaks of.
LEMMA QuietRecord ==
    ASSUME TypeOK, NEW c \in Calls, NEW r \in Call, Active(c),
           call' = [call EXCEPT ![c] = r],
           UNCHANGED <<primary, secondary, allowed, shared>>,
           r.op = call[c].op, r.inst = call[c].inst, r.value = call[c].value,
           r.at \in GetStep => call[c].at \in GetStep,
           "backfill" \in r.pending => "backfill" \in call[c].pending,
           r.clean =>
               /\ call[c].clean /\ r.batch = call[c].batch
               /\ "primary" \in call[c].pending => "primary" \in r.pending
               /\ "secondary" \in call[c].pending => "secondary" \in r.pending
               /\ call[c].batch /\ call[c].at = "stores" =>
                     r.at = "stores" \/ "secondary" \in r.pending
    PROVE  Quiet(c)
<1>1. /\ Active(c)' /\ call'[c] = r
      /\ \A d \in Calls : d # c => call'[d] = call[d]
  BY RecordStep
<1> QED  BY <1>1 DEF Quiet, PrimaryLanded, SecondaryLanded

\* The inductive invariant behind OnlyRecentValues holds in every reachable state.
THEOREM RecentHolds == Spec => []RecentInv
<1>1. Init => RecentInv
  <2> SUFFICES ASSUME Init PROVE RecentInv
    OBVIOUS
  <2>1. \A c \in Calls : ~Active(c)
    BY DEF Init, Active
  <2>2. SharedAllowed /\ OnlyRecentValues
    BY DEF Init, SharedAllowed, OnlyRecentValues
  <2> QED  BY <2>1, <2>2 DEF RecentInv, SetsAllowed, BackfillAllowed, CleanAlone,
                             GetsUnclean, CleanHolds
<1>2. TypeOK /\ TypeOK' /\ RecentInv /\ [Next]_vars => RecentInv'
  <2> SUFFICES ASSUME TypeOK, TypeOK', RecentInv, [Next]_vars PROVE RecentInv'
    OBVIOUS
  <2>1. ASSUME NEW c \in Calls, Begin(c) PROVE RecentInv'
    <3>1. PICK i \in Instances, batch \in BOOLEAN :
            \/ \E take \in BOOLEAN, b \in Overrides : Get(c, i, batch, take, b)
            \/ \E v \in Values, tag \in BOOLEAN, b \in Overrides :
                   Set(c, i, v, tag, batch, b)
            \/ Delete(c, i, batch) \/ Clear(c, i)
      BY <2>1 DEF Begin
    <3>2. /\ Blank(i) \in Call /\ Blank(i).pending = {} /\ Blank(i).inst = i
      BY BlankType DEF Blank
    <3>3. FirstRequests(batch) \subseteq Request
      BY DEF FirstRequests, Request
    <3>4. /\ "primary" \in FirstRequests(batch)
          /\ batch \/ "secondary" \in FirstRequests(batch)
          /\ "backfill" \notin FirstRequests(batch)
      BY DEF FirstRequests
    <3>5. ASSUME NEW take \in BOOLEAN, NEW b \in Overrides,
                 Get(c, i, batch, take, b)
          PROVE  RecentInv'
      <4> DEFINE s == Blank(i)
                 r == [s EXCEPT !.batch = batch, !.take = take,
                          !.background = b, !.at = "getPrimary", !.must = invalid]
      <4>1. b \in BOOLEAN /\ invalid \in BOOLEAN
        BY CacheableAssumption DEF TypeOK
      <4>2. /\ call' = [call EXCEPT ![c] = r] /\ ~Active(c)
            /\ UNCHANGED <<primary, secondary, allowed, shared>>
        BY <3>5 DEF Get
      <4>3. s \in Call /\ s.op = "get" /\ ~s.clean /\ s.pending = {}
        BY BlankType DEF Blank
      <4> HIDE DEF s
      <4>4. r \in Call
        BY <4>1, <4>3 DEF Call, Step
      <4>5. r.op = "get" /\ ~r.clean /\ r.pending = {}
        BY <4>3, <4>4 DEF Call
      <4> HIDE DEF r
      <4>6. /\ call'[c] = r
            /\ \A d \in Calls : d # c =>
                  call'[d] = call[d] /\ (Active(d)' <=> Active(d))
        BY <4>2 DEF TypeOK, Active
      <4>7. SetsAllowed' /\ SharedAllowed' /\ BackfillAllowed'
        BY <4>2, <4>5, <4>6
           DEF RecentInv, SetsAllowed, SharedAllowed, BackfillAllowed
      <4>8. CleanAlone' /\ GetsUnclean'
        BY <4>2, <4>5, <4>6 DEF RecentInv, CleanAlone, GetsUnclean
      <4>9. ASSUME NEW d \in Calls PROVE CleanHolds(d)'
        BY <4>2, <4>5, <4>6 DEF RecentInv, CleanHolds, PrimaryLanded,
                                SecondaryLanded, Writes
      <4>10. OnlyRecentValues'
        BY <4>2 DEF RecentInv, OnlyRecentValues
      <4> QED  BY <4>7, <4>8, <4>9, <4>10 DEF RecentInv
    <3>6. ASSUME NEW v \in Values, NEW tag \in BOOLEAN, NEW b \in Overrides,
                 Set(c, i, v, tag, batch, b)
          PROVE  RecentInv'
      <4> DEFINE s == Blank(i)  t == tag /\ TagsEnabled
                 r == [s EXCEPT !.op = "set", !.value = v, !.tag = t,
                          !.batch = batch, !.background = b, !.at = "stores",
                          !.pending = FirstRequests(batch)]
      <4>1. b \in BOOLEAN /\ t \in BOOLEAN /\ s \in Call
        BY <3>2, CacheableAssumption
      <4>2. /\ Write(c, r)
            /\ allowed' = [j \in Instances |-> allowed[j] \cup {v}]
            /\ shared' = shared \cup {v}
        BY <3>6 DEF Set
      <4> HIDE DEF s, t
      <4>3. r \in Call
        BY <3>3, <4>1 DEF Call, Step
      <4>4. /\ r.op = "set" /\ r.value = v /\ r.at = "stores"
            /\ r.batch = batch /\ r.pending = FirstRequests(batch)
        BY <4>1, <4>3 DEF Call
      <4> HIDE DEF r
      <4> QED  BY <3>4, <4>2, <4>3, <4>4, WriteStep
    <3>7. ASSUME Delete(c, i, batch) PROVE RecentInv'
      <4> DEFINE s == Blank(i)
                 r == [s EXCEPT !.op = "delete", !.batch = batch,
                          !.at = "stores", !.pending = FirstRequests(batch)]
      <4>1. Write(c, r) /\ UNCHANGED <<allowed, shared>> /\ s \in Call
        BY <3>2, <3>7 DEF Delete
      <4> HIDE DEF s
      <4>2. r \in Call
        BY <3>3, <4>1 DEF Call, Step
      <4>3. /\ r.op = "delete" /\ r.at = "stores" /\ r.batch = batch
            /\ r.pending = FirstRequests(batch)
        BY <4>1, <4>2 DEF Call
      <4> HIDE DEF r
      <4> QED  BY <3>4, <4>1, <4>2, <4>3, WriteStep
    <3>8. ASSUME Clear(c, i) PROVE RecentInv'
      <4> DEFINE s == Blank(i)
                 r == [s EXCEPT !.op = "clear", !.at = "stores",
                          !.pending = {"primary", "secondary"}]
      <4>1. Write(c, r) /\ UNCHANGED <<allowed, shared>> /\ s \in Call
        BY <3>2, <3>8 DEF Clear
      <4> HIDE DEF s
      <4>2. r \in Call
        BY <4>1 DEF Call, Step, Request
      <4>3. /\ r.op = "clear" /\ r.at = "stores"
            /\ r.pending = {"primary", "secondary"}
        BY <4>1, <4>2 DEF Call
      <4> HIDE DEF r
      <4> QED  BY <4>1, <4>2, <4>3, WriteStep
    <3> QED  BY <3>1, <3>5, <3>6, <3>7, <3>8
  <2>2. ASSUME NEW c \in Calls, Run(c) PROVE RecentInv'
    <3>1. CASE TakeDelete(c)
      <4> DEFINE r == [call[c] EXCEPT !.op = "delete", !.take = FALSE,
                          !.at = "stores", !.background = NonBlocking,
                          !.pending = @ \cup FirstRequests(call[c].batch)]
      <4>1. /\ Active(c) /\ call[c] \in Call /\ Write(c, r)
            /\ call[c].pending \subseteq {"backfill"}
            /\ UNCHANGED <<allowed, shared>>
        BY <3>1, ActiveCall DEF TakeDelete
      <4>2. FirstRequests(call[c].batch) \subseteq Request
        BY DEF FirstRequests, Request
      <4>3. r \in Call
        BY <4>1, <4>2, CacheableAssumption DEF Call, Step
      <4>4. /\ r.op = "delete" /\ r.at = "stores"
            /\ r.batch = call[c].batch /\ r.value = call[c].value
            /\ r.inst = call[c].inst
            /\ r.pending = call[c].pending \cup FirstRequests(call[c].batch)
        BY <4>1, <4>3 DEF Call
      <4> HIDE DEF r
      <4>5. /\ "primary" \in r.pending
            /\ r.batch \/ "secondary" \in r.pending
            /\ "backfill" \in r.pending => "backfill" \in call[c].pending
        BY <4>4 DEF FirstRequests
      <4>6. r.op # "get" /\ r.op # "set" /\ r.at = "stores"
        BY <4>4
      <4>7. "backfill" \in r.pending =>
               /\ Active(c) /\ "backfill" \in call[c].pending
               /\ r.value = call[c].value /\ r.inst = call[c].inst
        BY <4>1, <4>4, <4>5
      <4> QED  BY <4>1, <4>3, <4>5, <4>6, <4>7, WriteStep
    <3>2. CASE Finish(c)
      BY <3>2, FinishStep
    <3>3. CASE GetSecondary(c) /\ SecondaryHit(c)
      BY <3>3, GetSecondaryStep
    <3>0. call[c].at \in GetStep /\ Active(c) => ~call[c].clean
      BY DEF RecentInv, GetsUnclean
    <3>4. CASE GetPrimary(c)
      <4> DEFINE r == [call[c] EXCEPT
                   !.result = primary[call[c].inst],
                   !.served = (primary[call[c].inst] # None),
                   !.at = IF primary[call[c].inst] = None THEN "getSecondary"
                          ELSE Checked]
      <4>1. /\ Active(c) /\ call[c] \in Call /\ UNCHANGED <<primary, secondary, allowed, shared>>
            /\ call' = [call EXCEPT ![c] = r]
        BY <3>4, ActiveCall DEF GetPrimary
      <4>2. r \in Call
        BY <4>1 DEF Call, Step, Checked, TypeOK
      <4>3. /\ r.op = call[c].op /\ r.inst = call[c].inst /\ r.value = call[c].value
            /\ r.clean = call[c].clean /\ r.batch = call[c].batch
            /\ r.pending = call[c].pending /\ call[c].at \in GetStep
        BY <3>4, <4>1, <4>2 DEF Call, GetStep, GetPrimary
      <4> HIDE DEF r
      <4> QED  BY <4>1, <4>2, <4>3, <3>0, QuietRecord, QuietStep
    <3>5. CASE GetSecondary(c) /\ ~SecondaryHit(c)
      <4> DEFINE r == [call[c] EXCEPT !.at = "returned"]
      <4>1. /\ Active(c) /\ call[c] \in Call /\ UNCHANGED <<primary, secondary, allowed, shared>>
            /\ call' = [call EXCEPT ![c] = r]
        BY <3>5, ActiveCall DEF GetSecondary
      <4>2. r \in Call
        BY <4>1 DEF Call, Step
      <4>3. /\ r.op = call[c].op /\ r.inst = call[c].inst /\ r.value = call[c].value
            /\ r.clean = call[c].clean /\ r.batch = call[c].batch
            /\ r.pending = call[c].pending /\ call[c].at \in GetStep
        BY <3>5, <4>1, <4>2 DEF Call, GetStep, GetSecondary
      <4> HIDE DEF r
      <4> QED  BY <4>1, <4>2, <4>3, <3>0, QuietRecord, QuietStep
    <3>6. CASE AfterBackfill(c)
      <4> DEFINE r == [call[c] EXCEPT !.at = Checked]
      <4>1. /\ Active(c) /\ call[c] \in Call /\ UNCHANGED <<primary, secondary, allowed, shared>>
            /\ call' = [call EXCEPT ![c] = r]
        BY <3>6, ActiveCall DEF AfterBackfill
      <4>2. r \in Call
        BY <4>1 DEF Call, Step, Checked
      <4>3. /\ r.op = call[c].op /\ r.inst = call[c].inst /\ r.value = call[c].value
            /\ r.clean = call[c].clean /\ r.batch = call[c].batch
            /\ r.pending = call[c].pending /\ call[c].at \in GetStep
        BY <3>6, <4>1, <4>2 DEF Call, GetStep, AfterBackfill
      <4> HIDE DEF r
      <4> QED  BY <4>1, <4>2, <4>3, <3>0, QuietRecord, QuietStep
    <3>7. CASE CheckSnapshot(c)
      <4> DEFINE r == [call[c] EXCEPT
                   !.seen = snapshot,
                   !.at = IF snapshot = NoSnapshot THEN "returned"
                          ELSE "checkVersion"]
      <4>1. /\ Active(c) /\ call[c] \in Call /\ UNCHANGED <<primary, secondary, allowed, shared>>
            /\ call' = [call EXCEPT ![c] = r]
        BY <3>7, ActiveCall DEF CheckSnapshot
      <4>2. r \in Call
        BY <4>1 DEF Call, Step, TypeOK
      <4>3. /\ r.op = call[c].op /\ r.inst = call[c].inst /\ r.value = call[c].value
            /\ r.clean = call[c].clean /\ r.batch = call[c].batch
            /\ r.pending = call[c].pending /\ call[c].at \in GetStep
        BY <3>7, <4>1, <4>2 DEF Call, GetStep, CheckSnapshot
      <4> HIDE DEF r
      <4> QED  BY <4>1, <4>2, <4>3, <3>0, QuietRecord, QuietStep
    <3>8. CASE CheckVersion(c) /\ call[c].seen = version
      <4> DEFINE r == [call[c] EXCEPT !.at = "returned"]
      <4>1. /\ Active(c) /\ call[c] \in Call /\ UNCHANGED <<primary, secondary, allowed, shared>>
            /\ call' = [call EXCEPT ![c] = r]
        BY <3>8, ActiveCall DEF CheckVersion
      <4>2. r \in Call
        BY <4>1 DEF Call, Step
      <4>3. /\ r.op = call[c].op /\ r.inst = call[c].inst /\ r.value = call[c].value
            /\ r.clean = call[c].clean /\ r.batch = call[c].batch
            /\ r.pending = call[c].pending /\ call[c].at \in GetStep
        BY <3>8, <4>1, <4>2 DEF Call, GetStep, CheckVersion
      <4> HIDE DEF r
      <4> QED  BY <4>1, <4>2, <4>3, <3>0, QuietRecord, QuietStep
    <3>9. CASE CheckVersion(c) /\ call[c].seen # version
      <4> DEFINE r == [call[c] EXCEPT
                   !.at = "stores", !.background = NonBlocking,
                   !.pending = @ \cup FirstRequests(call[c].batch),
                   !.result = IF call[c].batch THEN None ELSE @]
      <4>1. /\ Active(c) /\ call[c] \in Call /\ UNCHANGED <<primary, secondary, allowed, shared>>
            /\ call[c].at \in GetStep /\ call' = [call EXCEPT ![c] = r]
        BY <3>9, ActiveCall DEF CheckVersion, GetStep
      <4>2. FirstRequests(call[c].batch) \subseteq Request \ {"backfill"}
        BY DEF FirstRequests, Request
      <4>3. r \in Call
        BY <4>1, <4>2, CacheableAssumption DEF Call, Step
      <4>4. /\ r.op = call[c].op /\ r.inst = call[c].inst /\ r.value = call[c].value
            /\ r.clean = call[c].clean /\ r.at = "stores"
            /\ r.pending = call[c].pending \cup FirstRequests(call[c].batch)
        BY <4>1, <4>3 DEF Call
      <4> HIDE DEF r
      <4> QED  BY <4>1, <4>2, <4>3, <4>4, <3>0, QuietRecord, QuietStep DEF GetStep
    <3>10. CASE IssueSecondary(c)
      <4> DEFINE r == [call[c] EXCEPT
                   !.at = "second", !.pending = @ \cup {"secondary"}]
      <4>1. /\ Active(c) /\ call[c] \in Call /\ UNCHANGED <<primary, secondary, allowed, shared>>
            /\ call' = [call EXCEPT ![c] = r]
        BY <3>10, ActiveCall DEF IssueSecondary
      <4>2. r \in Call
        BY <4>1 DEF Call, Step, Request
      <4>3. /\ r.op = call[c].op /\ r.inst = call[c].inst /\ r.value = call[c].value
            /\ r.clean = call[c].clean /\ r.batch = call[c].batch
            /\ r.pending = call[c].pending \cup {"secondary"} /\ r.at \notin GetStep
        BY <3>10, <4>1, <4>2 DEF Call, GetStep, IssueSecondary
      <4> HIDE DEF r
      <4> QED  BY <4>1, <4>2, <4>3, <3>0, QuietRecord, QuietStep
    <3>11. CASE AfterStores(c) /\ ~(TagsEnabled /\ call[c].op # "clear")
      <4> DEFINE r == [call[c] EXCEPT !.at = "returned"]
      <4>1. /\ Active(c) /\ call[c] \in Call /\ UNCHANGED <<primary, secondary, allowed, shared>>
            /\ call' = [call EXCEPT ![c] = r]
        BY <3>11, ActiveCall DEF AfterStores
      <4>2. r \in Call
        BY <4>1 DEF Call, Step
      <4>3. /\ r.op = call[c].op /\ r.inst = call[c].inst /\ r.value = call[c].value
            /\ r.clean = call[c].clean /\ r.batch = call[c].batch
            /\ r.pending = call[c].pending /\ r.at \notin GetStep
            /\ ~(call[c].batch /\ call[c].at = "stores")
        BY <3>11, <4>1, <4>2 DEF Call, GetStep, AfterStores, StoresSettled
      <4> HIDE DEF r
      <4> QED  BY <4>1, <4>2, <4>3, <3>0, QuietRecord, QuietStep
    <3>12. CASE AfterStores(c) /\ TagsEnabled /\ call[c].op # "clear"
      <4> DEFINE r == [call[c] EXCEPT
                   !.at = "tags",
                   !.pending = @ \cup {IF call[c].op = "set" /\ call[c].tag
                                       THEN "version" ELSE "snapshot"}]
      <4>1. /\ Active(c) /\ call[c] \in Call /\ UNCHANGED <<primary, secondary, allowed, shared>>
            /\ call' = [call EXCEPT ![c] = r]
        BY <3>12, ActiveCall DEF AfterStores
      <4>2. r \in Call
        BY <4>1 DEF Call, Step, Request
      <4>3. /\ r.op = call[c].op /\ r.inst = call[c].inst /\ r.value = call[c].value
            /\ r.clean = call[c].clean /\ r.batch = call[c].batch
            /\ r.pending \ {"version", "snapshot"} = call[c].pending \ {"version", "snapshot"}
            /\ r.at \notin GetStep /\ ~(call[c].batch /\ call[c].at = "stores")
        BY <3>12, <4>1, <4>2 DEF Call, GetStep, AfterStores, StoresSettled
      <4> HIDE DEF r
      <4> QED  BY <4>1, <4>2, <4>3, <3>0, QuietRecord, QuietStep
    <3>13. CASE AfterTags(c)
      <4> DEFINE r == [call[c] EXCEPT
                   !.at = "returned",
                   !.result = IF call[c].op = "get" THEN None ELSE @]
      <4>1. /\ Active(c) /\ call[c] \in Call /\ UNCHANGED <<primary, secondary, allowed, shared>>
            /\ call' = [call EXCEPT ![c] = r]
        BY <3>13, ActiveCall DEF AfterTags
      <4>2. r \in Call
        BY <4>1 DEF Call, Step
      <4>3. /\ r.op = call[c].op /\ r.inst = call[c].inst /\ r.value = call[c].value
            /\ r.clean = call[c].clean /\ r.batch = call[c].batch
            /\ r.pending = call[c].pending /\ r.at \notin GetStep
            /\ ~(call[c].batch /\ call[c].at = "stores")
        BY <3>13, <4>1, <4>2 DEF Call, GetStep, AfterTags
      <4> HIDE DEF r
      <4> QED  BY <4>1, <4>2, <4>3, <3>0, QuietRecord, QuietStep
    <3> QED  BY <2>2, <3>1, <3>2, <3>3, <3>4, <3>5, <3>6, <3>7, <3>8, <3>9,
                <3>10, <3>11, <3>12, <3>13 DEF Run
  <2>3. ASSUME NEW c \in Calls, Land(c) PROVE RecentInv'
    <3>1. CASE LandPrimary(c)
      BY <3>1, LandPrimaryStep
    <3>2. CASE LandSecondary(c)
      BY <3>2, LandSecondaryStep
    <3>3. CASE LandBackfill(c)
      BY <3>3, LandBackfillStep
    <3>4. CASE ReadVersion(c)
      <4> DEFINE r == [call[c] EXCEPT
                   !.seen = version,
                   !.pending = (@ \ {"version"}) \cup {"snapshot"}]
      <4>1. /\ Active(c) /\ call[c] \in Call /\ UNCHANGED <<primary, secondary, allowed, shared>>
            /\ call' = [call EXCEPT ![c] = r]
        BY <3>4, ActiveCall DEF ReadVersion
      <4>2. r \in Call
        <5>1. version \in Int
          BY DEF TypeOK
        <5> QED  BY <4>1, <5>1 DEF Call, Step, Request
      <4>3. /\ r.op = call[c].op /\ r.inst = call[c].inst /\ r.value = call[c].value
            /\ r.clean = call[c].clean /\ r.batch = call[c].batch
            /\ r.pending \ {"version", "snapshot"} = call[c].pending \ {"version", "snapshot"}
            /\ r.at = call[c].at
        BY <3>4, <4>1, <4>2 DEF Call, GetStep, ReadVersion
      <4> HIDE DEF r
      <4> QED  BY <4>1, <4>2, <4>3, QuietRecord, QuietStep
    <3>5. CASE LandSnapshot(c)
      <4> DEFINE r == [call[c] EXCEPT !.pending = @ \ {"snapshot"}]
      <4>1. /\ Active(c) /\ call[c] \in Call /\ UNCHANGED <<primary, secondary, allowed, shared>>
            /\ call' = [call EXCEPT ![c] = r]
        BY <3>5, ActiveCall DEF LandSnapshot
      <4>2. r \in Call
        BY <4>1 DEF Call, Step
      <4>3. /\ r.op = call[c].op /\ r.inst = call[c].inst /\ r.value = call[c].value
            /\ r.clean = call[c].clean /\ r.batch = call[c].batch
            /\ r.pending = call[c].pending \ {"snapshot"} /\ r.at = call[c].at
        BY <3>5, <4>1, <4>2 DEF Call, GetStep, LandSnapshot
      <4> HIDE DEF r
      <4> QED  BY <4>1, <4>2, <4>3, QuietRecord, QuietStep
    <3>6. ASSUME NEW q \in Request, Reject(c, q) PROVE RecentInv'
      <4> DEFINE s == IF q \in Awaited(call[c]) THEN Abort(c) ELSE call[c]
                 r == [s EXCEPT !.pending = @ \ {q}, !.clean = FALSE]
      <4>1. /\ Active(c) /\ call[c] \in Call /\ UNCHANGED <<primary, secondary, allowed, shared>>
            /\ call' = [call EXCEPT ![c] = r]
        BY <3>6, ActiveCall DEF Reject
      <4>2. /\ Abort(c) \in Call /\ Abort(c).op = call[c].op
            /\ Abort(c).inst = call[c].inst /\ Abort(c).value = call[c].value
            /\ Abort(c).pending = call[c].pending /\ Abort(c).at = "returned"
        BY <4>1 DEF Abort, Call, Step
      <4>3. /\ s \in Call /\ s.op = call[c].op
            /\ s.inst = call[c].inst /\ s.value = call[c].value
            /\ s.pending = call[c].pending
            /\ s.at \in GetStep => call[c].at \in GetStep
        BY <4>1, <4>2 DEF GetStep
      <4> HIDE DEF s
      <4>4. r \in Call
        BY <4>3 DEF Call
      <4>5. /\ r.op = call[c].op /\ r.inst = call[c].inst
            /\ r.value = call[c].value /\ r.clean = FALSE
            /\ r.pending = call[c].pending \ {q} /\ r.at = s.at
        BY <4>3, <4>4 DEF Call
      <4> HIDE DEF r
      <4> QED  BY <4>1, <4>3, <4>4, <4>5, QuietRecord, QuietStep
    <3>7. CASE RejectRead(c)
      <4>1. /\ Active(c) /\ call[c] \in Call /\ UNCHANGED <<primary, secondary, allowed, shared>>
            /\ call' = [call EXCEPT ![c] = Abort(c)] /\ call[c].at \in GetStep
        BY <3>7, ActiveCall DEF RejectRead, GetStep
      <4>2. Abort(c) \in Call
        BY <4>1 DEF Abort, Call, Step
      <4>3. /\ Abort(c).op = call[c].op /\ Abort(c).inst = call[c].inst
            /\ Abort(c).value = call[c].value /\ Abort(c).at \notin GetStep
            /\ Abort(c).pending = call[c].pending
            /\ Abort(c).clean = call[c].clean
        BY <4>1, <4>2 DEF Abort, Call, GetStep
      <4>4. ~call[c].clean
        BY <4>1 DEF RecentInv, GetsUnclean
      <4> QED  BY <4>1, <4>2, <4>3, <4>4, QuietRecord, QuietStep
    <3> QED  BY <2>3, <3>1, <3>2, <3>3, <3>4, <3>5, <3>6, <3>7 DEF Land
  <2>4. CASE \/ InvalidateTag \/ (\E i \in Instances : LosePrimary(i))
             \/ LoseSecondary \/ LoseSnapshot \/ UNCHANGED vars
    <3>1. /\ UNCHANGED <<call, allowed, shared>>
          /\ \A i \in Instances : primary'[i] \in {None, primary[i]}
          /\ secondary' \in {None, secondary}
      BY <2>4 DEF InvalidateTag, LosePrimary, LoseSecondary, LoseSnapshot, vars,
                  TypeOK
    <3> QED  BY <3>1, LossStep
  <2> QED  BY <2>1, <2>2, <2>3, <2>4 DEF Next
<1> QED  BY <1>1, <1>2, Typing, PTL DEF Spec

\* In both stores of every instance an undisturbed write supersedes every older
\* value, whatever back-fills, rejections and losses happen around it.
THEOREM NeverOlder == Spec => []OnlyRecentValues
<1>1. RecentInv => OnlyRecentValues
  BY DEF RecentInv
<1> QED  BY <1>1, RecentHolds, PTL

-----------------------------------------------------------------------------
(* An invalidated value is a miss, when calls of one instance do not overlap *)

\* Calls do not overlap.
OneCall == \A c, d \in Calls : c = d

\* Every copy outside the shared store is in one primary store.
OneInstance == \A i, j \in Instances : i = j

\* A get waits for its back-fill.
GetsWait == TRUE \notin Overrides

\* The snapshot is there, and behind the counter if the tag was invalidated.
SnapshotTells == snapshot \in 0 .. version /\ (invalid => snapshot < version)

\* Neither store holds the value.
NoCopies == secondary = None /\ \A i \in Instances : primary[i] = None

\* What the deletes of a call leave when they have landed: no copy.
PrimaryGoes(r) == "primary" \in r.pending \/ \A i \in Instances : primary[i] = None
SecondaryGoes(r) == "secondary" \in r.pending \/ secondary = None

\* A get while the last write is a tagged set.
Stages(r) ==
    /\ r.op = "get"
    /\ r.at \in {"getPrimary", "getSecondary"} => r.pending = {} /\ (SnapshotTells \/ NoCopies)
    /\ r.at = "backfill" => r.pending \subseteq {"backfill"} /\ SnapshotTells
    /\ r.at \in {"checkSnapshot", "checkVersion"} => r.pending = {} /\ SnapshotTells
    /\ r.at = "checkVersion" /\ r.must => r.seen < version
    /\ r.at = "stores" =>
          /\ r.pending \subseteq {"primary", "secondary"} /\ SnapshotTells /\ PrimaryGoes(r)
          /\ ~r.batch => SecondaryGoes(r)
    /\ r.at = "second" =>
          /\ r.pending \subseteq {"secondary"} /\ SnapshotTells /\ PrimaryGoes(r)
          /\ SecondaryGoes(r)
    /\ r.at \in {"tags", "returned"} =>
          \/ /\ r.pending \subseteq {"primary", "secondary", "snapshot"}
             /\ PrimaryGoes(r) /\ SecondaryGoes(r)
          \/ r.at = "returned" /\ r.pending = {} /\ SnapshotTells

\* A tagged set that met no other call.
Tagging(r) ==
    /\ r.op = "set" /\ r.tag /\ ~r.take
    /\ r.at \in {"stores", "second", "tags", "returned"}
    /\ r.at \in {"tags", "returned"} =>
          \/ "version" \in r.pending
          \/ "snapshot" \in r.pending /\ r.seen \in 0 .. version
          \/ {"version", "snapshot"} \cap r.pending = {} /\ snapshot \in 0 .. version

\* What a get knows.
Looks(r) ==
    r.op = "get" =>
        /\ r.must => invalid
        /\ r.at \in {"getPrimary", "getSecondary"} => ~r.background
        /\ r.at = "getSecondary" => r.result = None
        /\ r.at = "returned" /\ r.must => r.result = None

\* Between the calls the copies of a value whose tag was invalidated are behind
\* the counter, or gone; during a call this holds stage by stage.
MissInv ==
    /\ tagged # "no" => TagsEnabled
    /\ invalid => tagged = "yes"
    /\ tagged = "yes" /\ Idle => SnapshotTells \/ NoCopies
    /\ tagged = "soon" => ~Idle
    /\ \A c \in Calls : Active(c) =>
          /\ tagged = "yes" => Stages(call[c])
          /\ tagged = "soon" => Tagging(call[c])
          /\ Looks(call[c])

\* With one call at a time the invariant speaks of that call.
LEMMA Enough ==
    ASSUME OneCall, NEW c \in Calls,
           tagged' # "no" => TagsEnabled,
           invalid' => tagged' = "yes",
           ~Active(c)' => tagged' # "soon" /\ (tagged' = "yes" => (SnapshotTells \/ NoCopies)'),
           Active(c)' => /\ tagged' = "yes" => Stages(call[c])'
                         /\ tagged' = "soon" => Tagging(call[c])'
                         /\ Looks(call[c])'
    PROVE  MissInv'
<1>1. \A d \in Calls : d = c
  BY DEF OneCall
<1>2. Idle' <=> ~Active(c)'
  BY <1>1 DEF Idle
<1> QED  BY <1>1, <1>2 DEF MissInv

\* Steps of a call that leave stores and tag alone.
Calm == UNCHANGED <<primary, secondary, snapshot, version, tagged, invalid>>

\* Such a step keeps the invariant if the call's record goes from stage to stage.
LEMMA CalmStep ==
    ASSUME TypeOK, MissInv, OneCall, NEW c \in Calls, Active(c), Calm,
           call'[c] \in Call,
           tagged = "yes" /\ Stages(call[c]) => Stages(call[c])',
           tagged = "soon" /\ Tagging(call[c]) => Tagging(call[c])',
           Looks(call[c]) => Looks(call[c])'
    PROVE  MissInv'
<1>1. Active(c)'
  BY NoneAssumption DEF Active
<1>2. tagged = "yes" => Stages(call[c])
  BY DEF MissInv
<1>3. tagged = "soon" => Tagging(call[c])
  BY DEF MissInv
<1>4. Looks(call[c])
  BY DEF MissInv
<1>5. (tagged # "no" => TagsEnabled) /\ (invalid => tagged = "yes")
  BY DEF MissInv
<1> QED  BY <1>1, <1>2, <1>3, <1>4, <1>5, Enough DEF Calm

-----------------------------------------------------------------------------
(* Steps of a call that leave stores and tag alone                         *)

\* A get reads the primary store.
LEMMA MissGetPrimary ==
    ASSUME TypeOK, MissInv, OneCall, OneInstance, NEW c \in Calls, GetPrimary(c)
    PROVE  MissInv'
<1> DEFINE r == call[c]
           v == primary[r.inst]
           s == [r EXCEPT !.result = v, !.served = (v # None),
                          !.at = IF v = None THEN "getSecondary" ELSE Checked]
<1>1. r \in Call /\ Active(c) /\ r.at = "getPrimary" /\ Calm
  BY ActiveCall DEF GetPrimary, Calm
<1>2. call'[c] = s
  BY <1>1 DEF GetPrimary, TypeOK
<1>3. v \in Values \cup {None} /\ Checked \in Step
  BY <1>1, CallFields DEF TypeOK, Checked, Step
<1>4. s \in Call
  <2>1. (v # None) \in BOOLEAN /\ (IF v = None THEN "getSecondary" ELSE Checked) \in Step
    BY <1>3 DEF Step
  <2> HIDE DEF v
  <2> QED  BY <1>1, <1>3, <2>1 DEF Call
<1>5. s.op = r.op /\ s.pending = r.pending /\ s.must = r.must /\ s.background = r.background
      /\ s.result = v /\ s.at = (IF v = None THEN "getSecondary" ELSE Checked)
      /\ s.tag = r.tag /\ s.take = r.take
  BY <1>1 DEF Call
<1>6. MissInv => (invalid => TagsEnabled)
  BY DEF MissInv
<1>7. v # None => ~NoCopies
  BY <1>1, CallFields DEF NoCopies
<1> HIDE DEF s, v
<1>8. tagged = "yes" /\ Stages(r) => Stages(call[c])'
  BY <1>1, <1>2, <1>5, <1>7
     DEF Stages, Calm, SnapshotTells, NoCopies, PrimaryGoes, SecondaryGoes,
         Checked
<1>9. tagged = "soon" /\ Tagging(r) => Tagging(call[c])'
  BY <1>1 DEF Tagging
<1>10. Looks(r) => Looks(call[c])'
  BY <1>1, <1>2, <1>5, <1>6 DEF Looks, Calm, Checked
<1> QED  BY <1>1, <1>2, <1>4, <1>8, <1>9, <1>10, CalmStep

\* It reads the secondary store, and waits for the back-fill of what it found.
LEMMA MissGetSecondary ==
    ASSUME TypeOK, MissInv, OneCall, NEW c \in Calls, GetSecondary(c)
    PROVE  MissInv'
<1> DEFINE r == call[c]
           s == IF SecondaryHit(c)
                THEN [r EXCEPT !.value = secondary, !.result = secondary,
                               !.pending = @ \cup {"backfill"},
                               !.at = IF r.background THEN Checked ELSE "backfill"]
                ELSE [r EXCEPT !.at = "returned"]
<1>1. r \in Call /\ Active(c) /\ r.at = "getSecondary" /\ Calm
  BY ActiveCall DEF GetSecondary, Calm
<1>2. call'[c] = s
  BY <1>1 DEF GetSecondary, TypeOK
<1>3. s \in Call
  <2>1. [r EXCEPT !.at = "returned"] \in Call
    BY <1>1 DEF Call, Step
  <2>2. [r EXCEPT !.value = secondary, !.result = secondary,
                  !.pending = @ \cup {"backfill"},
                  !.at = IF r.background THEN Checked ELSE "backfill"] \in Call
    BY <1>1 DEF Call, Step, Request, Checked, TypeOK
  <2> QED  BY <2>1, <2>2
<1>4. s.op = r.op /\ s.must = r.must /\ s.tag = r.tag /\ s.take = r.take
      /\ s.background = r.background
     
      /\ s.pending = (IF SecondaryHit(c) THEN r.pending \cup {"backfill"} ELSE r.pending)
     
      /\ s.at = (IF SecondaryHit(c) THEN (IF r.background THEN Checked ELSE "backfill") ELSE "returned")
      /\ s.result = (IF SecondaryHit(c) THEN secondary ELSE r.result)
  BY <1>1 DEF Call
<1> HIDE DEF s
<1>5. tagged = "yes" /\ Stages(r) => Stages(call[c])'
  BY <1>1, <1>2, <1>4, CallFields, NoneAssumption
     DEF Stages, Calm, SnapshotTells, NoCopies, PrimaryGoes, SecondaryGoes,
         MissInv, Looks, Checked, SecondaryHit
<1>6. tagged = "soon" /\ Tagging(r) => Tagging(call[c])'
  BY <1>1, <1>2, <1>4, CallFields DEF Tagging, Calm, TypeOK
<1>7. Looks(r) => Looks(call[c])'
  BY <1>1, <1>2, <1>4, CallFields
     DEF Looks, Calm, MissInv, Stages, SnapshotTells, TypeOK, Checked,
         SecondaryHit
<1> QED  BY <1>1, <1>2, <1>3, <1>5, <1>6, <1>7, CalmStep

\* It goes on to check the tag.
LEMMA MissAfterBackfill ==
    ASSUME TypeOK, MissInv, OneCall, NEW c \in Calls, AfterBackfill(c)
    PROVE  MissInv'
<1> DEFINE r == call[c]
           s == [r EXCEPT !.at = Checked]
<1>1. r \in Call /\ Active(c) /\ r.at = "backfill" /\ "backfill" \notin r.pending /\ Calm
  BY ActiveCall DEF AfterBackfill, Calm
<1>2. call'[c] = s
  BY <1>1 DEF AfterBackfill, TypeOK
<1>3. s \in Call
  BY <1>1, CallFields DEF Call, Step, Request, TypeOK, FirstRequests, Checked
<1>4. s.op = r.op /\ s.must = r.must /\ s.tag = r.tag /\ s.take = r.take
      /\ s.background = r.background /\ s.pending = r.pending
      /\ s.at = Checked /\ s.result = r.result
  BY <1>1 DEF Call
<1> HIDE DEF s
<1>5. tagged = "yes" /\ Stages(r) => Stages(call[c])'
  BY <1>1, <1>2, <1>4, CallFields, NoneAssumption
     DEF Stages, Calm, SnapshotTells, NoCopies, PrimaryGoes, SecondaryGoes,
         MissInv, Looks, Checked
<1>6. tagged = "soon" /\ Tagging(r) => Tagging(call[c])'
  BY <1>1, <1>2, <1>4, CallFields DEF Tagging, Calm, TypeOK
<1>7. Looks(r) => Looks(call[c])'
  BY <1>1, <1>2, <1>4, CallFields
     DEF Looks, Calm, MissInv, Stages, SnapshotTells, TypeOK, Checked
<1> QED  BY <1>1, <1>2, <1>3, <1>5, <1>6, <1>7, CalmStep

\* Reading the snapshot, it learns a version behind the counter if it owes a miss.
LEMMA MissCheckSnapshot ==
    ASSUME TypeOK, MissInv, OneCall, NEW c \in Calls, CheckSnapshot(c)
    PROVE  MissInv'
<1> DEFINE r == call[c]
           s == [r EXCEPT !.seen = snapshot,
                          !.at = IF snapshot = NoSnapshot THEN "returned" ELSE "checkVersion"]
<1>1. r \in Call /\ Active(c) /\ r.at = "checkSnapshot" /\ Calm
  BY ActiveCall DEF CheckSnapshot, Calm
<1>2. call'[c] = s
  BY <1>1 DEF CheckSnapshot, TypeOK
<1>3. s \in Call
  BY <1>1, CallFields DEF Call, Step, Request, TypeOK, FirstRequests
<1>4. s.op = r.op /\ s.must = r.must /\ s.tag = r.tag /\ s.take = r.take
      /\ s.background = r.background /\ s.pending = r.pending
      /\ s.at = (IF snapshot = NoSnapshot THEN "returned" ELSE "checkVersion")
      /\ s.result = r.result /\ s.seen = snapshot
  BY <1>1 DEF Call
<1> HIDE DEF s
<1>5. tagged = "yes" /\ Stages(r) => Stages(call[c])'
  BY <1>1, <1>2, <1>4, CallFields, NoneAssumption
     DEF Stages, Calm, SnapshotTells, NoCopies, PrimaryGoes, SecondaryGoes,
         MissInv, Looks, NoSnapshot
<1>6. tagged = "soon" /\ Tagging(r) => Tagging(call[c])'
  BY <1>1, <1>2, <1>4, CallFields DEF Tagging, Calm, TypeOK
<1>7. Looks(r) => Looks(call[c])'
  BY <1>1, <1>2, <1>4, CallFields
     DEF Looks, Calm, MissInv, Stages, SnapshotTells, TypeOK, NoSnapshot
<1> QED  BY <1>1, <1>2, <1>3, <1>5, <1>6, <1>7, CalmStep

\* Comparing the versions, it then finds the key stale and deletes it.
LEMMA MissCheckVersion ==
    ASSUME TypeOK, MissInv, OneCall, NEW c \in Calls, CheckVersion(c)
    PROVE  MissInv'
<1> DEFINE r == call[c]
           s == IF r.seen = version
                THEN [r EXCEPT !.at = "returned"]
                ELSE [r EXCEPT !.at = "stores", !.background = NonBlocking,
                               !.pending = @ \cup FirstRequests(r.batch),
                               !.result = IF r.batch THEN None ELSE @]
<1>1. r \in Call /\ Active(c) /\ r.at = "checkVersion" /\ Calm
  BY ActiveCall DEF CheckVersion, Calm
<1>2. call'[c] = s
  BY <1>1 DEF CheckVersion, TypeOK
<1>3. s \in Call
  <2>1. [r EXCEPT !.at = "returned"] \in Call
    BY <1>1 DEF Call, Step
  <2>2. FirstRequests(r.batch) \subseteq Request
    BY DEF FirstRequests, Request
  <2>3. [r EXCEPT !.at = "stores", !.background = NonBlocking,
                  !.pending = @ \cup FirstRequests(r.batch),
                  !.result = IF r.batch THEN None ELSE @] \in Call
    BY <1>1, <2>2, CacheableAssumption DEF Call, Step
  <2> QED  BY <2>1, <2>3
<1>4. s.op = r.op /\ s.must = r.must /\ s.tag = r.tag /\ s.take = r.take
      /\ s.batch = r.batch /\ s.seen = r.seen
     
      /\ s.pending = (IF r.seen = version THEN r.pending ELSE r.pending \cup FirstRequests(r.batch))
      /\ s.at = (IF r.seen = version THEN "returned" ELSE "stores")
  BY <1>1 DEF Call
<1> HIDE DEF s
<1>5. tagged = "yes" /\ Stages(r) => Stages(call[c])'
  BY <1>1, <1>2, <1>4, CallFields, NoneAssumption
     DEF Stages, Calm, SnapshotTells, NoCopies, PrimaryGoes, SecondaryGoes,
         MissInv, Looks, FirstRequests
<1>6. tagged = "soon" /\ Tagging(r) => Tagging(call[c])'
  BY <1>1, <1>2, <1>4, CallFields DEF Tagging, Calm, TypeOK
<1>7. Looks(r) => Looks(call[c])'
  BY <1>1, <1>2, <1>4, CallFields
     DEF Looks, Calm, MissInv, Stages, SnapshotTells, TypeOK, FirstRequests
<1> QED  BY <1>1, <1>2, <1>3, <1>5, <1>6, <1>7, CalmStep

\* A batch turns to the secondary store.
LEMMA MissIssueSecondary ==
    ASSUME TypeOK, MissInv, OneCall, NEW c \in Calls, IssueSecondary(c)
    PROVE  MissInv'
<1> DEFINE r == call[c]
           s == [r EXCEPT !.at = "second", !.pending = @ \cup {"secondary"}]
<1>1. r \in Call /\ Active(c) /\ r.at = "stores" /\ r.batch /\ "primary" \notin r.pending /\ Calm
  BY ActiveCall DEF IssueSecondary, Calm
<1>2. call'[c] = s
  BY <1>1 DEF IssueSecondary, TypeOK
<1>3. s \in Call
  BY <1>1, CallFields DEF Call, Step, Request, TypeOK, FirstRequests
<1>4. s.op = r.op /\ s.must = r.must /\ s.tag = r.tag /\ s.take = r.take
      /\ s.batch = r.batch /\ s.pending = r.pending \cup {"secondary"}
      /\ s.at = "second" /\ s.result = r.result
  BY <1>1 DEF Call
<1> HIDE DEF s
<1>5. tagged = "yes" /\ Stages(r) => Stages(call[c])'
  BY <1>1, <1>2, <1>4, CallFields, NoneAssumption
     DEF Stages, Calm, SnapshotTells, NoCopies, PrimaryGoes, SecondaryGoes,
         MissInv, Looks
<1>6. tagged = "soon" /\ Tagging(r) => Tagging(call[c])'
  BY <1>1, <1>2, <1>4, CallFields DEF Tagging, Calm, TypeOK
<1>7. Looks(r) => Looks(call[c])'
  BY <1>1, <1>2, <1>4, CallFields
     DEF Looks, Calm, MissInv, Stages, SnapshotTells, TypeOK
<1> QED  BY <1>1, <1>2, <1>3, <1>5, <1>6, <1>7, CalmStep

\* The stores have answered: the snapshot is written or removed.
LEMMA MissAfterStores ==
    ASSUME TypeOK, MissInv, OneCall, NEW c \in Calls, AfterStores(c)
    PROVE  MissInv'
<1> DEFINE r == call[c]
           s == IF TagsEnabled /\ r.op # "clear"
                THEN [r EXCEPT !.at = "tags",
                               !.pending = @ \cup
                                   {IF r.op = "set" /\ r.tag THEN "version" ELSE "snapshot"}]
                ELSE [r EXCEPT !.at = "returned"]
<1>1. r \in Call /\ Active(c) /\ StoresSettled(r) /\ Calm
  BY ActiveCall DEF AfterStores, Calm, StoresSettled
<1>2. call'[c] = s
  BY <1>1 DEF AfterStores, TypeOK
<1>3. s \in Call
  <2>1. [r EXCEPT !.at = "returned"] \in Call
    BY <1>1 DEF Call, Step
  <2>2. ASSUME NEW q \in {"version", "snapshot"}
        PROVE  [r EXCEPT !.at = "tags", !.pending = @ \cup {q}] \in Call
    BY <1>1 DEF Call, Step, Request
  <2>3. (IF r.op = "set" /\ r.tag THEN "version" ELSE "snapshot") \in {"version", "snapshot"}
    OBVIOUS
  <2> QED  BY <2>1, <2>2, <2>3
<1>4. s.op = r.op /\ s.must = r.must /\ s.tag = r.tag /\ s.take = r.take
      /\ s.pending = (IF TagsEnabled /\ r.op # "clear"
                       THEN r.pending \cup {IF r.op = "set" /\ r.tag THEN "version" ELSE "snapshot"}
                       ELSE r.pending)
      /\ s.at = (IF TagsEnabled /\ r.op # "clear" THEN "tags" ELSE "returned")
      /\ s.result = r.result
  BY <1>1 DEF Call
<1> HIDE DEF s
<1>5. tagged = "yes" /\ Stages(r) => Stages(call[c])'
  BY <1>1, <1>2, <1>4, CallFields, NoneAssumption
     DEF Stages, Calm, SnapshotTells, NoCopies, PrimaryGoes, SecondaryGoes,
         MissInv, Looks, StoresSettled
<1>6. tagged = "soon" /\ Tagging(r) => Tagging(call[c])'
  BY <1>1, <1>2, <1>4, CallFields
     DEF Tagging, Calm, TypeOK, StoresSettled, MissInv
<1>7. Looks(r) => Looks(call[c])'
  BY <1>1, <1>2, <1>4, CallFields
     DEF Looks, Calm, MissInv, Stages, SnapshotTells, TypeOK, StoresSettled
<1> QED  BY <1>1, <1>2, <1>3, <1>5, <1>6, <1>7, CalmStep

\* A get that deleted the stale key returns nothing.
LEMMA MissAfterTags ==
    ASSUME TypeOK, MissInv, OneCall, NEW c \in Calls, AfterTags(c)
    PROVE  MissInv'
<1> DEFINE r == call[c]
           s == [r EXCEPT !.at = "returned", !.result = IF r.op = "get" THEN None ELSE @]
<1>1. r \in Call /\ Active(c) /\ r.at = "tags" /\ Calm
  BY ActiveCall DEF AfterTags, Calm
<1>2. call'[c] = s
  BY <1>1 DEF AfterTags, TypeOK
<1>3. s \in Call
  BY <1>1 DEF Call, Step
<1>4. s.op = r.op /\ s.must = r.must /\ s.tag = r.tag /\ s.take = r.take
      /\ s.pending = r.pending /\ s.seen = r.seen
      /\ s.at = "returned" /\ (r.op = "get" => s.result = None)
  BY <1>1 DEF Call
<1> HIDE DEF s
<1>5. tagged = "yes" /\ Stages(r) => Stages(call[c])'
  BY <1>1, <1>2, <1>4, CallFields, NoneAssumption
     DEF Stages, Calm, SnapshotTells, NoCopies, PrimaryGoes, SecondaryGoes,
         MissInv, Looks
<1>6. tagged = "soon" /\ Tagging(r) => Tagging(call[c])'
  BY <1>1, <1>2, <1>4, CallFields DEF Tagging, Calm, TypeOK
<1>7. Looks(r) => Looks(call[c])'
  BY <1>1, <1>2, <1>4, CallFields
     DEF Looks, Calm, MissInv, Stages, SnapshotTells, TypeOK
<1> QED  BY <1>1, <1>2, <1>3, <1>5, <1>6, <1>7, CalmStep

\* A tagged set reads the counter.
LEMMA MissReadVersion ==
    ASSUME TypeOK, MissInv, OneCall, NEW c \in Calls, ReadVersion(c)
    PROVE  MissInv'
<1> DEFINE r == call[c]
           s == [r EXCEPT !.seen = version,
                          !.pending = (@ \ {"version"}) \cup {"snapshot"}]
<1>1. r \in Call /\ Active(c) /\ "version" \in r.pending /\ Calm
  BY ActiveCall DEF ReadVersion, Calm
<1>2. call'[c] = s
  BY <1>1 DEF ReadVersion, TypeOK
<1>3. s \in Call
  <2>1. version \in Int /\ (r.pending \ {"version"}) \cup {"snapshot"} \in SUBSET Request
    BY <1>1, CallFields DEF TypeOK, Request
  <2> QED  BY <1>1, <2>1 DEF Call
<1>4. s.op = r.op /\ s.must = r.must /\ s.tag = r.tag /\ s.take = r.take
      /\ s.pending = (r.pending \ {"version"}) \cup {"snapshot"}
      /\ s.at = r.at /\ s.result = r.result /\ s.seen = version
      /\ s.background = r.background
  BY <1>1 DEF Call
<1> HIDE DEF s
<1>5. tagged = "yes" /\ Stages(r) => Stages(call[c])'
  BY <1>1, <1>2, <1>4, CallFields, NoneAssumption
     DEF Stages, Calm, SnapshotTells, NoCopies, PrimaryGoes, SecondaryGoes,
         MissInv, Looks
<1>6. tagged = "soon" /\ Tagging(r) => Tagging(call[c])'
  BY <1>1, <1>2, <1>4, CallFields DEF Tagging, Calm, TypeOK
<1>7. Looks(r) => Looks(call[c])'
  BY <1>1, <1>2, <1>4, CallFields
     DEF Looks, Calm, MissInv, Stages, SnapshotTells, TypeOK
<1> QED  BY <1>1, <1>2, <1>3, <1>5, <1>6, <1>7, CalmStep

-----------------------------------------------------------------------------
(* Requests land                                                           *)

\* A request of the call lands: as CalmStep, but the stores may change.
LEMMA LandingStep ==
    ASSUME TypeOK, MissInv, OneCall, NEW c \in Calls, Active(c),
           UNCHANGED <<tagged, invalid>>, call'[c] \in Call,
           tagged = "yes" /\ Stages(call[c]) => Stages(call[c])',
           tagged = "soon" /\ Tagging(call[c]) => Tagging(call[c])',
           Looks(call[c]) => Looks(call[c])'
    PROVE  MissInv'
<1>1. Active(c)'
  BY NoneAssumption DEF Active
<1>2. /\ tagged = "yes" => Stages(call[c])
      /\ tagged = "soon" => Tagging(call[c])
      /\ Looks(call[c])
      /\ (tagged # "no" => TagsEnabled) /\ (invalid => tagged = "yes")
  BY DEF MissInv
<1> QED  BY <1>1, <1>2, Enough

\* A get's delete of the primary copy leaves none, if there is one instance.
LEMMA MissLandPrimary ==
    ASSUME TypeOK, MissInv, OneCall, OneInstance, NEW c \in Calls, LandPrimary(c)
    PROVE  MissInv'
<1> DEFINE r == call[c]
           s == [r EXCEPT !.pending = @ \ {"primary"}]
<1>1. /\ r \in Call /\ Active(c) /\ "primary" \in r.pending
      /\ UNCHANGED <<secondary, snapshot, version, tagged, invalid>>
  BY ActiveCall DEF LandPrimary
<1>2. call'[c] = s
  BY <1>1 DEF LandPrimary, TypeOK
<1>3. s \in Call
  BY <1>1 DEF Call
<1>4. /\ s.op = r.op /\ s.must = r.must /\ s.tag = r.tag /\ s.take = r.take
      /\ s.background = r.background /\ s.batch = r.batch /\ s.at = r.at
      /\ s.pending = r.pending \ {"primary"} /\ s.result = r.result
      /\ s.seen = r.seen
  BY <1>1 DEF Call
<1>5. r.op = "get" => \A i \in Instances : primary'[i] = None
  BY <1>1, CallFields DEF LandPrimary, OneInstance, TypeOK, Writes
<1> HIDE DEF s
<1>6. tagged = "yes" /\ Stages(r) => Stages(call[c])'
  BY <1>1, <1>2, <1>4, <1>5 DEF Stages, SnapshotTells, PrimaryGoes, SecondaryGoes
<1>7. tagged = "soon" /\ Tagging(r) => Tagging(call[c])'
  BY <1>1, <1>2, <1>4 DEF Tagging
<1>8. Looks(r) => Looks(call[c])'
  BY <1>1, <1>2, <1>4 DEF Looks
<1> QED  BY <1>1, <1>2, <1>3, <1>6, <1>7, <1>8, LandingStep

\* A get's delete of the secondary copy leaves none.
LEMMA MissLandSecondary ==
    ASSUME TypeOK, MissInv, OneCall, NEW c \in Calls, LandSecondary(c)
    PROVE  MissInv'
<1> DEFINE r == call[c]
           s == [r EXCEPT !.pending = @ \ {"secondary"}]
<1>1. /\ r \in Call /\ Active(c) /\ "secondary" \in r.pending
      /\ UNCHANGED <<primary, tagged, invalid>>
      /\ r.op # "clear" => UNCHANGED <<snapshot, version>>
      /\ r.op = "get" => secondary' = None
  BY ActiveCall DEF LandSecondary, Writes
<1>2. call'[c] = s
  BY <1>1 DEF LandSecondary, TypeOK
<1>3. s \in Call
  BY <1>1 DEF Call
<1>4. /\ s.op = r.op /\ s.must = r.must /\ s.tag = r.tag /\ s.take = r.take
      /\ s.background = r.background /\ s.batch = r.batch /\ s.at = r.at
      /\ s.pending = r.pending \ {"secondary"} /\ s.result = r.result
      /\ s.seen = r.seen
  BY <1>1 DEF Call
<1> HIDE DEF s
<1>5. tagged = "yes" /\ Stages(r) => Stages(call[c])'
  BY <1>1, <1>2, <1>4 DEF Stages, SnapshotTells, PrimaryGoes, SecondaryGoes
<1>6. tagged = "soon" /\ Tagging(r) => Tagging(call[c])'
  BY <1>1, <1>2, <1>4 DEF Tagging
<1>7. Looks(r) => Looks(call[c])'
  BY <1>1, <1>2, <1>4 DEF Looks
<1> QED  BY <1>1, <1>2, <1>3, <1>5, <1>6, <1>7, LandingStep

\* A back-fill lands before the tag check, the snapshot still telling.
LEMMA MissLandBackfill ==
    ASSUME TypeOK, MissInv, OneCall, NEW c \in Calls, LandBackfill(c)
    PROVE  MissInv'
<1> DEFINE r == call[c]
           t == [r EXCEPT !.pending = @ \ {"backfill"}]
           s == IF Active(c) /\ "primary" \notin r.pending /\ Writes(r) # r.value
                THEN [t EXCEPT !.clean = FALSE] ELSE t
<1>1. /\ r \in Call /\ Active(c) /\ "backfill" \in r.pending
      /\ UNCHANGED <<secondary, snapshot, version, tagged, invalid>>
  BY ActiveCall DEF LandBackfill
<1>2. call'[c] = s
  BY <1>1 DEF LandBackfill, TypeOK
<1>3. s \in Call
  <2>1. t \in Call
    BY <1>1 DEF Call
  <2> HIDE DEF t
  <2> QED  BY <2>1 DEF Call
<1>4. /\ s.op = r.op /\ s.must = r.must /\ s.tag = r.tag /\ s.take = r.take
      /\ s.background = r.background /\ s.batch = r.batch /\ s.at = r.at
      /\ s.pending = r.pending \ {"backfill"} /\ s.result = r.result
      /\ s.seen = r.seen
  BY <1>1 DEF Call
<1> HIDE DEF s
<1>5. tagged = "yes" /\ Stages(r) => Stages(call[c])'
  BY <1>1, <1>2, <1>4, CallFields DEF Stages, SnapshotTells, Step
<1>6. tagged = "soon" /\ Tagging(r) => Tagging(call[c])'
  BY <1>1, <1>2, <1>4 DEF Tagging
<1>7. Looks(r) => Looks(call[c])'
  BY <1>1, <1>2, <1>4 DEF Looks
<1> QED  BY <1>1, <1>2, <1>3, <1>5, <1>6, <1>7, LandingStep

\* The snapshot is removed when the copies are gone, or written by a set.
LEMMA MissLandSnapshot ==
    ASSUME TypeOK, MissInv, OneCall, NEW c \in Calls, LandSnapshot(c)
    PROVE  MissInv'
<1> DEFINE r == call[c]
           s == [r EXCEPT !.pending = @ \ {"snapshot"}]
<1>1. /\ r \in Call /\ Active(c) /\ "snapshot" \in r.pending
      /\ UNCHANGED <<primary, secondary, version, tagged, invalid>>
      /\ r.op = "set" /\ r.tag => snapshot' = r.seen
  BY ActiveCall DEF LandSnapshot
<1>2. call'[c] = s
  BY <1>1 DEF LandSnapshot, TypeOK
<1>3. s \in Call
  BY <1>1 DEF Call
<1>4. /\ s.op = r.op /\ s.must = r.must /\ s.tag = r.tag /\ s.take = r.take
      /\ s.background = r.background /\ s.batch = r.batch /\ s.at = r.at
      /\ s.pending = r.pending \ {"snapshot"} /\ s.result = r.result
      /\ s.seen = r.seen
  BY <1>1 DEF Call
<1> HIDE DEF s
<1>5. tagged = "yes" /\ Stages(r) => Stages(call[c])'
  BY <1>1, <1>2, <1>4, CallFields DEF Stages, Step, PrimaryGoes, SecondaryGoes
<1>6. tagged = "soon" /\ Tagging(r) => Tagging(call[c])'
  BY <1>1, <1>2, <1>4 DEF Tagging
<1>7. Looks(r) => Looks(call[c])'
  BY <1>1, <1>2, <1>4 DEF Looks
<1> QED  BY <1>1, <1>2, <1>3, <1>5, <1>6, <1>7, LandingStep

-----------------------------------------------------------------------------
(* Calls begin and end                                                     *)

\* A get begins, owing a miss if the value is invalidated.
LEMMA MissGet ==
    ASSUME TypeOK, MissInv, OneCall, GetsWait, NEW c \in Calls,
           NEW i \in Instances, NEW batch \in BOOLEAN, NEW take \in BOOLEAN,
           NEW b \in Overrides, Get(c, i, batch, take, b)
    PROVE  MissInv'
<1> DEFINE r == Blank(i)
           s == [r EXCEPT !.batch = batch, !.take = take, !.background = b,
                          !.at = "getPrimary", !.must = invalid]
<1>1. r \in Call /\ b \in BOOLEAN /\ invalid \in BOOLEAN /\ b # TRUE
  BY BlankType, CacheableAssumption DEF TypeOK, GetsWait
<1>2. /\ ~Active(c) /\ call'[c] = s
      /\ UNCHANGED <<primary, secondary, snapshot, version, invalid>>
      /\ tagged' = (IF tagged = "soon" THEN "no" ELSE tagged)
  BY DEF Get, TypeOK
<1>3. r.op = "get" /\ r.pending = {} /\ r.result = None
  BY DEF Blank
<1> HIDE DEF r
<1>4. /\ s \in Call /\ s.op = "get" /\ s.pending = {} /\ s.at = "getPrimary"
      /\ s.must = invalid /\ ~s.background
  <2>1. s \in Call
    BY <1>1 DEF Call, Step
  <2>2. s.op = r.op /\ s.pending = r.pending /\ s.at = "getPrimary" /\ s.must = invalid
    BY <1>1 DEF Call
  <2>3. s.background = b
    BY <1>1 DEF Call
  <2> HIDE DEF s
  <2> QED  BY <1>1, <1>3, <2>1, <2>2, <2>3
<1> HIDE DEF s
<1>5. Active(c)' /\ Idle
  BY <1>2, <1>4, NoneAssumption DEF Active, OneCall, Idle
<1>6. tagged = "yes" => SnapshotTells \/ NoCopies
  BY <1>5 DEF MissInv
<1>7. tagged' = "yes" => Stages(call[c])'
  BY <1>2, <1>4, <1>6 DEF Stages, SnapshotTells, NoCopies
<1>8. tagged' # "soon" /\ Looks(call[c])'
  BY <1>2, <1>4 DEF Looks
<1>9. (tagged # "no" => TagsEnabled) /\ (invalid => tagged = "yes")
  BY DEF MissInv
<1> QED  BY <1>2, <1>5, <1>7, <1>8, <1>9, Enough

\* A write begins: only a tagged set of an idle key starts the history over.
LEMMA MissWrite ==
    ASSUME TypeOK, OneCall, NEW c \in Calls, NEW r \in Call, Write(c, r),
           r.op # "get",
           r.tag /\ Idle => TagsEnabled /\ r.op = "set" /\ ~r.take /\ r.at = "stores"
    PROVE  MissInv'
<1> DEFINE e == ~SetInFlight
           s == [r EXCEPT !.clean = e]
<1>1. /\ call'[c] = s /\ ~invalid'
      /\ tagged' = (IF r.tag /\ Idle THEN "soon" ELSE "no")
  BY DEF Write, TypeOK
<1>2. e \in BOOLEAN
  BY DEF SetInFlight
<1> HIDE DEF e
<1>3. s \in Call /\ s.op = r.op /\ s.tag = r.tag /\ s.take = r.take /\ s.at = r.at
  BY <1>2 DEF Call
<1> HIDE DEF s
<1>4. Active(c)'
  BY <1>1, <1>3, NoneAssumption DEF Active
<1>5. tagged' = "soon" => Tagging(call[c])'
  BY <1>1, <1>3 DEF Tagging
<1>6. Looks(call[c])'
  BY <1>1, <1>3 DEF Looks
<1> QED  BY <1>1, <1>4, <1>5, <1>6, Enough

\* A set begins.
LEMMA MissSet ==
    ASSUME TypeOK, OneCall, NEW c \in Calls, NEW i \in Instances,
           NEW v \in Values, NEW tag \in BOOLEAN, NEW batch \in BOOLEAN,
           NEW b \in Overrides, Set(c, i, v, tag, batch, b)
    PROVE  MissInv'
<1> DEFINE z == Blank(i)  t == tag /\ TagsEnabled
           r == [z EXCEPT !.op = "set", !.value = v, !.tag = t,
                          !.batch = batch, !.background = b, !.at = "stores",
                          !.pending = FirstRequests(batch)]
<1>1. Write(c, r)
  BY DEF Set
<1>2. z \in Call /\ b \in BOOLEAN /\ t \in BOOLEAN /\ (t => TagsEnabled)
  BY BlankType, CacheableAssumption
<1>3. FirstRequests(batch) \subseteq Request
  BY DEF FirstRequests, Request
<1>4. ~z.take
  BY DEF Blank
<1> HIDE DEF z, t
<1>5. r \in Call /\ r.op = "set" /\ r.tag = t /\ ~r.take /\ r.at = "stores"
  <2>1. r \in Call
    BY <1>2, <1>3 DEF Call, Step
  <2>2. r.op = "set" /\ r.take = z.take /\ r.at = "stores"
    BY <1>2 DEF Call
  <2>3. r.tag = t
    BY <1>2 DEF Call
  <2> HIDE DEF r
  <2> QED  BY <1>4, <2>1, <2>2, <2>3
<1> HIDE DEF r
<1> QED  BY <1>1, <1>2, <1>5, MissWrite

\* A delete or a clear begins.
LEMMA MissDelete ==
    ASSUME TypeOK, OneCall, NEW c \in Calls, NEW i \in Instances,
           NEW batch \in BOOLEAN, Delete(c, i, batch) \/ Clear(c, i)
    PROVE  MissInv'
<1> DEFINE z == Blank(i)
<1>1. z \in Call /\ ~z.tag
  BY BlankType DEF Blank
<1>2. FirstRequests(batch) \subseteq Request
  BY DEF FirstRequests, Request
<1>3. CASE Delete(c, i, batch)
  <2> DEFINE r == [z EXCEPT !.op = "delete", !.batch = batch, !.at = "stores",
                            !.pending = FirstRequests(batch)]
  <2>1. Write(c, r)
    BY <1>3 DEF Delete
  <2> HIDE DEF z
  <2>2. r \in Call /\ r.op = "delete" /\ ~r.tag
    BY <1>1, <1>2 DEF Call, Step
  <2> HIDE DEF r
  <2> QED  BY <2>1, <2>2, MissWrite
<1>4. CASE Clear(c, i)
  <2> DEFINE r == [z EXCEPT !.op = "clear", !.at = "stores",
                            !.pending = {"primary", "secondary"}]
  <2>1. Write(c, r)
    BY <1>4 DEF Clear
  <2> HIDE DEF z
  <2>2. r \in Call /\ r.op = "clear" /\ ~r.tag
    BY <1>1 DEF Call, Step, Request
  <2> HIDE DEF r
  <2> QED  BY <2>1, <2>2, MissWrite
<1> QED  BY <1>3, <1>4

\* The delete of a take begins.
LEMMA MissTakeDelete ==
    ASSUME TypeOK, OneCall, NEW c \in Calls, TakeDelete(c)
    PROVE  MissInv'
<1> DEFINE r == [call[c] EXCEPT !.op = "delete", !.take = FALSE, !.at = "stores",
                                !.background = NonBlocking,
                                !.pending = @ \cup FirstRequests(call[c].batch)]
<1>1. call[c] \in Call /\ ~Idle /\ Write(c, r)
  BY ActiveCall DEF TakeDelete, Idle
<1>2. FirstRequests(call[c].batch) \subseteq Request
  BY DEF FirstRequests, Request
<1>3. r \in Call /\ r.op = "delete"
  BY <1>1, <1>2, CacheableAssumption DEF Call, Step
<1> HIDE DEF r
<1> QED  BY <1>1, <1>3, MissWrite

\* A call ends: the next get finds a telling snapshot, or no copy.
LEMMA MissFinish ==
    ASSUME TypeOK, MissInv, OneCall, NEW c \in Calls, Finish(c)
    PROVE  MissInv'
<1>1. /\ Active(c) /\ call[c].at = "returned" /\ call[c].pending = {}
      /\ UNCHANGED <<primary, secondary, snapshot, version, invalid>>
      /\ tagged' \in {"no", "yes"}
      /\ tagged' = "yes" => tagged \in {"yes", "soon"}
      /\ tagged # "soon" => tagged' = tagged
  BY DEF Finish, TypeOK
<1>2. ~Active(c)'
  BY DEF Finish, TypeOK, Active
<1>3. tagged = "yes" => SnapshotTells \/ NoCopies
  <2>1. tagged = "yes" => Stages(call[c])
    BY <1>1 DEF MissInv
  <2> QED  BY <1>1, <2>1 DEF Stages, NoCopies, PrimaryGoes, SecondaryGoes
<1>4. tagged = "soon" => SnapshotTells
  <2>1. tagged = "soon" => Tagging(call[c]) /\ ~invalid
    BY <1>1 DEF MissInv
  <2> QED  BY <1>1, <2>1 DEF Tagging, SnapshotTells
<1>5. tagged' = "yes" => (SnapshotTells \/ NoCopies)'
  BY <1>1, <1>3, <1>4 DEF SnapshotTells, NoCopies
<1>6. (tagged # "no" => TagsEnabled) /\ (invalid => tagged = "yes")
  BY DEF MissInv
<1>7. (tagged' # "no" => TagsEnabled) /\ (invalid' => tagged' = "yes")
  BY <1>1, <1>6
<1> QED  BY <1>1, <1>2, <1>5, <1>7, Enough

-----------------------------------------------------------------------------
(* The tag service and the stores                                          *)

\* Steps that leave the call alone.
LEMMA MissAround ==
    ASSUME TypeOK, MissInv, UNCHANGED <<call, tagged>>,
           invalid' => tagged = "yes", invalid => invalid',
           tagged = "yes" /\ Idle /\ (SnapshotTells \/ NoCopies)
               => (SnapshotTells \/ NoCopies)',
           \A c \in Calls : Active(c) => 
               /\ tagged = "yes" /\ Stages(call[c]) => Stages(call[c])'
               /\ tagged = "soon" /\ Tagging(call[c]) => Tagging(call[c])'
    PROVE  MissInv'
<1>1. Idle' = Idle /\ \A c \in Calls : Active(c)' = Active(c)
  BY DEF Idle, Active
<1>2. \A c \in Calls : Looks(call[c]) => Looks(call[c])'
  BY DEF Looks
<1> QED  BY <1>1, <1>2 DEF MissInv

\* Invalidation leaves the snapshot behind the counter.
LEMMA MissInvalidateTag ==
    ASSUME TypeOK, MissInv, InvalidateTag
    PROVE  MissInv'
<1>1. /\ version' = version + 1 /\ invalid' = (invalid \/ tagged = "yes")
      /\ UNCHANGED <<primary, secondary, snapshot, call, tagged>>
  BY DEF InvalidateTag
<1>2. snapshot \in Int /\ version \in Nat /\ (invalid => tagged = "yes")
  BY DEF TypeOK, MissInv
<1>3. SnapshotTells => SnapshotTells'
  BY <1>1, <1>2 DEF SnapshotTells
<1>4. NoCopies => NoCopies'
  BY <1>1 DEF NoCopies
<1>5. ASSUME NEW c \in Calls, Active(c)
      PROVE  /\ tagged = "yes" /\ Stages(call[c]) => Stages(call[c])'
             /\ tagged = "soon" /\ Tagging(call[c]) => Tagging(call[c])'
  <2>1. call[c].seen \in Int
    BY <1>5, ActiveCall, CallFields
  <2>2. PrimaryGoes(call[c]) <=> PrimaryGoes(call[c])'
    BY <1>1 DEF PrimaryGoes
  <2>3. SecondaryGoes(call[c]) <=> SecondaryGoes(call[c])'
    BY <1>1 DEF SecondaryGoes
  <2>4. Stages(call[c]) => Stages(call[c])'
    <3>1. call[c].at = "checkVersion" /\ call[c].must /\ call[c].seen < version
            => call[c].seen < version'
      BY <1>1, <1>2, <2>1
    <3> QED  BY <1>1, <1>3, <1>4, <2>2, <2>3, <3>1 DEF Stages
  <2>5. Tagging(call[c]) => Tagging(call[c])'
    <3>1. \A n \in Int : n \in 0 .. version => n \in 0 .. version'
      BY <1>1, <1>2
    <3> QED  BY <1>1, <1>2, <2>1, <3>1 DEF Tagging
  <2> QED  BY <2>4, <2>5
<1> QED  BY <1>1, <1>2, <1>3, <1>4, <1>5, MissAround

\* A value is lost from a store.
LEMMA MissLoss ==
    ASSUME TypeOK, MissInv, UNCHANGED <<call, tagged, invalid, snapshot, version>>,
           secondary' \in {secondary, None},
           \A i \in Instances : primary'[i] \in {primary[i], None}
    PROVE  MissInv'
<1>1. (SnapshotTells => SnapshotTells') /\ (NoCopies => NoCopies')
  BY DEF SnapshotTells, NoCopies
<1>2. ASSUME NEW c \in Calls
      PROVE  /\ PrimaryGoes(call[c]) => PrimaryGoes(call[c])'
             /\ SecondaryGoes(call[c]) => SecondaryGoes(call[c])'
  BY DEF PrimaryGoes, SecondaryGoes
<1>3. ASSUME NEW c \in Calls
      PROVE  /\ Stages(call[c]) => Stages(call[c])'
             /\ Tagging(call[c]) => Tagging(call[c])'
  BY <1>1, <1>2 DEF Stages, Tagging
<1>4. invalid => tagged = "yes"
  BY DEF MissInv
<1> QED  BY <1>1, <1>3, <1>4, MissAround

\* The snapshot goes with the last copy.
LEMMA MissLoseSnapshot ==
    ASSUME TypeOK, MissInv, LoseSnapshot
    PROVE  MissInv'
<1>1. Idle /\ NoCopies' /\ UNCHANGED <<call, tagged, invalid>>
  BY DEF LoseSnapshot, NoCopies
<1>2. invalid => tagged = "yes"
  BY DEF MissInv
<1> QED  BY <1>1, <1>2, MissAround DEF Idle

-----------------------------------------------------------------------------
\* Every step keeps the invariant.
LEMMA MissStep ==
    ASSUME OneCall, OneInstance, ~MayReject, GetsWait, TypeOK, MissInv, Next
    PROVE  MissInv'
<1>1. ASSUME NEW c \in Calls, Begin(c) PROVE MissInv'
  <2>1. PICK i \in Instances, batch \in BOOLEAN :
            \/ \E take \in BOOLEAN, b \in Overrides : Get(c, i, batch, take, b)
            \/ \E v \in Values, tag \in BOOLEAN, b \in Overrides :
                   Set(c, i, v, tag, batch, b)
            \/ Delete(c, i, batch) \/ Clear(c, i)
    BY <1>1 DEF Begin
  <2>2. CASE \E take \in BOOLEAN, b \in Overrides : Get(c, i, batch, take, b)
    BY <2>2, MissGet
  <2>3. CASE \E v \in Values, tag \in BOOLEAN, b \in Overrides :
                 Set(c, i, v, tag, batch, b)
    BY <2>3, MissSet
  <2>4. CASE Delete(c, i, batch) \/ Clear(c, i)
    BY <2>4, MissDelete
  <2> QED  BY <2>1, <2>2, <2>3, <2>4
<1>2. ASSUME NEW c \in Calls, Run(c) PROVE MissInv'
  BY <1>2, MissTakeDelete, MissFinish, MissGetPrimary, MissGetSecondary,
     MissAfterBackfill, MissCheckSnapshot, MissCheckVersion,
     MissIssueSecondary, MissAfterStores, MissAfterTags DEF Run
<1>3. ASSUME NEW c \in Calls, Land(c) PROVE MissInv'
  <2>1. ~(\E q \in Request : Reject(c, q)) /\ ~RejectRead(c)
    BY DEF Reject, RejectRead
  <2> QED  BY <1>3, <2>1, MissLandPrimary, MissLandSecondary, MissLandBackfill,
              MissReadVersion, MissLandSnapshot DEF Land
<1>4. ASSUME NEW i \in Instances, LosePrimary(i) PROVE MissInv'
  <2>1. \A j \in Instances : primary'[j] \in {primary[j], None}
    BY <1>4 DEF LosePrimary, TypeOK
  <2> QED  BY <1>4, <2>1, MissLoss DEF LosePrimary
<1>5. CASE LoseSecondary
  BY <1>5, MissLoss DEF LoseSecondary
<1> QED  BY <1>1, <1>2, <1>3, <1>4, <1>5, MissInvalidateTag, MissLoseSnapshot
            DEF Next

\* So does a stuttering step.
LEMMA MissStutter ==
    ASSUME MissInv, UNCHANGED vars
    PROVE  MissInv'
BY DEF MissInv, vars, Idle, Active, SnapshotTells, NoCopies, Stages, Tagging,
       Looks, PrimaryGoes, SecondaryGoes

\* Nothing is stored at first.
LEMMA MissInit == Init => MissInv
BY DEF Init, MissInv, Idle, Active

\* A returned get that owed a miss carries no value.
LEMMA MissImplies == MissInv => InvalidatedMissed
BY DEF MissInv, InvalidatedMissed, Looks

\* With one instance, one call at a time, gets that wait for their back-fill
\* and stores that answer, a get that begins when the tag of the key's last
\* value has been invalidated returns nothing, for every number of values and
\* invalidations.
THEOREM InvalidatedAreMissed ==
    OneCall /\ OneInstance /\ GetsWait /\ ~MayReject => (Spec => []InvalidatedMissed)
<1> SUFFICES ASSUME OneCall, OneInstance, GetsWait, ~MayReject
             PROVE  Spec => []InvalidatedMissed
  OBVIOUS
<1>1. TypeOK /\ MissInv /\ [Next]_vars => MissInv'
  BY MissStep, MissStutter
<1> QED  BY <1>1, MissInit, MissImplies, Typing, PTL DEF Spec
=============================================================================
