------------------------ MODULE NodeCacheStoreProofs ------------------------
(***************************************************************************)
(* Proofs about NodeCacheStore, for every number of keys, values, callers   *)
(* and restarts: what the process tracks is what the store holds as long as *)
(* calls on one key are kept apart.                                         *)
(***************************************************************************)
EXTENDS NodeCacheStore, FiniteSetTheorems, TLAPS

\* What the fields of a call have to do with one another.
CallOK(j) ==
    /\ j.op = "clear" <=> j.key = None
    /\ j.op \in {"set", "setTtl"} => j.value # None

JobsOK ==
    /\ job \in [Actors -> Calls \cup {None}]
    /\ \A a \in Actors : job[a] # None => CallOK(job[a])

Typed == TypeOK /\ JobsOK

-----------------------------------------------------------------------------

LEMMA CallType ==
    ASSUME JobsOK, NEW a \in Actors, job[a] # None
    PROVE  /\ job[a] \in Calls
           /\ job[a].op # "clear" => job[a].key \in Keys
           /\ job[a].op \in {"set", "setTtl"} => job[a].value \in Values
<1>1. job[a] \in Calls /\ CallOK(job[a])
    BY DEF JobsOK
<1>. QED BY <1>1 DEF Calls, CallOK

LEMMA IssueType ==
    ASSUME JobsOK, NEW a \in Actors, NEW op \in Ops, NEW k \in Keys \cup {None},
           NEW v \in Values \cup {None}, NEW t \in Lifetimes,
           NEW known \in BOOLEAN, Issue(a, op, k, v, t, known),
           op = "clear" <=> k = None, op \in {"set", "setTtl"} => v # None
    PROVE  JobsOK'
<1>1. [op |-> op, key |-> k, value |-> v, lifetime |-> t, known |-> known,
       landed |-> FALSE] \in Calls
    BY DEF Calls
<1>2. \A b \in Actors : b # a => job'[b] = job[b]
    BY DEF Issue, JobsOK
<1>3. job'[a] = [op |-> op, key |-> k, value |-> v, lifetime |-> t,
                 known |-> known, landed |-> FALSE]
    BY DEF Issue, JobsOK
<1>4. job' \in [Actors -> Calls \cup {None}]
    BY <1>1 DEF Issue, JobsOK
<1>5. CallOK(job'[a])
    BY <1>3 DEF CallOK
<1>. QED BY <1>2, <1>4, <1>5 DEF JobsOK

LEMMA ReturnType ==
    ASSUME JobsOK, NEW a \in Actors, Return(a)
    PROVE  JobsOK'
BY DEF JobsOK, Return

LEMMA AnswerType ==
    ASSUME JobsOK, NEW a \in Actors, job[a] # None,
           NEW v \in Values \cup {None}, NEW known \in BOOLEAN,
           job[a].op \in {"set", "setTtl"} => v # None, Answer(a, v, known)
    PROVE  /\ JobsOK'
           /\ job'[a] # None
           /\ job'[a].op = job[a].op /\ job'[a].key = job[a].key
           /\ job'[a].lifetime = job[a].lifetime
           /\ job'[a].value = v /\ job'[a].known = known /\ job'[a].landed
           /\ \A b \in Actors \ {a} : job'[b] = job[b]
<1>. DEFINE j == [job[a] EXCEPT !.value = v, !.known = known, !.landed = TRUE]
<1>1. job[a] \in Calls /\ CallOK(job[a]) /\ job \in [Actors -> Calls \cup {None}]
    BY DEF JobsOK
<1>2. /\ j \in Calls
      /\ j.op = job[a].op /\ j.key = job[a].key /\ j.value = v
      /\ j.lifetime = job[a].lifetime /\ j.known = known /\ j.landed
    BY <1>1 DEF Calls
<1>3. CallOK(j)
    BY <1>1, <1>2 DEF CallOK
<1>4. job' = [job EXCEPT ![a] = j]
    BY <1>1 DEF Answer
<1>5. j # None
    BY <1>2, NoneIsNoEntry
<1>. HIDE DEF j
<1>6. job'[a] = j /\ \A b \in Actors \ {a} : job'[b] = job[b]
    BY <1>1, <1>4
<1>7. job' \in [Actors -> Calls \cup {None}]
    BY <1>1, <1>2, <1>4
<1>. QED BY <1>1, <1>2, <1>3, <1>5, <1>6, <1>7 DEF JobsOK

LEMMA DeadlineType ==
    ASSUME now \in Nat, NEW t \in Lifetimes
    PROVE  Deadline(t) \in Nat
BY NodeCacheStoreAssumption DEF Deadline, Never

LEMMA LessType ==
    ASSUME NEW n \in Nat
    PROVE  Less(n) \in Nat
BY DEF Less

LEMMA TypedInit == Init => Typed
<1>. SUFFICES ASSUME Init PROVE Typed
    OBVIOUS
<1>1. JobsOK
    BY DEF Init, JobsOK
<1>2. restarts \in 0..MaxRestarts /\ now \in Nat /\ count \in Nat
    BY NodeCacheStoreAssumption DEF Init
<1>3. handed \in [Keys -> 0..2]
    BY DEF Init
<1>. QED BY <1>1, <1>2, <1>3 DEF Init, Typed, TypeOK, JobsOK

LEMMA TypedPut ==
    ASSUME Typed, NEW a \in Actors, NEW ops \in SUBSET {"set", "setTtl"},
           NEW counts \in 0..2, Put(a, ops, counts)
    PROVE  Typed'
<1>1. PICK op \in ops : Put(a, {op}, counts)
    BY DEF Put
<1>2. job[a] # None /\ job[a].op \in {"set", "setTtl"}
    BY <1>1 DEF Put, Waiting
<1>3. /\ job[a] \in Calls /\ job[a].key \in Keys /\ job[a].value \in Values
    BY <1>2, CallType DEF Typed
<1>4. job[a].known \in BOOLEAN /\ job[a].lifetime \in Lifetimes
    BY <1>3 DEF Calls
<1>5. Deadline(job[a].lifetime) \in Nat
    BY <1>4, DeadlineType DEF Typed, TypeOK
<1>6. [value |-> job[a].value, deadline |-> Deadline(job[a].lifetime)] \in Entries
    BY <1>3, <1>5 DEF Entries
<1>7. JobsOK'
    <2>1. Answer(a, job[a].value, job[a].known)
        BY <1>1 DEF Put
    <2>2. job[a].value # None
        BY <1>3, NodeCacheStoreAssumption
    <2>. QED BY <1>2, <1>3, <1>4, <2>1, <2>2, AnswerType DEF Typed
<1>8. /\ keyv' \in [Keys -> Entries \cup {None}]
      /\ handed' \in [Keys -> 0..2]
      /\ survivors' \subseteq Keys
    BY <1>1, <1>3, <1>6 DEF Put, Typed, TypeOK
<1>. QED BY <1>1, <1>7, <1>8 DEF Put, process, Typed, TypeOK, JobsOK

LEMMA TypedRead ==
    ASSUME Typed, NEW a \in Actors, NEW op \in {"get", "take"}, KeyvRead(a, op)
    PROVE  /\ keyv' \in [Keys -> Entries \cup {None}]
           /\ job[a] # None /\ job[a].key \in Keys /\ job[a].op = op
           /\ keyv'[job[a].key] # None => keyv[job[a].key] \in Entries
<1>1. job[a] # None /\ job[a].op = op /\ job[a].key \in Keys
    BY CallType DEF Typed, KeyvRead, Waiting
<1>2. keyv' = keyv \/ keyv' = [keyv EXCEPT ![job[a].key] = None]
    BY DEF KeyvRead
<1>. QED BY <1>1, <1>2 DEF Typed, TypeOK

LEMMA TypedForget ==
    ASSUME Typed, NEW k \in Keys, Forget(k)
    PROVE  /\ keys' \subseteq Keys
           /\ values' \in [Keys -> Values \cup {None}]
           /\ ttls' \in [Keys -> Nat \cup {None}]
BY DEF Typed, TypeOK, Forget

LEMMA TypedAnswers ==
    ASSUME Typed, NEW a \in Actors, StoreAnswers(a)
    PROVE  Typed'
<1>1. CASE KeyvSet(a)
    BY <1>1, TypedPut DEF KeyvSet
<1>2. CASE KeyvSetAgain(a)
    <2>1. job[a] # None /\ job[a].op = "setTtl"
        BY <1>2 DEF KeyvSetAgain, Put, Waiting
    <2>2. handed[job[a].key] \in 0..2
        BY <2>1, CallType DEF Typed, TypeOK
    <2>. QED BY <1>2, <2>2, TypedPut DEF KeyvSetAgain
<1>3. CASE KeyvTake(a)
    <2>. DEFINE k == job[a].key
                v == IF keyv'[k] = None THEN None ELSE keyv[k].value
    <2>1. KeyvRead(a, "take")
        BY <1>3 DEF KeyvTake
    <2>2. /\ keyv' \in [Keys -> Entries \cup {None}]
          /\ job[a] # None /\ k \in Keys /\ job[a].op = "take"
          /\ v \in Values \cup {None}
        BY <2>1, TypedRead DEF Entries
    <2>3. Answer(a, v, FALSE)
        BY <1>3 DEF KeyvTake
    <2>4. JobsOK'
        <3>. HIDE DEF v
        <3>. QED BY <2>2, <2>3, AnswerType DEF Typed
    <2>5. handed' \in [Keys -> 0..2]
        <3>1. handed[k] \in 0..2
            BY <2>2 DEF Typed, TypeOK
        <3>2. More(handed[k]) \in 0..2
            BY <3>1 DEF More
        <3>3. handed' = handed \/ handed' = [handed EXCEPT ![k] = More(@)]
            BY <1>3 DEF KeyvTake
        <3>. QED BY <3>2, <3>3 DEF Typed, TypeOK
    <2>. QED BY <2>1, <2>2, <2>4, <2>5
             DEF KeyvRead, process, Typed, TypeOK, JobsOK
<1>4. CASE KeyvDelete(a)
    <2>1. PICK op \in {"del", "remove", "expire"} :
              /\ job[a] # None /\ job[a].op = op
              /\ Answer(a, job[a].value,
                        IF op = "del" THEN keyv[job[a].key] # None
                                      ELSE job[a].known)
        BY <1>4 DEF KeyvDelete, Waiting
    <2>2. job[a] \in Calls /\ job[a].key \in Keys
        BY <2>1, CallType DEF Typed
    <2>3. JobsOK'
        <3>. DEFINE known == IF op = "del" THEN keyv[job[a].key] # None
                                           ELSE job[a].known
        <3>1. known \in BOOLEAN /\ job[a].value \in Values \cup {None}
            BY <2>2 DEF Calls
        <3>2. job[a].op \notin {"set", "setTtl"}
            BY <2>1
        <3>3. Answer(a, job[a].value, known)
            BY <2>1
        <3>. HIDE DEF known
        <3>. QED BY <2>1, <3>1, <3>2, <3>3, AnswerType DEF Typed
    <2>4. /\ keyv' \in [Keys -> Entries \cup {None}]
          /\ handed' \in [Keys -> 0..2]
          /\ survivors' \subseteq Keys
        BY <1>4, <2>2 DEF KeyvDelete, Typed, TypeOK
    <2>. QED BY <1>4, <2>3, <2>4 DEF KeyvDelete, process, Typed, TypeOK,
                                JobsOK
<1>5. CASE KeyvClear(a)
    <2>1. job[a] # None /\ job[a].op = "clear" /\ Answer(a, None, TRUE)
        BY <1>5 DEF KeyvClear, Waiting
    <2>2. JobsOK'
        BY <2>1, AnswerType DEF Typed
    <2>. QED BY <1>5, <2>2 DEF KeyvClear, process, Typed, TypeOK, JobsOK
<1>. QED BY <1>1, <1>2, <1>3, <1>4, <1>5 DEF StoreAnswers

LEMMA TypedRequests ==
    ASSUME Typed, NEW a \in Actors, NEW k \in Keys,
           \/ AccessExpired(a, k) \/ Get(a, k) \/ Del(a, k)
           \/ \E t \in Lifetimes :
                 \/ SetTtl(a, k, t)
                 \/ \E v \in Values : Set(a, k, v, t)
    PROVE  Typed'
<1>. k # None /\ 0 \in Lifetimes /\ None \notin Values
    BY NodeCacheStoreAssumption
<1>1. CASE AccessExpired(a, k)
    <2>1. Issue(a, "expire", k, None, 0, k \in keys)
        BY <1>1 DEF AccessExpired, handleExpired
    <2>2. JobsOK'
        <3>. DEFINE known == k \in keys
        <3>1. known \in BOOLEAN /\ Issue(a, "expire", k, None, 0, known)
            BY <2>1
        <3>. HIDE DEF known
        <3>. QED BY <3>1, IssueType DEF Typed, Ops
    <2>. QED BY <1>1, <2>2 DEF AccessExpired, process, Typed, TypeOK, JobsOK
<1>2. CASE Get(a, k)
    <2>1. JobsOK'
        BY <1>2, IssueType DEF Get, Typed, Ops
    <2>. QED BY <1>2, <2>1 DEF Get, process, Typed, TypeOK, JobsOK
<1>3. CASE Del(a, k)
    <2>1. JobsOK'
        BY <1>3, IssueType DEF Del, Typed, Ops
    <2>. QED BY <1>3, <2>1 DEF Del, process, Typed, TypeOK, JobsOK
<1>4. ASSUME NEW t \in Lifetimes, SetTtl(a, k, t) PROVE Typed'
    <2>1. values[k] \in Values
        BY <1>4 DEF SetTtl, Typed, TypeOK
    <2>2. JobsOK'
        BY <1>4, <2>1, IssueType DEF SetTtl, Typed, Ops
    <2>. QED BY <1>4, <2>2 DEF SetTtl, process, Typed, TypeOK, JobsOK
<1>5. ASSUME NEW t \in Lifetimes, NEW v \in Values, Set(a, k, v, t)
      PROVE  Typed'
    <2>1. JobsOK'
        <3>. DEFINE known == values[k] # None
        <3>1. known \in BOOLEAN /\ Issue(a, "set", k, v, t, known)
            BY <1>5 DEF Set
        <3>. HIDE DEF known
        <3>. QED BY <3>1, IssueType DEF Typed, Ops
    <2>2. keys' \subseteq Keys /\ count' \in Nat
        BY <1>5, LessType DEF Set, Typed, TypeOK
    <2>. QED BY <1>5, <2>1, <2>2 DEF Set, Typed, TypeOK, JobsOK
<1>. QED BY <1>1, <1>2, <1>3, <1>4, <1>5

LEMMA TypedReturns ==
    ASSUME Typed, NEW a \in Actors, Returns(a)
    PROVE  Typed'
<1>1. CASE SetReturns(a)
    <2>1. /\ job[a] # None /\ job[a].key \in Keys /\ job[a].value \in Values
          /\ job[a].lifetime \in Lifetimes
        BY <1>1, CallType DEF SetReturns, Running, Typed, Calls
    <2>2. Deadline(job[a].lifetime) \in Nat
        BY <2>1, DeadlineType DEF Typed, TypeOK
    <2>3. /\ values' \in [Keys -> Values \cup {None}]
          /\ ttls' \in [Keys -> Nat \cup {None}]
          /\ count' \in Nat
        BY <1>1, <2>1, <2>2 DEF SetReturns, Typed, TypeOK
    <2>4. JobsOK'
        BY <1>1, ReturnType DEF SetReturns, Typed
    <2>. QED BY <1>1, <2>3, <2>4 DEF SetReturns, Typed, TypeOK, JobsOK
<1>2. CASE SetTtlReturns(a)
    <2>1. /\ job[a] # None /\ job[a].key \in Keys
          /\ job[a].lifetime \in Lifetimes
        BY <1>2, CallType DEF SetTtlReturns, Running, Typed, Calls
    <2>2. Deadline(job[a].lifetime) \in Nat
        BY <2>1, DeadlineType DEF Typed, TypeOK
    <2>3. ttls' \in [Keys -> Nat \cup {None}]
        BY <1>2, <2>1, <2>2 DEF SetTtlReturns, Typed, TypeOK
    <2>4. JobsOK'
        BY <1>2, ReturnType DEF SetTtlReturns, Typed
    <2>. QED BY <1>2, <2>3, <2>4 DEF SetTtlReturns, Typed, TypeOK, JobsOK
<1>3. CASE ExpireReturns(a)
    <2>1. job[a] # None /\ job[a].key \in Keys
        BY <1>3, CallType DEF ExpireReturns, Running, Typed
    <2>2. JobsOK' /\ count' \in Nat
        BY <1>3, ReturnType, LessType DEF ExpireReturns, Typed, TypeOK
    <2>. QED BY <1>3, <2>1, <2>2, TypedForget
             DEF ExpireReturns, Typed, TypeOK, JobsOK
<1>4. CASE GetReturns(a)
    <2>1. KeyvRead(a, "get") /\ JobsOK'
        BY <1>4, ReturnType DEF GetReturns, Typed
    <2>. QED BY <1>4, <2>1, TypedRead
             DEF GetReturns, KeyvRead, process, Typed, TypeOK, JobsOK
<1>5. CASE TakeFindsNone(a)
    <2>1. JobsOK'
        BY <1>5, ReturnType DEF TakeFindsNone, Typed
    <2>. QED BY <1>5, <2>1 DEF TakeFindsNone, process, Typed, TypeOK, JobsOK
<1>6. CASE TakeRemoves(a)
    <2>. DEFINE j == [job[a] EXCEPT !.op = "remove", !.landed = FALSE]
    <2>1. job[a] # None /\ job[a].op = "take" /\ job[a] \in Calls
        BY <1>6, CallType DEF TakeRemoves, Running, Typed
    <2>2. j \in Calls /\ j.op = "remove" /\ j.key = job[a].key
        BY <2>1 DEF Calls, Ops
    <2>3. CallOK(j)
        BY <2>1, <2>2 DEF CallOK, Typed, JobsOK
    <2>4. job' = [job EXCEPT ![a] = j]
        BY <1>6 DEF TakeRemoves, Typed, JobsOK
    <2>. HIDE DEF j
    <2>5. JobsOK'
        BY <2>2, <2>3, <2>4 DEF Typed, JobsOK
    <2>. QED BY <1>6, <2>5 DEF TakeRemoves, process, Typed, TypeOK, JobsOK
<1>7. CASE TakeReturns(a)
    <2>1. job[a] # None /\ job[a].key \in Keys
        BY <1>7, CallType DEF TakeReturns, Running, Typed
    <2>2. JobsOK' /\ count' \in Nat
        BY <1>7, ReturnType, LessType DEF TakeReturns, Typed, TypeOK
    <2>. QED BY <1>7, <2>1, <2>2, TypedForget
             DEF TakeReturns, Typed, TypeOK, JobsOK
<1>8. CASE DelReturns(a)
    <2>1. job[a] # None /\ job[a].key \in Keys
        BY <1>8, CallType DEF DelReturns, Running, Typed
    <2>2. JobsOK'
        BY <1>8, ReturnType DEF DelReturns, Typed
    <2>3. CASE UNCHANGED <<process, skewed>>
        BY <1>8, <2>2, <2>3 DEF DelReturns, process, Typed, TypeOK, JobsOK
    <2>4. CASE /\ Forget(job[a].key) /\ count' = Less(count)
               /\ skewed' = (skewed \/ job[a].key \notin keys)
        <3>1. count' \in Nat /\ skewed' \in BOOLEAN
            BY <2>4, LessType DEF Typed, TypeOK
        <3>. QED BY <1>8, <2>1, <2>2, <2>4, <3>1, TypedForget
                 DEF DelReturns, Typed, TypeOK, JobsOK
    <2>. QED BY <1>8, <2>3, <2>4 DEF DelReturns
<1>9. CASE ClearReturns(a)
    <2>1. JobsOK'
        BY <1>9, ReturnType DEF ClearReturns, Typed
    <2>. QED BY <1>9, <2>1 DEF ClearReturns, NothingTracked, Typed, TypeOK, JobsOK
<1>. QED BY <1>1, <1>2, <1>3, <1>4, <1>5, <1>6, <1>7, <1>8, <1>9 DEF Returns

LEMMA TypedStep == Typed /\ [Next]_vars => Typed'
<1>. SUFFICES ASSUME Typed, [Next]_vars PROVE Typed'
    OBVIOUS
<1>1. CASE Requests
    <2>1. Callers \subseteq Actors
        BY DEF Actors
    <2>2. ASSUME NEW a \in Callers, Clear(a) PROVE Typed'
        <3>1. JobsOK'
            BY <2>1, <2>2, IssueType, NodeCacheStoreAssumption
               DEF Clear, Typed, Ops
        <3>. QED BY <2>2, <3>1 DEF Clear, process, Typed, TypeOK, JobsOK
    <2>. QED BY <1>1, <2>1, <2>2, TypedRequests DEF Requests
<1>2. CASE FlushStats
    BY <1>2 DEF FlushStats, Typed, TypeOK, JobsOK
<1>3. CASE Tick
    BY <1>3 DEF Tick, process, Typed, TypeOK, JobsOK
<1>4. CASE StartSweep
    <2>1. sweep' \subseteq Keys \X Nat
        BY <1>4 DEF StartSweep, Typed, TypeOK
    <2>. QED BY <1>4, <2>1 DEF StartSweep, process, Typed, TypeOK, JobsOK
<1>5. ASSUME NEW a \in Actors, StoreAnswers(a) PROVE Typed'
    BY <1>5, TypedAnswers
<1>6. ASSUME NEW a \in Actors, Returns(a) PROVE Typed'
    BY <1>6, TypedReturns
<1>7. ASSUME NEW entry \in sweep, SweepEntry(entry[1], entry[2]) PROVE Typed'
    <2>1. entry[1] \in Keys /\ Timer \in Actors
        BY DEF Typed, TypeOK, Actors
    <2>2. JobsOK'
        <3>1. CASE UNCHANGED job
            BY <3>1 DEF Typed, JobsOK
        <3>2. CASE handleExpired(Timer, entry[1])
            <4>. DEFINE known == entry[1] \in keys
            <4>1. /\ known \in BOOLEAN /\ entry[1] # None /\ 0 \in Lifetimes
                  /\ Issue(Timer, "expire", entry[1], None, 0, known)
                BY <2>1, <3>2, NodeCacheStoreAssumption DEF handleExpired
            <4>. HIDE DEF known
            <4>. QED BY <2>1, <4>1, IssueType DEF Typed, Ops
        <3>. QED BY <1>7, <3>1, <3>2 DEF SweepEntry
    <2>. QED BY <1>7, <2>2 DEF SweepEntry, process, Typed, TypeOK, JobsOK
<1>8. ASSUME NEW s \in Settings, Configure(s) PROVE Typed'
    BY <1>8 DEF Configure, process, Typed, TypeOK, JobsOK
<1>9. ASSUME NEW s \in Settings, Restart(s) PROVE Typed'
    <2>1. JobsOK'
        BY <1>9 DEF Restart, JobsOK
    <2>2. restarts' \in 0..MaxRestarts
        BY <1>9, NodeCacheStoreAssumption DEF Restart, Typed, TypeOK
    <2>3. handed' \in [Keys -> 0..2]
        BY <1>9 DEF Restart
    <2>. QED BY <1>9, <2>1, <2>2, <2>3
             DEF Restart, NothingTracked, Typed, TypeOK, JobsOK
<1>10. CASE UNCHANGED vars
    BY <1>10 DEF vars, process, Typed, TypeOK, JobsOK
<1>. QED BY <1>1, <1>2, <1>3, <1>4, <1>5, <1>6, <1>7, <1>8, <1>9, <1>10
         DEF Next

\* Every variable keeps its type, however calls of NodeCacheStore overlap.
THEOREM Typing == Spec => []TypeOK
<1>1. Typed => TypeOK
    BY DEF Typed
<1>. QED BY TypedInit, TypedStep, <1>1, PTL DEF Spec

-----------------------------------------------------------------------------
(* What holds of a key, at rest and while a call on it is in flight.        *)

KeptApart == Unaware = {}

Maps(k) == (k \in keys <=> values[k] # None) /\ (k \in keys <=> ttls[k] # None)

Consistent(k) ==
    /\ Maps(k)
    /\ k \in keys => k \notin survivors
    /\ keyv[k] # None /\ k \notin survivors => k \in keys
    /\ keyv[k] # None /\ k \in keys =>
          /\ keyv[k].value = values[k]
          /\ ttls[k] # Never =>
                keyv[k].deadline # Never /\ keyv[k].deadline <= ttls[k]
    /\ k \in keys /\ ttls[k] = Never =>
          keyv[k] # None /\ keyv[k].deadline = Never

\* No take has returned what this process stored.
Fresh(k) == k \notin survivors => handed[k] = 0

Settled(k) == Consistent(k) /\ Fresh(k)

Gone(k) == keyv[k] = None /\ handed[k] = 0

\* The store holds value v with a lifetime t that began by now.
Stored(k, v, t) ==
    /\ keyv[k] # None /\ keyv[k].value = v /\ k \notin survivors
    /\ t = 0 <=> keyv[k].deadline = Never
    /\ keyv[k].deadline <= now + t

StageOf(j) ==
    LET k == j.key IN
    /\ j.op = "set" =>
          /\ k \in keys
          /\ ~ j.landed => Fresh(k)
          /\ j.landed => Stored(k, j.value, j.lifetime) /\ handed[k] = 0
    /\ j.op = "setTtl" =>
          /\ Maps(k) /\ k \in keys /\ k \notin survivors
          /\ values[k] = j.value /\ handed[k] = 0
          /\ j.landed => Stored(k, j.value, j.lifetime)
    /\ j.op = "get" => Settled(k)
    /\ j.op = "take" =>
          /\ Consistent(k)
          /\ ~ j.landed \/ values[k] = None => Fresh(k)
          /\ k \notin survivors => handed[k] <= 1
    /\ j.op = "remove" =>
          /\ Maps(k) /\ k \in keys
          /\ ~ j.landed => (k \notin survivors => handed[k] <= 1)
          /\ j.landed => Gone(k)
    /\ j.op = "del" =>
          /\ Maps(k)
          /\ ~ j.landed \/ ~ j.known => Settled(k)
          /\ j.landed => Gone(k)
    /\ j.op = "expire" =>
          /\ Maps(k) /\ (j.known <=> k \in keys)
          /\ ~ j.landed => Fresh(k)
          /\ j.landed => Gone(k)
    /\ j.op = "clear" =>
          \A x \in Keys : /\ ~ j.landed => Fresh(x)
                          /\ j.landed => Gone(x)

Stage(a) == job[a] # None => StageOf(job[a])

Apart ==
    \A a, b \in Actors :
        a # b /\ job[a] # None /\ job[b] # None =>
            None \notin {job[a].key, job[b].key} /\ job[a].key # job[b].key

\* The inductive invariant: a call alone on its key, where it has come to,
\* and the keys no call works on.
Inv ==
    /\ Typed
    /\ Apart
    /\ \A a \in Actors : Stage(a)
    /\ \A k \in Keys : AtRest(k) => Settled(k)

SameAt(k) ==
    /\ keyv'[k] = keyv[k] /\ values'[k] = values[k] /\ ttls'[k] = ttls[k]
    /\ handed'[k] = handed[k]
    /\ k \in keys' <=> k \in keys
    /\ k \in survivors' <=> k \in survivors

LEMMA SettledFrame ==
    ASSUME NEW k \in Keys, SameAt(k), Settled(k)
    PROVE  Settled(k)'
BY DEF Settled, Consistent, Maps, Fresh, SameAt, Never

LEMMA StageFrame ==
    ASSUME Typed, NEW a \in Actors, Stage(a), job'[a] = job[a],
           now' \in Nat, now <= now',
           job[a] # None /\ job[a].key # None => SameAt(job[a].key),
           job[a] # None /\ job[a].key = None => \A k \in Keys : SameAt(k)
    PROVE  Stage(a)'
<1>. SUFFICES ASSUME job[a] # None PROVE StageOf(job[a])'
    BY DEF Stage
<1>. DEFINE j == job[a]
           k == job[a].key
<1>0. StageOf(j) /\ j \in Calls /\ (j.op = "clear" <=> k = None)
    BY DEF Stage, Typed, JobsOK, CallOK
<1>1. CASE j.op = "clear"
    <2>1. \A x \in Keys : SameAt(x)
        BY <1>0, <1>1
    <2>. QED BY <1>0, <1>1, <2>1 DEF StageOf, Fresh, Gone, SameAt
<1>2. CASE j.op # "clear"
    <2>1. SameAt(k) /\ k \in Keys
        BY <1>0, <1>2 DEF Calls
    <2>2. /\ Maps(k) => Maps(k)'
          /\ Consistent(k) => Consistent(k)'
          /\ Fresh(k) => Fresh(k)'
          /\ Gone(k) => Gone(k)'
          /\ k \in keys' <=> k \in keys
          /\ k \in survivors' <=> k \in survivors
          /\ values'[k] = values[k] /\ handed'[k] = handed[k]
        BY <2>1 DEF Maps, Consistent, Fresh, Gone, SameAt, Never
    <2>3. Stored(k, j.value, j.lifetime) => Stored(k, j.value, j.lifetime)'
        <3>1. j.lifetime \in Nat /\ now \in Nat
            BY <1>0, NodeCacheStoreAssumption DEF Calls, Typed, TypeOK
        <3>2. keyv[k] # None => keyv[k].deadline \in Nat
            BY <2>1 DEF Typed, TypeOK, Entries
        <3>. QED BY <2>1, <3>1, <3>2 DEF Stored, SameAt
    <2>. HIDE DEF k
    <2>. QED BY <1>0, <1>2, <2>2, <2>3 DEF StageOf, Settled, k
<1>. QED BY <1>1, <1>2

\* A step of one call on one key leaves the rest alone.
LEMMA StepOn ==
    ASSUME KeptApart, Inv, Typed', NEW a \in Actors, NEW k \in Keys,
           now' = now,
           \/ job[a] = None /\ Alone(a, k)
           \/ job[a] # None /\ job[a].key = k,
           \A b \in Actors \ {a} : job'[b] = job[b],
           \A x \in Keys \ {k} : SameAt(x),
           \/ job'[a] = None /\ Settled(k)'
           \/ job'[a] # None /\ job'[a].key = k /\ StageOf(job[a])'
    PROVE  Inv'
<1>. k # None
    BY NodeCacheStoreAssumption
<1>1. ASSUME NEW b \in Actors \ {a}, job[b] # None
      PROVE  job[b].key \in Keys \ {k}
    <2>1. job[b].key # None /\ job[b].key # k
        BY <1>1 DEF Alone, KeptApart, Inv, Apart
    <2>2. job[b].key \in Keys \cup {None}
        BY <1>1 DEF Inv, Typed, JobsOK, Calls
    <2>. QED BY <2>1, <2>2
<1>2. Apart'
    <2>1. SUFFICES ASSUME NEW b \in Actors, NEW c \in Actors, b # c,
                          job'[b] # None, job'[c] # None
                   PROVE  None \notin {job'[b].key, job'[c].key}
                          /\ job'[b].key # job'[c].key
        BY DEF Apart
    <2>2. CASE b = a
        BY <1>1, <2>1, <2>2, NodeCacheStoreAssumption
    <2>3. CASE c = a
        BY <1>1, <2>1, <2>3, NodeCacheStoreAssumption
    <2>4. CASE b # a /\ c # a
        BY <2>1, <2>4 DEF Inv, Apart
    <2>. QED BY <2>2, <2>3, <2>4
<1>3. \A b \in Actors \ {a} : Stage(b)'
    <2>1. SUFFICES ASSUME NEW b \in Actors \ {a} PROVE Stage(b)'
        OBVIOUS
    <2>2. Typed /\ Stage(b) /\ now \in Nat
        BY DEF Inv, Typed, TypeOK
    <2>. QED BY <1>1, <2>2, StageFrame, NodeCacheStoreAssumption
<1>4. Stage(a)'
    BY DEF Stage
<1>5. ASSUME NEW x \in Keys, AtRest(x)' PROVE Settled(x)'
    <2>1. CASE x = k
        BY <1>5, <2>1 DEF AtRest
    <2>2. CASE x # k
        <3>1. \A b \in Actors : job[b] = None \/ job[b].key \notin {x, None}
            <4>1. SUFFICES ASSUME NEW b \in Actors
                           PROVE  job[b] = None \/ job[b].key \notin {x, None}
                OBVIOUS
            <4>2. CASE b = a
                BY <2>2, <4>2
            <4>3. CASE b # a
                BY <1>5, <4>3 DEF AtRest
            <4>. QED BY <4>2, <4>3
        <3>2. Settled(x) /\ SameAt(x)
            BY <2>2, <3>1 DEF Inv, AtRest
        <3>. QED BY <3>2, SettledFrame
    <2>. QED BY <2>1, <2>2
<1>. QED BY <1>2, <1>3, <1>4, <1>5 DEF Inv

\* A step of a call on all keys, the only one in flight.
LEMMA StepAll ==
    ASSUME KeptApart, Inv, Typed', NEW a \in Actors,
           \/ job[a] = None /\ Alone(a, None)
           \/ job[a] # None /\ job[a].key = None,
           \A b \in Actors \ {a} : job'[b] = job[b],
           \/ job'[a] = None /\ \A x \in Keys : Settled(x)'
           \/ job'[a] # None /\ job'[a].key = None /\ StageOf(job[a])'
    PROVE  Inv'
<1>1. \A b \in Actors \ {a} : job'[b] = None
    BY DEF Alone, KeptApart, Inv, Apart
<1>2. Apart'
    BY <1>1 DEF Apart
<1>3. \A b \in Actors : Stage(b)'
    BY <1>1 DEF Stage
<1>4. ASSUME NEW x \in Keys, AtRest(x)' PROVE Settled(x)'
    BY <1>4 DEF AtRest
<1>. QED BY <1>2, <1>3, <1>4 DEF Inv

\* A step that touches no call, no key and lets time pass at most.
LEMMA StepNone ==
    ASSUME Inv, Typed', UNCHANGED <<keyv, keys, values, ttls, job, survivors,
                                    handed>>, now <= now'
    PROVE  Inv'
<1>1. \A k \in Keys : SameAt(k)
    BY DEF SameAt
<1>2. now' \in Nat
    BY DEF Typed, TypeOK
<1>3. ASSUME NEW a \in Actors PROVE Stage(a)'
    <2>1. Typed /\ Stage(a) /\ job'[a] = job[a]
        BY DEF Inv
    <2>2. job[a] # None => job[a].key \in Keys \cup {None}
        BY <2>1 DEF Typed, JobsOK, Calls
    <2>. QED BY <1>1, <1>2, <2>1, <2>2, StageFrame
<1>4. ASSUME NEW k \in Keys, AtRest(k)' PROVE Settled(k)'
    BY <1>1, <1>4, SettledFrame DEF Inv, AtRest
<1>. QED BY <1>3, <1>4 DEF Inv, Apart

LEMMA IssueEffect ==
    ASSUME KeptApart, Inv, Typed', NEW a \in Actors, NEW op \in Ops,
           NEW k \in Keys \cup {None}, NEW v \in Values \cup {None},
           NEW t \in Lifetimes, NEW known \in BOOLEAN,
           Issue(a, op, k, v, t, known)
    PROVE  /\ job[a] = None /\ Alone(a, k)
           /\ job'[a] # None
           /\ job'[a] = [op |-> op, key |-> k, value |-> v, lifetime |-> t,
                         known |-> known, landed |-> FALSE]
           /\ \A b \in Actors \ {a} : job'[b] = job[b]
           /\ \A x \in Keys : k \in {x, None} => Settled(x)
<1>1. /\ job[a] = None /\ Alone(a, k)
      /\ job'[a] = [op |-> op, key |-> k, value |-> v, lifetime |-> t,
                    known |-> known, landed |-> FALSE]
      /\ \A b \in Actors \ {a} : job'[b] = job[b]
    BY DEF Issue, Inv, Typed, JobsOK
<1>2. job'[a] # None
    <2>1. job'[a] \in Calls
        BY <1>1 DEF Calls
    <2>. QED BY <2>1, NoneIsNoEntry
<1>3. ASSUME NEW x \in Keys, k \in {x, None} PROVE Settled(x)
    <2>1. \A b \in Actors \ {a} : job[b] # None => job[b].key \notin {x, None}
        BY <1>1, <1>3 DEF Alone, KeptApart
    <2>2. AtRest(x)
        BY <1>1, <2>1 DEF AtRest
    <2>. QED BY <2>2 DEF Inv
<1>. QED BY <1>1, <1>2, <1>3

LEMMA InvRequests ==
    ASSUME KeptApart, Inv, Typed', NEW a \in Actors, NEW k \in Keys,
           \/ AccessExpired(a, k) \/ Get(a, k) \/ Del(a, k)
           \/ \E t \in Lifetimes :
                 \/ SetTtl(a, k, t)
                 \/ \E v \in Values : Set(a, k, v, t)
    PROVE  Inv'
<1>. k # None /\ 0 \in Lifetimes /\ None \notin Values
    BY NodeCacheStoreAssumption
<1>. /\ values \in [Keys -> Values \cup {None}] /\ job \in [Actors -> Calls \cup {None}]
    BY DEF Inv, Typed, TypeOK
<1>1. ASSUME UNCHANGED <<keyv, keys, values, ttls, survivors, handed>>
      PROVE  \A x \in Keys : SameAt(x)
    BY <1>1 DEF SameAt
<1>2. CASE AccessExpired(a, k)
    <2>. DEFINE known == k \in keys
    <2>1. /\ Issue(a, "expire", k, None, 0, known) /\ known \in BOOLEAN
          /\ UNCHANGED <<keyv, keys, values, ttls, now, survivors, handed>>
        BY <1>2 DEF AccessExpired, handleExpired, process
    <2>. HIDE DEF known
    <2>2. /\ job[a] = None /\ Alone(a, k) /\ job'[a] # None
          /\ job'[a] = [op |-> "expire", key |-> k, value |-> None,
                        lifetime |-> 0, known |-> known, landed |-> FALSE]
          /\ \A b \in Actors \ {a} : job'[b] = job[b]
          /\ Settled(k)
        BY <2>1, IssueEffect DEF Ops
    <2>3. StageOf(job[a])'
        <3>1. /\ job'[a].op = "expire" /\ job'[a].key = k
              /\ job'[a].known = known /\ ~ job'[a].landed
            BY <2>2
        <3>2. job'[a].known <=> k \in keys
            BY <3>1 DEF known
        <3>. QED BY <2>1, <2>2, <3>1, <3>2
                 DEF StageOf, Settled, Consistent, Maps, Fresh
    <2>4. now' = now /\ \A x \in Keys \ {k} : SameAt(x)
        BY <2>1 DEF SameAt
    <2>5. job'[a].key = k
        BY <2>2
    <2>. QED BY <2>2, <2>3, <2>4, <2>5, StepOn
<1>3. CASE Get(a, k)
    <2>. DEFINE known == FALSE
    <2>1. /\ known \in BOOLEAN
          /\ \E op \in {"get", "take"} : Issue(a, op, k, None, 0, known)
        BY <1>3 DEF Get
    <2>. HIDE DEF known
    <2>4. PICK op \in {"get", "take"} : Issue(a, op, k, None, 0, known)
        BY <2>1
    <2>2. UNCHANGED <<keyv, keys, values, ttls, now, survivors, handed>>
        BY <1>3 DEF Get, process
    <2>3. /\ job[a] = None /\ Alone(a, k) /\ job'[a] # None
          /\ job'[a] = [op |-> op, key |-> k, value |-> None,
                        lifetime |-> 0, known |-> known, landed |-> FALSE]
          /\ \A b \in Actors \ {a} : job'[b] = job[b]
          /\ Settled(k)
        BY <2>1, <2>4, IssueEffect DEF Ops
    <2>5. StageOf(job[a])'
        <3>1. /\ job'[a].op = op /\ job'[a].key = k
              /\ ~ job'[a].landed
            BY <2>3
        <3>. QED BY <2>1, <2>2, <2>3, <3>1
                 DEF StageOf, Settled, Consistent, Maps, Fresh
    <2>6. now' = now /\ \A x \in Keys \ {k} : SameAt(x)
        BY <2>2 DEF SameAt
    <2>7. job'[a].key = k
        BY <2>3
    <2>. QED BY <2>3, <2>5, <2>6, <2>7, StepOn
<1>4. CASE Del(a, k)
    <2>. DEFINE known == FALSE
    <2>1. known \in BOOLEAN /\ Issue(a, "del", k, None, 0, known)
        BY <1>4 DEF Del
    <2>. HIDE DEF known
    <2>2. UNCHANGED <<keyv, keys, values, ttls, now, survivors, handed>>
        BY <1>4 DEF Del, process
    <2>3. /\ job[a] = None /\ Alone(a, k) /\ job'[a] # None
          /\ job'[a] = [op |-> "del", key |-> k, value |-> None,
                        lifetime |-> 0, known |-> known, landed |-> FALSE]
          /\ \A b \in Actors \ {a} : job'[b] = job[b]
          /\ Settled(k)
        BY <2>1, IssueEffect DEF Ops
    <2>5. StageOf(job[a])'
        <3>1. /\ job'[a].op = "del" /\ job'[a].key = k
              /\ ~ job'[a].landed
            BY <2>3
        <3>. QED BY <2>1, <2>2, <2>3, <3>1
                 DEF StageOf, Settled, Consistent, Maps, Fresh
    <2>6. now' = now /\ \A x \in Keys \ {k} : SameAt(x)
        BY <2>2 DEF SameAt
    <2>7. job'[a].key = k
        BY <2>3
    <2>. QED BY <2>3, <2>5, <2>6, <2>7, StepOn
<1>5. ASSUME NEW t \in Lifetimes, SetTtl(a, k, t) PROVE Inv'
    <2>. DEFINE known == TRUE
    <2>1. /\ known \in BOOLEAN /\ values[k] # None
          /\ Issue(a, "setTtl", k, values[k], t, known)
        BY <1>5 DEF SetTtl
    <2>. HIDE DEF known
    <2>2. UNCHANGED <<keyv, keys, values, ttls, now, survivors, handed>>
        BY <1>5 DEF SetTtl, process
    <2>3. /\ job[a] = None /\ Alone(a, k) /\ job'[a] # None
          /\ job'[a] = [op |-> "setTtl", key |-> k, value |-> values[k],
                        lifetime |-> t, known |-> known, landed |-> FALSE]
          /\ \A b \in Actors \ {a} : job'[b] = job[b]
          /\ Settled(k)
        BY <2>1, IssueEffect DEF Ops
    <2>5. StageOf(job[a])'
        <3>1. /\ job'[a].op = "setTtl" /\ job'[a].key = k
              /\ ~ job'[a].landed /\ job'[a].value = values[k]
            BY <2>3
        <3>. QED BY <2>1, <2>2, <2>3, <3>1
                 DEF StageOf, Settled, Consistent, Maps, Fresh
    <2>6. now' = now /\ \A x \in Keys \ {k} : SameAt(x)
        BY <2>2 DEF SameAt
    <2>7. job'[a].key = k
        BY <2>3
    <2>. QED BY <2>3, <2>5, <2>6, <2>7, StepOn
<1>6. ASSUME NEW t \in Lifetimes, NEW v \in Values, Set(a, k, v, t)
      PROVE  Inv'
    <2>. DEFINE known == values[k] # None
    <2>1. Issue(a, "set", k, v, t, known) /\ known \in BOOLEAN
        BY <1>6 DEF Set
    <2>. HIDE DEF known
    <2>2. /\ UNCHANGED <<keyv, values, ttls, now, survivors, handed>>
          /\ keys' = keys \cup {k}
        BY <1>6 DEF Set
    <2>3. /\ job[a] = None /\ Alone(a, k) /\ job'[a] # None
          /\ job'[a] = [op |-> "set", key |-> k, value |-> v,
                        lifetime |-> t, known |-> known, landed |-> FALSE]
          /\ \A b \in Actors \ {a} : job'[b] = job[b]
          /\ Settled(k)
        BY <2>1, IssueEffect DEF Ops
    <2>4. StageOf(job[a])'
        BY <2>2, <2>3 DEF StageOf, Settled, Fresh
    <2>5. \A x \in Keys \ {k} : SameAt(x)
        BY <2>2 DEF SameAt
    <2>. QED BY <2>2, <2>3, <2>4, <2>5, StepOn
<1>. QED BY <1>2, <1>3, <1>4, <1>5, <1>6

LEMMA InvPut ==
    ASSUME KeptApart, Inv, Typed', NEW a \in Actors,
           NEW op \in {"set", "setTtl"}, NEW counts,
           op = "set" => counts = 0,
           op = "setTtl" => counts = handed[job[a].key],
           Put(a, {op}, counts)
    PROVE  Inv'
<1>. DEFINE k == job[a].key
            t == job[a].lifetime
<1>1. /\ job[a] # None /\ job[a].op = op /\ ~ job[a].landed
      /\ keyv' = [keyv EXCEPT ![k] = [value |-> job[a].value,
                                      deadline |-> Deadline(t)]]
      /\ handed' = [handed EXCEPT ![k] = counts]
      /\ survivors' = survivors \ {k}
      /\ Answer(a, job[a].value, job[a].known)
      /\ UNCHANGED <<keys, values, ttls, now>>
    BY DEF Put, Waiting, process
<1>2. /\ k \in Keys /\ job[a] \in Calls /\ job[a].value \in Values
      /\ StageOf(job[a]) /\ TypeOK
    BY <1>1, CallType DEF Inv, Typed, Stage
<1>3. /\ job'[a] # None /\ job'[a].op = op /\ job'[a].key = k
      /\ job'[a].lifetime = t /\ job'[a].landed
      /\ job'[a].value = job[a].value /\ job'[a].known = job[a].known
      /\ \A b \in Actors \ {a} : job'[b] = job[b]
    <2>1. /\ job[a].value \in Values \cup {None} /\ job[a].known \in BOOLEAN
          /\ job[a].value # None
        BY <1>2, NodeCacheStoreAssumption DEF Calls
    <2>. QED BY <1>1, <2>1, AnswerType DEF Inv, Typed
<1>4. t \in Nat /\ now \in Nat /\ now' = now
    BY <1>1, <1>2, NodeCacheStoreAssumption DEF Calls, TypeOK
<1>5. /\ keyv'[k] = [value |-> job[a].value, deadline |-> Deadline(t)]
      /\ handed'[k] = counts /\ k \notin survivors'
      /\ \A x \in Keys \ {k} : SameAt(x)
    BY <1>1, <1>2 DEF TypeOK, SameAt
<1>6. keyv'[k] # None
    <2>1. Deadline(t) \in Nat
        BY <1>4 DEF Deadline, Never
    <2>2. keyv'[k] \in Entries
        BY <1>2, <1>5, <2>1 DEF Entries
    <2>. QED BY <2>2, NoneIsNoEntry
<1>7. /\ t = 0 <=> Deadline(t) = Never
      /\ Deadline(t) <= now + t
    BY <1>4 DEF Deadline, Never
<1>. HIDE DEF k, t
<1>8. StageOf(job[a])'
    <2>1. /\ (t = 0 <=> keyv'[k].deadline = Never)
          /\ keyv'[k].deadline <= now' + t
          /\ keyv'[k].value = job[a].value
        BY <1>4, <1>5, <1>7
    <2>2. /\ k \in keys
          /\ op = "setTtl" => Maps(k) /\ values[k] = job[a].value /\ handed[k] = 0
        BY <1>1, <1>2 DEF StageOf, k
    <2>3. handed'[k] = 0
        BY <1>5, <2>2 DEF k
    <2>. QED BY <1>1, <1>3, <1>5, <1>6, <2>1, <2>2, <2>3
             DEF StageOf, Stored, Maps
<1>. QED BY <1>1, <1>2, <1>3, <1>5, <1>8, StepOn DEF k

\* A read changes nothing but takes an expired entry out of the store.
LEMMA ReadKeeps ==
    ASSUME Inv, Typed', NEW a \in Actors, NEW op \in {"get", "take"},
           NEW k \in Keys, k = job[a].key, KeyvRead(a, op), Consistent(k)
    PROVE  Consistent(k)'
<1>1. /\ keyv' = keyv \/ (KeyvExpired(k) /\ keyv' = [keyv EXCEPT ![k] = None])
      /\ UNCHANGED <<keys, values, ttls, survivors>>
      /\ job[a] # None /\ job[a].op = op
    BY DEF KeyvRead, Waiting, process
<1>2. k \in Keys /\ TypeOK
    BY <1>1, CallType DEF Inv, Typed
<1>3. /\ keyv'[k] = keyv[k] \/ (KeyvExpired(k) /\ keyv'[k] = None)
      /\ values'[k] = values[k] /\ ttls'[k] = ttls[k]
    BY <1>1, <1>2 DEF TypeOK
<1>. QED BY <1>1, <1>2, <1>3 DEF Consistent, Maps, KeyvExpired

LEMMA ReadElsewhere ==
    ASSUME Inv, NEW a \in Actors, NEW op \in {"get", "take"}, KeyvRead(a, op),
           handed' = handed
              \/ \E n : handed' = [handed EXCEPT ![job[a].key] = n]
    PROVE  \A x \in Keys \ {job[a].key} : SameAt(x)
<1>1. keyv' = keyv \/ keyv' = [keyv EXCEPT ![job[a].key] = None]
    BY DEF KeyvRead
<1>. QED BY <1>1 DEF KeyvRead, process, SameAt, Inv, Typed, TypeOK

LEMMA InvAnswers ==
    ASSUME KeptApart, Inv, Typed', NEW a \in Actors, StoreAnswers(a)
    PROVE  Inv'
<1>1. CASE KeyvSet(a)
    BY <1>1, InvPut DEF KeyvSet
<1>2. CASE KeyvSetAgain(a)
    BY <1>2, InvPut DEF KeyvSetAgain
<1>3. CASE KeyvTake(a)
    <2>0. PICK k \in Keys : k = job[a].key
        BY <1>3, CallType DEF KeyvTake, KeyvRead, Waiting, Inv, Typed
    <2>. DEFINE v == IF keyv'[k] = None THEN None ELSE keyv[k].value
    <2>1. /\ KeyvRead(a, "take") /\ Answer(a, v, FALSE)
          /\ handed' = IF v = None THEN handed ELSE [handed EXCEPT ![k] = More(@)]
          /\ UNCHANGED <<keys, values, ttls, now, survivors>>
        BY <1>3, <2>0 DEF KeyvTake, KeyvRead, process
    <2>2. /\ job[a] # None /\ k \in Keys /\ job[a].op = "take"
          /\ v \in Values \cup {None} /\ ~ job[a].landed
          /\ StageOf(job[a])
        BY <2>0, <2>1, TypedRead DEF Inv, Stage, Entries, KeyvRead, Waiting
    <2>3. /\ Consistent(k) /\ Fresh(k)
        BY <2>0, <2>2 DEF StageOf
    <2>4. Consistent(k)'
        BY <2>0, <2>1, <2>3, ReadKeeps
    <2>5. \A x \in Keys \ {k} : SameAt(x)
        <3>. HIDE DEF v
        <3>. QED BY <2>0, <2>1, ReadElsewhere
    <2>6. /\ k \notin survivors' => handed'[k] <= 1
          /\ values'[k] = None => Fresh(k)'
        <3>1. handed[k] \in 0..2 /\ handed \in [Keys -> 0..2]
            BY <2>2 DEF Inv, Typed, TypeOK
        <3>2. handed'[k] = IF v = None THEN handed[k] ELSE More(handed[k])
            BY <2>1, <2>2, <3>1
        <3>3. k \notin survivors => handed'[k] <= 1
            BY <2>3, <3>1, <3>2 DEF Fresh, More
        <3>4. values[k] = None /\ k \notin survivors => v = None
            <4>1. values[k] = None /\ k \notin survivors => keyv[k] = None
                BY <2>3 DEF Consistent, Maps
            <4>2. keyv'[k] = keyv[k] \/ keyv'[k] = None
                BY <2>0, <2>1, <2>2 DEF KeyvRead, Inv, Typed, TypeOK
            <4>. QED BY <4>1, <4>2
        <3>5. values'[k] = None /\ k \notin survivors => handed'[k] = 0
            BY <2>1, <2>3, <3>1, <3>2, <3>4 DEF Fresh
        <3>. QED BY <2>1, <3>3, <3>5 DEF Fresh
    <2>7. /\ job'[a] # None /\ job'[a].op = "take" /\ job'[a].key = k
          /\ job'[a].landed
          /\ \A b \in Actors \ {a} : job'[b] = job[b]
        <3>. HIDE DEF v
        <3>. QED BY <2>0, <2>1, <2>2, AnswerType DEF Inv, Typed
    <2>. HIDE DEF v
    <2>8. StageOf(job[a])'
        BY <2>4, <2>6, <2>7 DEF StageOf, Consistent, Maps, Fresh
    <2>. QED BY <2>0, <2>1, <2>2, <2>5, <2>7, <2>8, StepOn
<1>4. CASE KeyvDelete(a)
    <2>0. PICK k \in Keys : k = job[a].key
        BY <1>4, CallType DEF KeyvDelete, Waiting, Inv, Typed
    <2>1. PICK op \in {"del", "remove", "expire"} :
              /\ job[a] # None /\ job[a].op = op /\ ~ job[a].landed
              /\ keyv' = [keyv EXCEPT ![k] = None]
              /\ survivors' = survivors \ {k}
              /\ handed' = [handed EXCEPT ![k] = 0]
              /\ Answer(a, job[a].value,
                        IF op = "del" THEN keyv[k] # None ELSE job[a].known)
              /\ UNCHANGED <<keys, values, ttls, now>>
        BY <1>4, <2>0 DEF KeyvDelete, Waiting, process
    <2>2. /\ job[a] \in Calls /\ k \in Keys /\ StageOf(job[a]) /\ TypeOK
        BY <2>1, CallType DEF Inv, Typed, Stage
    <2>3. /\ keyv'[k] = None /\ handed'[k] = 0 /\ k \notin survivors'
          /\ \A x \in Keys \ {k} : SameAt(x)
        BY <2>1, <2>2 DEF TypeOK, SameAt
    <2>4. /\ job'[a] # None /\ job'[a].op = op /\ job'[a].key = k
          /\ job'[a].landed
          /\ op = "del" /\ ~ job'[a].known => keyv[k] = None
          /\ op # "del" => job'[a].known = job[a].known
          /\ \A b \in Actors \ {a} : job'[b] = job[b]
        <3>. DEFINE known == IF op = "del" THEN keyv[k] # None ELSE job[a].known
        <3>1. known \in BOOLEAN /\ job[a].value \in Values \cup {None}
            BY <2>2 DEF Calls
        <3>2. Answer(a, job[a].value, known) /\ op \notin {"set", "setTtl"}
            BY <2>1
        <3>3. op = "del" /\ ~ known => keyv[k] = None
            OBVIOUS
        <3>4. op # "del" => known = job[a].known
            OBVIOUS
        <3>. HIDE DEF known
        <3>5. /\ job'[a] # None /\ job'[a].op = op /\ job'[a].key = k
              /\ job'[a].landed /\ job'[a].known = known
              /\ \A b \in Actors \ {a} : job'[b] = job[b]
            BY <2>0, <2>1, <3>1, <3>2, AnswerType DEF Inv, Typed
        <3>. QED BY <3>3, <3>4, <3>5
    <2>5. Gone(k)'
        BY <2>3 DEF Gone
    <2>6. /\ job[a].op # "remove" \/ k \in keys
          /\ Maps(k)
          /\ op = "del" => Consistent(k)
          /\ op = "expire" => (job[a].known <=> k \in keys)
        BY <2>0, <2>1, <2>2 DEF StageOf, Settled
    <2>7. op = "del" /\ ~ job'[a].known => Settled(k)'
        BY <2>1, <2>3, <2>4, <2>6 DEF Settled, Consistent, Maps, Fresh
    <2>8. StageOf(job[a])'
        BY <2>1, <2>3, <2>4, <2>6, <2>7
           DEF StageOf, Settled, Consistent, Maps, Fresh, Gone
    <2>. QED BY <2>0, <2>1, <2>3, <2>4, <2>8, StepOn
<1>5. CASE KeyvClear(a)
    <2>1. /\ job[a] # None /\ job[a].op = "clear" /\ Answer(a, None, TRUE)
          /\ keyv' = [k \in Keys |-> None] /\ handed' = [k \in Keys |-> 0]
        BY <1>5 DEF KeyvClear, Waiting
    <2>2. job[a].key = None
        BY <2>1 DEF Inv, Typed, JobsOK, CallOK
    <2>3. /\ job'[a] # None /\ job'[a].op = "clear" /\ job'[a].key = None
          /\ job'[a].landed /\ \A b \in Actors \ {a} : job'[b] = job[b]
        BY <2>1, <2>2, AnswerType DEF Inv, Typed
    <2>4. \A x \in Keys : keyv'[x] = None /\ handed'[x] = 0
        BY <2>1
    <2>5. StageOf(job[a])'
        BY <2>3, <2>4 DEF StageOf, Gone
    <2>. QED BY <2>1, <2>2, <2>3, <2>5, StepAll
<1>. QED BY <1>1, <1>2, <1>3, <1>4, <1>5 DEF StoreAnswers

\* A call that forgets its key, which the store has not any more.
LEMMA ForgetSettles ==
    ASSUME Inv, NEW k \in Keys, Forget(k), Gone(k),
           UNCHANGED <<keyv, survivors, handed>>
    PROVE  /\ Settled(k)'
           /\ \A x \in Keys \ {k} : SameAt(x)
<1>1. /\ k \notin keys' /\ values'[k] = None /\ ttls'[k] = None
      /\ \A x \in Keys \ {k} : SameAt(x)
    BY DEF Forget, Inv, Typed, TypeOK, SameAt
<1>. QED BY <1>1 DEF Settled, Consistent, Maps, Fresh, Gone

LEMMA ReturnEffect ==
    ASSUME Inv, NEW a \in Actors, NEW op, Running(a, op) \/ Waiting(a, op),
           Return(a), op # "clear"
    PROVE  /\ job[a] # None /\ job[a].op = op /\ job[a].key \in Keys
           /\ job[a] \in Calls /\ StageOf(job[a])
           /\ job'[a] = None /\ \A b \in Actors \ {a} : job'[b] = job[b]
<1>1. job[a] # None /\ job[a].op = op
    BY DEF Running, Waiting
<1>2. job[a] \in Calls /\ job[a].key \in Keys /\ StageOf(job[a])
    BY <1>1, CallType DEF Inv, Typed, Stage
<1>. QED BY <1>1, <1>2 DEF Return, Inv, Typed, JobsOK

LEMMA InvReturns ==
    ASSUME KeptApart, Inv, Typed', NEW a \in Actors, Returns(a)
    PROVE  Inv'
<1>1. CASE SetReturns(a)
    <2>1. /\ Running(a, "set") /\ Return(a) /\ job[a].landed
          /\ UNCHANGED <<keyv, keys, now, survivors, handed>>
        BY <1>1 DEF SetReturns, Running
    <2>2. /\ job[a] # None /\ job[a].op = "set" /\ job[a] \in Calls
          /\ StageOf(job[a])
          /\ job'[a] = None /\ \A b \in Actors \ {a} : job'[b] = job[b]
        BY <2>1, ReturnEffect
    <2>3. PICK k \in Keys : k = job[a].key
        BY <2>1, ReturnEffect
    <2>4. PICK v, t : v = job[a].value /\ t = job[a].lifetime
        OBVIOUS
    <2>5. /\ v \in Values /\ t \in Nat /\ now \in Nat
          /\ keyv[k] # None => keyv[k].deadline \in Nat
        BY <2>2, <2>3, <2>4, CallType, NodeCacheStoreAssumption
           DEF Calls, Inv, Typed, TypeOK, Entries
    <2>6. /\ values'[k] = v /\ ttls'[k] = Deadline(t)
          /\ \A x \in Keys \ {k} : SameAt(x)
        BY <1>1, <2>1, <2>3, <2>4 DEF SetReturns, SameAt, Inv, Typed, TypeOK
    <2>7. k \in keys /\ Stored(k, v, t) /\ handed[k] = 0
        BY <2>1, <2>2, <2>3, <2>4 DEF StageOf
    <2>8. /\ Deadline(t) # None
          /\ Deadline(t) = Never => t = 0
          /\ Deadline(t) # Never => t # 0 /\ Deadline(t) = now + t
        BY <2>5, NodeCacheStoreAssumption DEF Deadline, Never
    <2>9. Settled(k)'
        BY <2>1, <2>5, <2>6, <2>7, <2>8, NodeCacheStoreAssumption
           DEF Settled, Consistent, Maps, Fresh, Stored
    <2>. QED BY <2>1, <2>2, <2>3, <2>6, <2>9, StepOn
<1>2. CASE SetTtlReturns(a)
    <2>1. /\ Running(a, "setTtl") /\ Return(a) /\ job[a].landed
          /\ UNCHANGED <<keyv, keys, values, now, survivors, handed>>
        BY <1>2 DEF SetTtlReturns, Running
    <2>2. /\ job[a] # None /\ job[a].op = "setTtl" /\ job[a] \in Calls
          /\ StageOf(job[a])
          /\ job'[a] = None /\ \A b \in Actors \ {a} : job'[b] = job[b]
        BY <2>1, ReturnEffect
    <2>3. PICK k \in Keys : k = job[a].key
        BY <2>1, ReturnEffect
    <2>4. PICK v, t : v = job[a].value /\ t = job[a].lifetime
        OBVIOUS
    <2>5. /\ v \in Values /\ t \in Nat /\ now \in Nat
          /\ keyv[k] # None => keyv[k].deadline \in Nat
        BY <2>2, <2>3, <2>4, CallType, NodeCacheStoreAssumption
           DEF Calls, Inv, Typed, TypeOK, Entries
    <2>6. /\ values'[k] = values[k] /\ ttls'[k] = Deadline(t)
          /\ \A x \in Keys \ {k} : SameAt(x)
        BY <1>2, <2>1, <2>3, <2>4 DEF SetTtlReturns, SameAt, Inv, Typed, TypeOK
    <2>7. k \in keys /\ Stored(k, v, t) /\ handed[k] = 0 /\ values[k] = v
        BY <2>1, <2>2, <2>3, <2>4 DEF StageOf
    <2>8. /\ Deadline(t) # None
          /\ Deadline(t) = Never => t = 0
          /\ Deadline(t) # Never => t # 0 /\ Deadline(t) = now + t
        BY <2>5, NodeCacheStoreAssumption DEF Deadline, Never
    <2>9. Settled(k)'
        BY <2>1, <2>5, <2>6, <2>7, <2>8, NodeCacheStoreAssumption
           DEF Settled, Consistent, Maps, Fresh, Stored
    <2>. QED BY <2>1, <2>2, <2>3, <2>6, <2>9, StepOn
<1>3. ASSUME NEW op \in {"expire", "remove", "del"}, Running(a, op), Return(a),
             Forget(job[a].key), UNCHANGED <<keyv, now, survivors, handed>>
      PROVE  Inv'
    <2>1. PICK k \in Keys : k = job[a].key
        BY <1>3, ReturnEffect
    <2>2. /\ job[a] # None /\ job[a].op = op /\ StageOf(job[a])
          /\ job'[a] = None /\ \A b \in Actors \ {a} : job'[b] = job[b]
        BY <1>3, ReturnEffect
    <2>3. Gone(k)
        BY <1>3, <2>1, <2>2 DEF StageOf, Running
    <2>4. Settled(k)' /\ \A x \in Keys \ {k} : SameAt(x)
        BY <1>3, <2>1, <2>3, ForgetSettles
    <2>. QED BY <1>3, <2>1, <2>2, <2>4, StepOn
<1>4. CASE ExpireReturns(a)
    BY <1>3, <1>4 DEF ExpireReturns
<1>5. CASE TakeReturns(a)
    BY <1>3, <1>5 DEF TakeReturns
<1>6. CASE DelReturns(a)
    <2>1. CASE job[a].known
        BY <1>3, <1>6, <2>1 DEF DelReturns
    <2>2. CASE ~ job[a].known
        <3>1. /\ Running(a, "del") /\ Return(a)
              /\ UNCHANGED <<keyv, keys, values, ttls, now, survivors, handed>>
            BY <1>6, <2>2 DEF DelReturns, process
        <3>2. PICK k \in Keys : k = job[a].key
            BY <3>1, ReturnEffect
        <3>3. /\ job[a] # None /\ job[a].op = "del" /\ StageOf(job[a])
              /\ job'[a] = None /\ \A b \in Actors \ {a} : job'[b] = job[b]
            BY <3>1, ReturnEffect
        <3>4. \A x \in Keys : SameAt(x)
            BY <3>1 DEF SameAt
        <3>5. Settled(k)'
            BY <2>2, <3>2, <3>3, <3>4, SettledFrame DEF StageOf
        <3>. QED BY <3>1, <3>2, <3>3, <3>4, <3>5, StepOn
    <2>. QED BY <2>1, <2>2
<1>7. CASE GetReturns(a)
    <2>1. /\ KeyvRead(a, "get") /\ Waiting(a, "get") /\ Return(a)
          /\ UNCHANGED <<keys, values, ttls, now, survivors, handed>>
        BY <1>7 DEF GetReturns, KeyvRead, process
    <2>2. PICK k \in Keys : k = job[a].key
        BY <2>1, ReturnEffect
    <2>3. /\ job[a] # None /\ job[a].op = "get" /\ StageOf(job[a])
          /\ job'[a] = None /\ \A b \in Actors \ {a} : job'[b] = job[b]
        BY <2>1, ReturnEffect
    <2>4. Settled(k)
        BY <2>2, <2>3 DEF StageOf
    <2>5. Settled(k)'
        <3>1. Consistent(k)'
            BY <2>1, <2>2, <2>4, ReadKeeps DEF Settled
        <3>. QED BY <2>1, <2>4, <3>1 DEF Settled, Fresh
    <2>6. \A x \in Keys \ {k} : SameAt(x)
        BY <2>1, <2>2, ReadElsewhere
    <2>. QED BY <2>1, <2>2, <2>3, <2>5, <2>6, StepOn
<1>8. CASE TakeFindsNone(a)
    <2>1. /\ Running(a, "take") /\ Return(a) /\ values[job[a].key] = None
          /\ UNCHANGED <<keyv, keys, values, ttls, now, survivors, handed>>
        BY <1>8 DEF TakeFindsNone, process
    <2>2. PICK k \in Keys : k = job[a].key
        BY <2>1, ReturnEffect
    <2>3. /\ job[a] # None /\ job[a].op = "take" /\ StageOf(job[a])
          /\ job'[a] = None /\ \A b \in Actors \ {a} : job'[b] = job[b]
        BY <2>1, ReturnEffect
    <2>4. \A x \in Keys : SameAt(x)
        BY <2>1 DEF SameAt
    <2>5. Settled(k)'
        BY <2>1, <2>2, <2>3, <2>4, SettledFrame DEF StageOf, Settled
    <2>. QED BY <2>1, <2>2, <2>3, <2>4, <2>5, StepOn
<1>9. CASE TakeRemoves(a)
    <2>1. /\ Running(a, "take") /\ values[job[a].key] # None
          /\ UNCHANGED <<keyv, keys, values, ttls, now, survivors, handed>>
        BY <1>9 DEF TakeRemoves, process
    <2>2. /\ job[a] # None /\ job[a].op = "take" /\ job[a] \in Calls
          /\ StageOf(job[a]) /\ job[a].key \in Keys
        BY <2>1, CallType DEF Running, Inv, Typed, Stage
    <2>3. PICK k \in Keys : k = job[a].key
        BY <2>2
    <2>. DEFINE j == [job[a] EXCEPT !.op = "remove", !.landed = FALSE]
    <2>4. /\ j \in Calls /\ j.op = "remove" /\ j.key = k /\ ~ j.landed
        BY <2>2, <2>3 DEF Calls, Ops
    <2>5. job' = [job EXCEPT ![a] = j]
        BY <1>9 DEF TakeRemoves, Inv, Typed, JobsOK
    <2>. HIDE DEF j
    <2>6. /\ job'[a] # None /\ job'[a].op = "remove" /\ job'[a].key = k
          /\ ~ job'[a].landed
          /\ \A b \in Actors \ {a} : job'[b] = job[b]
        BY <2>4, <2>5, NoneIsNoEntry DEF Inv, Typed, JobsOK
    <2>7. /\ Consistent(k) /\ values[k] # None
          /\ k \notin survivors => handed[k] <= 1
        BY <2>1, <2>2, <2>3 DEF StageOf
    <2>8. StageOf(job[a])'
        BY <2>1, <2>6, <2>7 DEF StageOf, Consistent, Maps
    <2>9. \A x \in Keys : SameAt(x)
        BY <2>1 DEF SameAt
    <2>. QED BY <2>1, <2>2, <2>3, <2>6, <2>8, <2>9, StepOn
<1>10. CASE ClearReturns(a)
    <2>1. /\ Running(a, "clear") /\ Return(a) /\ NothingTracked
          /\ UNCHANGED <<keyv, now, survivors, handed>>
        BY <1>10 DEF ClearReturns
    <2>2. /\ job[a] # None /\ job[a].key = None /\ StageOf(job[a])
          /\ job[a].op = "clear" /\ job[a].landed
          /\ job'[a] = None /\ \A b \in Actors \ {a} : job'[b] = job[b]
        BY <2>1 DEF Running, Return, Inv, Typed, JobsOK, CallOK, Stage
    <2>3. \A x \in Keys : Gone(x)
        BY <2>2 DEF StageOf
    <2>4. \A x \in Keys : Settled(x)'
        BY <2>1, <2>3
           DEF NothingTracked, Settled, Consistent, Maps, Fresh, Gone
    <2>. QED BY <2>2, <2>4, StepAll
<1>. QED BY <1>1, <1>2, <1>4, <1>5, <1>6, <1>7, <1>8, <1>9, <1>10 DEF Returns

LEMMA InvInit == Init => Inv
<1>. SUFFICES ASSUME Init PROVE Inv
    OBVIOUS
<1>1. \A a \in Actors : job[a] = None
    BY DEF Init
<1>2. Apart /\ \A a \in Actors : Stage(a)
    BY <1>1 DEF Apart, Stage
<1>3. \A k \in Keys : Settled(k)
    BY DEF Init, Settled, Consistent, Maps, Fresh
<1>. QED BY <1>2, <1>3, TypedInit DEF Inv

LEMMA InvClear ==
    ASSUME KeptApart, Inv, Typed', NEW a \in Callers, Clear(a)
    PROVE  Inv'
<1>. DEFINE known == FALSE
<1>1. /\ known \in BOOLEAN /\ Issue(a, "clear", None, None, 0, known)
      /\ UNCHANGED <<keyv, keys, values, ttls, now, survivors, handed>>
    BY DEF Clear, process
<1>. HIDE DEF known
<1>2. a \in Actors /\ 0 \in Lifetimes
    BY NodeCacheStoreAssumption DEF Actors
<1>3. /\ job[a] = None /\ Alone(a, None) /\ job'[a] # None
      /\ job'[a] = [op |-> "clear", key |-> None, value |-> None,
                    lifetime |-> 0, known |-> known, landed |-> FALSE]
      /\ \A b \in Actors \ {a} : job'[b] = job[b]
      /\ \A x \in Keys : Settled(x)
    BY <1>1, <1>2, IssueEffect DEF Ops
<1>4. job'[a].op = "clear" /\ job'[a].key = None /\ ~ job'[a].landed
    BY <1>3
<1>5. \A x \in Keys : Fresh(x)'
    BY <1>1, <1>3 DEF Settled, Fresh
<1>6. StageOf(job[a])'
    BY <1>4, <1>5 DEF StageOf
<1>. QED BY <1>2, <1>3, <1>4, <1>6, StepAll

LEMMA InvSweep ==
    ASSUME KeptApart, Inv, Typed', NEW entry \in sweep,
           SweepEntry(entry[1], entry[2])
    PROVE  Inv'
<1>1. PICK k \in Keys : k = entry[1]
    BY DEF Inv, Typed, TypeOK
<1>2. UNCHANGED <<keyv, keys, values, ttls, now, survivors, handed>>
    BY DEF SweepEntry, process
<1>3. now <= now' /\ Timer \in Actors
    BY <1>2 DEF Inv, Typed, TypeOK, Actors
<1>4. CASE UNCHANGED job
    BY <1>2, <1>3, <1>4, StepNone
<1>5. CASE handleExpired(Timer, k)
    <2>. DEFINE known == k \in keys
    <2>1. /\ Issue(Timer, "expire", k, None, 0, known) /\ known \in BOOLEAN
          /\ 0 \in Lifetimes
        BY <1>5, NodeCacheStoreAssumption DEF handleExpired
    <2>. HIDE DEF known
    <2>2. /\ job[Timer] = None /\ Alone(Timer, k) /\ job'[Timer] # None
          /\ job'[Timer] = [op |-> "expire", key |-> k, value |-> None,
                            lifetime |-> 0, known |-> known, landed |-> FALSE]
          /\ \A b \in Actors \ {Timer} : job'[b] = job[b]
          /\ Settled(k)
        BY <1>3, <2>1, IssueEffect DEF Ops
    <2>3. /\ job'[Timer].op = "expire" /\ job'[Timer].key = k
          /\ job'[Timer].known = known /\ ~ job'[Timer].landed
        BY <2>2
    <2>4. job'[Timer].known <=> k \in keys
        BY <2>3 DEF known
    <2>5. StageOf(job[Timer])'
        BY <1>2, <2>2, <2>3, <2>4
           DEF StageOf, Settled, Consistent, Maps, Fresh
    <2>6. now' = now /\ \A x \in Keys \ {k} : SameAt(x)
        BY <1>2 DEF SameAt
    <2>. QED BY <1>3, <2>2, <2>3, <2>5, <2>6, StepOn
<1>. QED BY <1>1, <1>4, <1>5 DEF SweepEntry

\* A new process tracks nothing, and every entry it finds is a survivor.
LEMMA InvRestart ==
    ASSUME Inv, Typed', NEW s \in Settings, Restart(s)
    PROVE  Inv'
<1>1. \A a \in Actors : job'[a] = None
    BY DEF Restart
<1>2. Apart' /\ \A a \in Actors : Stage(a)'
    BY <1>1 DEF Apart, Stage
<1>3. ASSUME NEW k \in Keys PROVE Settled(k)'
    BY DEF Restart, NothingTracked, Settled, Consistent, Maps, Fresh
<1>. QED BY <1>2, <1>3 DEF Inv

LEMMA InvStep ==
    ASSUME KeptApart, Inv, [Next]_vars
    PROVE  Inv'
<1>0. Typed' /\ now \in Nat
    BY TypedStep DEF Inv, Typed, TypeOK
<1>1. CASE Requests
    <2>1. Callers \subseteq Actors
        BY DEF Actors
    <2>. QED BY <1>0, <1>1, <2>1, InvClear, InvRequests DEF Requests
<1>2. CASE FlushStats \/ StartSweep \/ Tick \/ UNCHANGED vars
    <2>1. /\ UNCHANGED <<keyv, keys, values, ttls, job, survivors, handed>>
          /\ now <= now'
        BY <1>0, <1>2 DEF FlushStats, StartSweep, Tick, vars, process
    <2>. QED BY <1>0, <2>1, StepNone
<1>3. ASSUME NEW s \in Settings, Configure(s) PROVE Inv'
    <2>1. /\ UNCHANGED <<keyv, keys, values, ttls, job, survivors, handed>>
          /\ now <= now'
        BY <1>0, <1>3 DEF Configure, process
    <2>. QED BY <1>0, <2>1, StepNone
<1>4. ASSUME NEW a \in Actors, StoreAnswers(a) \/ Returns(a) PROVE Inv'
    BY <1>0, <1>4, InvAnswers, InvReturns
<1>5. ASSUME NEW entry \in sweep, SweepEntry(entry[1], entry[2]) PROVE Inv'
    BY <1>0, <1>5, InvSweep
<1>6. ASSUME NEW s \in Settings, Restart(s) PROVE Inv'
    BY <1>0, <1>6, InvRestart
<1>. QED BY <1>1, <1>2, <1>3, <1>4, <1>5, <1>6 DEF Next

LEMMA InvAlways ==
    ASSUME KeptApart
    PROVE  Spec => []Inv
<1>1. Inv /\ [Next]_vars => Inv'
    BY InvStep
<1>. QED BY InvInit, <1>1, PTL DEF Spec

-----------------------------------------------------------------------------

\* With calls on a key kept apart, _keys, _values and _ttls are of the same
\* keys whenever none is in flight, whatever the sweep and a restart do.
THEOREM SameKeysTracked ==
    ASSUME KeptApart
    PROVE  Spec => []MapsAgree
<1>1. Inv => MapsAgree
    BY DEF Inv, MapsAgree, Settled, Consistent, Maps
<1>. QED BY InvAlways, <1>1, PTL

\* They then describe what the store holds, but for the entries of an earlier
\* process.
THEOREM StoreDescribed ==
    ASSUME KeptApart
    PROVE  Spec => []StoreAgrees
<1>1. Inv => StoreAgrees
    BY DEF Inv, StoreAgrees, Settled, Consistent
<1>. QED BY InvAlways, <1>1, PTL

\* take, a read of the store and a later delete, then returns what this
\* process stored once only.
THEOREM TakeOnce ==
    ASSUME KeptApart
    PROVE  Spec => []TakenOnce
<1>1. Inv => TakenOnce
    <2>1. SUFFICES ASSUME Inv, NEW k \in Keys, k \notin survivors
                   PROVE  handed[k] <= 1
        BY DEF TakenOnce
    <2>2. CASE AtRest(k)
        BY <2>1, <2>2 DEF Inv, Settled, Fresh
    <2>3. ASSUME NEW a \in Actors, job[a] # None, job[a].key \in {k, None}
          PROVE  handed[k] <= 1
        <3>1. /\ job[a] \in Calls /\ StageOf(job[a])
              /\ job[a].op = "clear" <=> job[a].key = None
            BY <2>1, <2>3 DEF Inv, Stage, Typed, JobsOK, CallOK
        <3>2. CASE job[a].op = "clear"
            BY <2>1, <3>1, <3>2 DEF StageOf, Fresh, Gone
        <3>3. CASE job[a].op # "clear"
            <4>1. job[a].key = k /\ job[a].op \in Ops
                BY <2>3, <3>1, <3>3 DEF Calls
            <4>. QED BY <2>1, <3>1, <3>3, <4>1
                     DEF StageOf, Settled, Fresh, Gone, Ops
        <3>. QED BY <3>2, <3>3
    <2>. QED BY <2>2, <2>3 DEF AtRest
<1>. QED BY InvAlways, <1>1, PTL

-----------------------------------------------------------------------------
(* The count of keys.                                                       *)

Counted == {k \in Keys : values[k] # None} \ Overwritten

CountInv ==
    /\ IsFiniteSet(Counted)
    /\ ~ skewed => count = Cardinality(Counted)

LEMMA CountKept ==
    ASSUME CountInv, values' = values, Overwritten' = Overwritten,
           skewed' = TRUE \/ (skewed' = skewed /\ count' = count)
    PROVE  CountInv'
<1>1. Counted' = Counted
    BY DEF Counted
<1>. QED BY <1>1 DEF CountInv

LEMMA CountLess ==
    ASSUME CountInv, count \in Nat, NEW k \in Keys, Counted' = Counted \ {k},
           \/ skewed' = TRUE
           \/ /\ skewed' = skewed
              /\ count' = IF k \in Counted THEN Less(count) ELSE count
    PROVE  CountInv'
<1>1. /\ IsFiniteSet(Counted') /\ IsFiniteSet(Counted)
      /\ Cardinality(Counted') = IF k \in Counted THEN Cardinality(Counted) - 1
                                                 ELSE Cardinality(Counted)
    BY FS_RemoveElement DEF CountInv
<1>2. Cardinality(Counted') \in Nat
    BY <1>1, FS_CardinalityType
<1>. QED BY <1>1, <1>2 DEF CountInv, Less

LEMMA CountMore ==
    ASSUME CountInv, NEW k \in Keys, k \notin Counted,
           Counted' = Counted \cup {k}, skewed' = skewed, count' = count + 1
    PROVE  CountInv'
BY FS_AddElement DEF CountInv

LEMMA CountNone ==
    ASSUME NothingTracked
    PROVE  CountInv'
<1>1. Counted' = {}
    BY DEF NothingTracked, Counted
<1>. QED BY <1>1, FS_EmptySet DEF NothingTracked, CountInv

\* A step of a call that is no set overwrites nothing new.
LEMMA OverwrittenSame ==
    ASSUME NEW a \in Actors, \A b \in Actors \ {a} : job'[b] = job[b],
           job[a] = None \/ job[a].op # "set",
           job'[a] = None \/ job'[a].op # "set"
    PROVE  Overwritten' = Overwritten
<1>. SUFFICES ASSUME NEW k \in Keys
              PROVE  (\E b \in Actors : /\ job'[b] # None /\ job'[b].op = "set"
                                        /\ job'[b].key = k)
                     <=> (\E b \in Actors : /\ job[b] # None /\ job[b].op = "set"
                                            /\ job[b].key = k)
    BY DEF Overwritten
<1>. QED OBVIOUS

\* An answer of the store leaves operation and key.
LEMMA OverwrittenAnswer ==
    ASSUME NEW a \in Actors, \A b \in Actors \ {a} : job'[b] = job[b],
           job[a] # None, job'[a] # None, job'[a].op = job[a].op,
           job'[a].key = job[a].key
    PROVE  Overwritten' = Overwritten
<1>. SUFFICES ASSUME NEW k \in Keys
              PROVE  (\E b \in Actors : /\ job'[b] # None /\ job'[b].op = "set"
                                        /\ job'[b].key = k)
                     <=> (\E b \in Actors : /\ job[b] # None /\ job[b].op = "set"
                                            /\ job[b].key = k)
    BY DEF Overwritten
<1>. QED OBVIOUS

LEMMA CountAnswers ==
    ASSUME KeptApart, Inv, CountInv, NEW a \in Actors, StoreAnswers(a)
    PROVE  CountInv'
<1>1. PICK v \in Values \cup {None}, known \in BOOLEAN :
          /\ job[a] # None /\ Answer(a, v, known)
          /\ job[a].op \in {"set", "setTtl"} => v # None
    <2>1. CASE KeyvTake(a)
        <3>. DEFINE k == job[a].key
                    v == IF keyv'[k] = None THEN None ELSE keyv[k].value
                    known == FALSE
        <3>1. KeyvRead(a, "take") /\ Answer(a, v, known) /\ known \in BOOLEAN
            BY <2>1 DEF KeyvTake
        <3>2. /\ job[a] # None /\ job[a].op = "take" /\ v \in Values \cup {None}
            BY <3>1, TypedRead DEF Inv, Entries
        <3>. HIDE DEF v, known
        <3>. QED BY <3>1, <3>2
    <2>2. CASE KeyvClear(a)
        <3>. DEFINE known == TRUE
        <3>1. /\ job[a] # None /\ job[a].op = "clear" /\ Answer(a, None, known)
              /\ known \in BOOLEAN
            BY <2>2 DEF KeyvClear, Waiting
        <3>. HIDE DEF known
        <3>. QED BY <3>1
    <2>3. CASE KeyvSet(a) \/ KeyvSetAgain(a)
        <3>1. /\ job[a] # None /\ job[a].op \in {"set", "setTtl"}
              /\ Answer(a, job[a].value, job[a].known)
            BY <2>3 DEF KeyvSet, KeyvSetAgain, Put, Waiting
        <3>2. /\ job[a].value \in Values \cup {None} /\ job[a].known \in BOOLEAN
              /\ job[a].value # None
            BY <3>1, CallType, NodeCacheStoreAssumption DEF Inv, Typed, Calls
        <3>. QED BY <3>1, <3>2
    <2>4. CASE KeyvDelete(a)
        <3>1. PICK op \in {"del", "remove", "expire"} :
                  /\ job[a] # None /\ job[a].op = op
                  /\ Answer(a, job[a].value,
                            IF op = "del" THEN keyv[job[a].key] # None
                                          ELSE job[a].known)
            BY <2>4 DEF KeyvDelete, Waiting
        <3>. DEFINE known == IF op = "del" THEN keyv[job[a].key] # None
                                           ELSE job[a].known
        <3>2. /\ job[a].value \in Values \cup {None} /\ known \in BOOLEAN
              /\ Answer(a, job[a].value, known) /\ op \notin {"set", "setTtl"}
            BY <3>1, CallType DEF Inv, Typed, Calls
        <3>. HIDE DEF known
        <3>. QED BY <3>1, <3>2
    <2>. QED BY <2>1, <2>2, <2>3, <2>4 DEF StoreAnswers
<1>2. /\ job'[a] # None /\ job'[a].op = job[a].op /\ job'[a].key = job[a].key
      /\ \A b \in Actors \ {a} : job'[b] = job[b]
    BY <1>1, AnswerType DEF Inv, Typed
<1>3. Overwritten' = Overwritten
    BY <1>1, <1>2, OverwrittenAnswer
<1>4. values' = values /\ skewed' = skewed /\ count' = count
    BY DEF StoreAnswers, KeyvSet, KeyvSetAgain, KeyvTake, KeyvDelete,
           KeyvClear, Put, KeyvRead, process
<1>. QED BY <1>3, <1>4, CountKept

LEMMA CountIssue ==
    ASSUME Inv, CountInv, NEW a \in Actors, NEW op \in Ops \ {"set"},
           NEW k \in Keys \cup {None}, NEW v \in Values \cup {None},
           NEW t \in Lifetimes, NEW known \in BOOLEAN,
           Issue(a, op, k, v, t, known),
           UNCHANGED <<values, count, skewed>>
    PROVE  CountInv'
<1>1. /\ job[a] = None
      /\ job'[a] = [op |-> op, key |-> k, value |-> v, lifetime |-> t,
                    known |-> known, landed |-> FALSE]
      /\ \A b \in Actors \ {a} : job'[b] = job[b]
    BY DEF Issue, Inv, Typed, JobsOK
<1>2. job'[a].op # "set"
    BY <1>1
<1>. QED BY <1>1, <1>2, OverwrittenSame, CountKept

LEMMA CountSet ==
    ASSUME KeptApart, Inv, CountInv, NEW a \in Callers, NEW k \in Keys,
           NEW v \in Values, NEW t \in Lifetimes, Set(a, k, v, t)
    PROVE  CountInv'
<1>. DEFINE known == values[k] # None
<1>1. a \in Actors /\ Issue(a, "set", k, v, t, known)
    BY DEF Set, Actors
<1>. HIDE DEF known
<1>2. /\ job[a] = None
      /\ job'[a] = [op |-> "set", key |-> k, value |-> v, lifetime |-> t,
                    known |-> known, landed |-> FALSE]
      /\ \A b \in Actors \ {a} : /\ job'[b] = job[b]
                                 /\ job[b] # None => job[b].key # k
    BY <1>1 DEF Issue, Alone, KeptApart, Inv, Typed, JobsOK
<1>3. job'[a] # None /\ job'[a].op = "set" /\ job'[a].key = k
    <2>1. v \in Values \cup {None} /\ k \in Keys \cup {None} /\ known \in BOOLEAN
        BY DEF known
    <2>2. job'[a] \in Calls
        BY <1>2, <2>1 DEF Calls, Ops
    <2>3. job'[a].op = "set" /\ job'[a].key = k
        BY <1>2
    <2>. QED BY <2>2, <2>3, NoneIsNoEntry
<1>4. k \notin Overwritten /\ Overwritten' = Overwritten \cup {k}
    <2>1. k \notin Overwritten
        BY <1>2 DEF Overwritten
    <2>2. \A x \in Keys : x \in Overwritten' <=> x \in Overwritten \/ x = k
        BY <1>1, <1>2, <1>3 DEF Overwritten
    <2>. QED BY <2>1, <2>2 DEF Overwritten
<1>5. values' = values /\ skewed' = skewed /\ count \in Nat
    BY DEF Set, Inv, Typed, TypeOK
<1>6. Counted' = Counted \ {k}
    BY <1>4, <1>5 DEF Counted
<1>7. k \in Counted <=> values[k] # None
    BY <1>4 DEF Counted
<1>8. count' = IF k \in Counted THEN Less(count) ELSE count
    BY <1>7 DEF Set
<1>. QED BY <1>5, <1>6, <1>8, CountLess

\* A call that forgets its key takes it out of those that count.
LEMMA CountForget ==
    ASSUME KeptApart, Inv, CountInv, NEW a \in Actors, NEW k \in Keys,
           job[a] # None, job[a].key = k, job[a].op # "set", Return(a), Forget(k),
           \/ skewed' = TRUE
           \/ /\ skewed' = skewed
              /\ count' = IF values[k] # None THEN Less(count) ELSE count
    PROVE  CountInv'
<1>1. job'[a] = None /\ \A b \in Actors \ {a} : job'[b] = job[b]
    BY DEF Return, Inv, Typed, JobsOK
<1>2. Overwritten' = Overwritten
    BY <1>1, OverwrittenSame
<1>3. k \notin Overwritten
    BY DEF Overwritten, Inv, Apart
<1>4. values' = [values EXCEPT ![k] = None] /\ count \in Nat
      /\ values \in [Keys -> Values \cup {None}]
    BY DEF Forget, Inv, Typed, TypeOK
<1>5. Counted' = Counted \ {k}
    BY <1>2, <1>4 DEF Counted
<1>6. k \in Counted <=> values[k] # None
    BY <1>3 DEF Counted
<1>. QED BY <1>4, <1>5, <1>6, CountLess

LEMMA CountReturns ==
    ASSUME KeptApart, Inv, CountInv, NEW a \in Actors, Returns(a)
    PROVE  CountInv'
<1>1. CASE SetReturns(a)
    <2>1. /\ Running(a, "set") /\ Return(a)
          /\ skewed' = skewed /\ count' = count + 1
        BY <1>1 DEF SetReturns
    <2>2. PICK k \in Keys : k = job[a].key
        BY <2>1, ReturnEffect
    <2>3. /\ job[a] # None /\ job[a].op = "set" /\ job[a].value \in Values
          /\ job'[a] = None /\ \A b \in Actors \ {a} : job'[b] = job[b]
        BY <2>1, ReturnEffect, CallType DEF Inv, Typed
    <2>4. k \in Overwritten /\ Overwritten' = Overwritten \ {k}
        <3>1. k \in Overwritten
            BY <2>2, <2>3 DEF Overwritten
        <3>2. \A b \in Actors \ {a} : job[b] # None => job[b].key # k
            BY <2>2, <2>3 DEF Inv, Apart
        <3>3. \A x \in Keys : x \in Overwritten' <=> x \in Overwritten /\ x # k
            BY <2>2, <2>3, <3>2 DEF Overwritten
        <3>. QED BY <3>1, <3>3 DEF Overwritten
    <2>5. values' = [values EXCEPT ![k] = job[a].value]
          /\ values \in [Keys -> Values \cup {None}]
        BY <1>1, <2>2 DEF SetReturns, Inv, Typed, TypeOK
    <2>6. values'[k] # None /\ \A x \in Keys \ {k} : values'[x] = values[x]
        BY <2>3, <2>5, NodeCacheStoreAssumption
    <2>7. k \notin Counted /\ Counted' = Counted \cup {k}
        BY <2>4, <2>6 DEF Counted
    <2>. QED BY <2>1, <2>7, CountMore
<1>2. ASSUME NEW op \in {"setTtl", "get", "take"},
             Running(a, op) \/ Waiting(a, op), Return(a),
             UNCHANGED <<values, count, skewed>>
      PROVE  CountInv'
    <2>1. /\ job[a] # None /\ job[a].op = op
          /\ job'[a] = None /\ \A b \in Actors \ {a} : job'[b] = job[b]
        BY <1>2, ReturnEffect
    <2>2. Overwritten' = Overwritten
        BY <2>1, OverwrittenSame
    <2>. QED BY <1>2, <2>2, CountKept
<1>3. CASE SetTtlReturns(a)
    BY <1>2, <1>3 DEF SetTtlReturns
<1>4. CASE GetReturns(a)
    BY <1>2, <1>4 DEF GetReturns, KeyvRead, process
<1>5. CASE TakeFindsNone(a)
    BY <1>2, <1>5 DEF TakeFindsNone, process
<1>6. CASE TakeRemoves(a)
    <2>1. job[a] # None /\ job[a].op = "take" /\ job[a] \in Calls
        BY <1>6, CallType DEF TakeRemoves, Running, Inv, Typed
    <2>. DEFINE j == [job[a] EXCEPT !.op = "remove", !.landed = FALSE]
    <2>2. j.op # "set"
        BY <2>1 DEF Calls
    <2>3. job' = [job EXCEPT ![a] = j]
        BY <1>6 DEF TakeRemoves, Inv, Typed, JobsOK
    <2>. HIDE DEF j
    <2>4. job'[a].op # "set" /\ \A b \in Actors \ {a} : job'[b] = job[b]
        BY <2>2, <2>3 DEF Inv, Typed, JobsOK
    <2>5. UNCHANGED <<values, count, skewed>>
        BY <1>6 DEF TakeRemoves, process
    <2>. QED BY <2>1, <2>4, <2>5, OverwrittenSame, CountKept
<1>7. ASSUME NEW op \in {"expire", "remove", "del"}, Running(a, op), Return(a),
             Forget(job[a].key),
             \/ skewed' = TRUE
             \/ /\ skewed' = skewed
                /\ count' = IF job[a].key \in keys THEN Less(count) ELSE count
      PROVE  CountInv'
    <2>1. PICK k \in Keys : k = job[a].key
        BY <1>7, ReturnEffect
    <2>2. job[a] # None /\ job[a].op = op /\ StageOf(job[a])
        BY <1>7, ReturnEffect
    <2>3. k \in keys <=> values[k] # None
        BY <2>1, <2>2 DEF StageOf, Maps
    <2>. QED BY <1>7, <2>1, <2>2, <2>3, CountForget
<1>8. CASE ExpireReturns(a)
    <2>1. job[a].known <=> job[a].key \in keys
        BY <1>8, ReturnEffect DEF ExpireReturns, StageOf
    <2>2. /\ Running(a, "expire") /\ Return(a) /\ Forget(job[a].key)
          /\ skewed' = skewed
          /\ count' = IF job[a].known THEN Less(count) ELSE count
        BY <1>8 DEF ExpireReturns
    <2>3. count' = IF job[a].key \in keys THEN Less(count) ELSE count
        BY <2>1, <2>2
    <2>. QED BY <1>7, <2>2, <2>3
<1>9. CASE TakeReturns(a)
    <2>1. job[a].key \in keys
        BY <1>9, ReturnEffect DEF TakeReturns, StageOf
    <2>. QED BY <1>7, <1>9, <2>1 DEF TakeReturns
<1>10. CASE DelReturns(a)
    <2>1. CASE job[a].known
        <3>1. /\ Running(a, "del") /\ Return(a) /\ Forget(job[a].key)
              /\ count' = Less(count)
              /\ skewed' = (skewed \/ job[a].key \notin keys)
            BY <1>10, <2>1 DEF DelReturns
        <3>2. skewed \in BOOLEAN
            BY DEF Inv, Typed, TypeOK
        <3>. QED BY <1>7, <3>1, <3>2
    <2>2. CASE ~ job[a].known
        <3>1. /\ Running(a, "del") /\ Return(a)
              /\ UNCHANGED <<values, count, skewed>>
            BY <1>10, <2>2 DEF DelReturns, process
        <3>2. /\ job[a] # None /\ job[a].op = "del"
              /\ job'[a] = None /\ \A b \in Actors \ {a} : job'[b] = job[b]
            BY <3>1, ReturnEffect
        <3>. QED BY <3>1, <3>2, OverwrittenSame, CountKept
    <2>. QED BY <2>1, <2>2
<1>11. CASE ClearReturns(a)
    BY <1>11, CountNone DEF ClearReturns
<1>. QED BY <1>1, <1>3, <1>4, <1>5, <1>6, <1>8, <1>9, <1>10, <1>11 DEF Returns

LEMMA CountStep ==
    ASSUME KeptApart, Inv, CountInv, [Next]_vars
    PROVE  CountInv'
<1>. /\ Callers \subseteq Actors /\ Timer \in Actors /\ 0 \in Lifetimes
     /\ {"expire", "get", "take", "del", "setTtl", "clear"} \subseteq Ops \ {"set"}
    BY NodeCacheStoreAssumption DEF Actors, Ops
<1>1. CASE Requests
    <2>1. PICK a \in Callers :
              \/ Clear(a)
              \/ \E k \in Keys :
                    \/ AccessExpired(a, k) \/ Get(a, k) \/ Del(a, k)
                    \/ \E t \in Lifetimes :
                          \/ SetTtl(a, k, t)
                          \/ \E v \in Values : Set(a, k, v, t)
        BY <1>1 DEF Requests
    <2>2. CASE Clear(a)
        <3>. DEFINE known == FALSE
        <3>1. /\ Issue(a, "clear", None, None, 0, known) /\ known \in BOOLEAN
              /\ UNCHANGED <<values, count, skewed>>
            BY <2>2 DEF Clear, process
        <3>. HIDE DEF known
        <3>. QED BY <3>1, CountIssue
    <2>3. ASSUME NEW k \in Keys, AccessExpired(a, k) PROVE CountInv'
        <3>. DEFINE known == k \in keys
        <3>1. /\ Issue(a, "expire", k, None, 0, known) /\ known \in BOOLEAN
              /\ UNCHANGED <<values, count, skewed>>
            BY <2>3 DEF AccessExpired, handleExpired, process
        <3>. HIDE DEF known
        <3>. QED BY <3>1, CountIssue
    <2>4. ASSUME NEW k \in Keys, Get(a, k) PROVE CountInv'
        <3>. DEFINE known == FALSE
        <3>1. /\ \E op \in {"get", "take"} : Issue(a, op, k, None, 0, known)
              /\ known \in BOOLEAN /\ UNCHANGED <<values, count, skewed>>
            BY <2>4 DEF Get, process
        <3>. HIDE DEF known
        <3>. QED BY <3>1, CountIssue
    <2>5. ASSUME NEW k \in Keys, Del(a, k) PROVE CountInv'
        <3>. DEFINE known == FALSE
        <3>1. /\ Issue(a, "del", k, None, 0, known) /\ known \in BOOLEAN
              /\ UNCHANGED <<values, count, skewed>>
            BY <2>5 DEF Del, process
        <3>. HIDE DEF known
        <3>. QED BY <3>1, CountIssue
    <2>6. ASSUME NEW k \in Keys, NEW t \in Lifetimes, SetTtl(a, k, t)
          PROVE  CountInv'
        <3>. DEFINE known == TRUE
        <3>1. /\ Issue(a, "setTtl", k, values[k], t, known) /\ known \in BOOLEAN
              /\ UNCHANGED <<values, count, skewed>>
              /\ values[k] \in Values \cup {None}
            BY <2>6 DEF SetTtl, process, Inv, Typed, TypeOK
        <3>. HIDE DEF known
        <3>. QED BY <3>1, CountIssue
    <2>. QED BY <2>1, <2>2, <2>3, <2>4, <2>5, <2>6, CountSet
<1>2. ASSUME \/ FlushStats \/ Tick \/ StartSweep \/ UNCHANGED vars
             \/ \E s \in Settings : Configure(s)
      PROVE  CountInv'
    <2>1. /\ job' = job /\ values' = values
          /\ skewed' = TRUE \/ (skewed' = skewed /\ count' = count)
        BY <1>2 DEF FlushStats, Tick, StartSweep, Configure, vars, process
    <2>2. Overwritten' = Overwritten
        BY <2>1 DEF Overwritten
    <2>. QED BY <2>1, <2>2, CountKept
<1>3. ASSUME NEW a \in Actors, StoreAnswers(a) \/ Returns(a) PROVE CountInv'
    BY <1>3, CountAnswers, CountReturns
<1>4. ASSUME NEW entry \in sweep, SweepEntry(entry[1], entry[2])
      PROVE  CountInv'
    <2>1. PICK k \in Keys : k = entry[1]
        BY DEF Inv, Typed, TypeOK
    <2>2. UNCHANGED <<values, count, skewed>>
        BY <1>4 DEF SweepEntry, process
    <2>3. CASE UNCHANGED job
        <3>1. Overwritten' = Overwritten
            BY <2>3 DEF Overwritten
        <3>. QED BY <2>2, <3>1, CountKept
    <2>4. CASE handleExpired(Timer, k)
        <3>. DEFINE known == k \in keys
        <3>1. Issue(Timer, "expire", k, None, 0, known) /\ known \in BOOLEAN
            BY <2>4 DEF handleExpired
        <3>. HIDE DEF known
        <3>. QED BY <2>2, <3>1, CountIssue
    <2>. QED BY <1>4, <2>1, <2>3, <2>4 DEF SweepEntry
<1>5. ASSUME NEW s \in Settings, Restart(s) PROVE CountInv'
    BY <1>5, CountNone DEF Restart
<1>. QED BY <1>1, <1>2, <1>3, <1>4, <1>5 DEF Next

\* getStats().keys, which set takes down before its await and up after it, is
\* then the number of keys, unless flushStats or the deletion of an earlier
\* process's entry put it out of step.
THEOREM CountRight ==
    ASSUME KeptApart
    PROVE  Spec => []CountIsKeys
<1>1. Init => CountInv
    <2>1. SUFFICES ASSUME Init PROVE CountInv
        OBVIOUS
    <2>2. Counted = {} /\ count = 0
        BY <2>1 DEF Init, Counted
    <2>. QED BY <2>2, FS_EmptySet DEF CountInv
<1>2. Inv /\ CountInv /\ [Next]_vars => CountInv'
    BY CountStep
<1>3. CountInv => CountIsKeys
    BY DEF CountInv, CountIsKeys, Counted
<1>. QED BY InvAlways, <1>1, <1>2, <1>3, PTL DEF Spec

\* What the process keeps then describes the store, with the exceptions named.
THEOREM DescriptionHolds ==
    ASSUME KeptApart
    PROVE  Spec => []ProcessDescribesStore
BY SameKeysTracked, StoreDescribed, CountRight, PTL DEF ProcessDescribesStore

=============================================================================
