-------------------------- MODULE CacheManagerProofs --------------------------
(***************************************************************************)
(* Theorems about CacheManager: types, what an undisturbed write            *)
(* supersedes, how long copying can keep a value, and who waits for whom.   *)
(***************************************************************************)
EXTENDS CacheManager, TLAPS

\* A wrap that has read a copy has a value.
SeenValue == \A c \in Callers : At(c, "seen") => call[c].value \in Versions

\* Requests that have an owner are waited for.
OwnersWait ==
    \A r \in requests : r.by # Background => At(r.by, "write")

TypeInv == TypeOK /\ SeenValue /\ OwnersWait

CallTypes == [Callers -> Calls \cup {None}]

-----------------------------------------------------------------------------
(* Lemmas on the operators the actions are built from.                      *)

LEMMA SettledType ==
    ASSUME call \in CallTypes, NEW c \in Callers
    PROVE  /\ Settled(c) \in CallTypes
           /\ Settled(c)[c] = None
           /\ \A d \in Callers : Settled(c)[d] \in {None, call[d]}
           /\ \A d \in Callers \ {c} : At(d, "write") => Settled(c)[d] = call[d]
BY DEF Settled, CallTypes, At

LEMMA DisturbedType ==
    ASSUME NEW calls \in CallTypes
    PROVE  /\ Disturbed(calls) \in CallTypes
           /\ \A d \in Callers : calls[d] = None <=> Disturbed(calls)[d] = None
           /\ \A d \in Callers : calls[d] # None =>
                  Disturbed(calls)[d] = [calls[d] EXCEPT !.clean = FALSE]
BY NoneIsNoRecord DEF Disturbed, CallTypes, Calls

LEMMA NewCallType ==
    ASSUME NEW op \in {"wrap", "set", "del"},
           NEW at \in {"look", "seen", "run", "write", "wait"},
           NEW ttl \in Nat, NEW threshold \in Nat
    PROVE  NewCall(op, at, ttl, threshold) \in Calls
BY CacheManagerAssumption DEF NewCall, Calls, Stores, Never

LEMMA WritesType ==
    ASSUME NEW owner \in Owners, NEW to \in SUBSET Stores,
           NEW value \in Versions \cup {None}, NEW ttl \in Nat, NEW age \in Int
    PROVE  /\ Writes(owner, to, value, ttl, age) \subseteq Requests
           /\ \A r \in Writes(owner, to, value, ttl, age) :
                  /\ r.by = owner /\ r.store \in to /\ r.value = value
                  /\ r.ttl = ttl /\ r.age = age
           /\ \A s \in to : \E r \in Writes(owner, to, value, ttl, age) :
                  r.store = s
<1> DEFINE W == Writes(owner, to, value, ttl, age)
<1>1. \A s \in to : s \in Stores
    OBVIOUS
<1>2. \A r \in W : \E s \in to :
          r = [by |-> owner, store |-> s, value |-> value, ttl |-> ttl,
               age |-> age]
    BY DEF Writes
<1>3. \A s \in to :
          [by |-> owner, store |-> s, value |-> value, ttl |-> ttl,
           age |-> age] \in W
    BY DEF Writes
<1>4. W \subseteq Requests
    BY <1>1, <1>2 DEF Requests
<1>5. \A r \in W :
          /\ r.by = owner /\ r.store \in to /\ r.value = value
          /\ r.ttl = ttl /\ r.age = age
    BY <1>2
<1>6. \A s \in to : \E r \in W : r.store = s
    BY <1>3
<1> QED
    BY <1>4, <1>5, <1>6

\* A write of a call that did not wait for one yet.
LEMMA WriteType ==
    ASSUME TypeInv, NEW c \in Callers, ~ At(c, "write"),
           NEW op \in {"wrap", "set", "del"}, NEW to \in SUBSET Stores,
           NEW value \in Versions \cup {None}, NEW ttl \in Nat, NEW age \in Int,
           Write(c, op, to, value, ttl, age)
    PROVE  /\ call' \in CallTypes
           /\ requests' \subseteq Requests
           /\ SeenValue' /\ OwnersWait'
<1> DEFINE owner == IF options.nonBlocking THEN Background ELSE c
           new == NewCall(op, "write", 0, 0)
           clean == requests = {} /\ to = Stores
           written == [new EXCEPT !.value = value, !.clean = clean]
           W == Writes(owner, to, value, ttl, age)
<1>1. /\ call \in CallTypes /\ requests \subseteq Requests
      /\ SeenValue /\ OwnersWait
    BY DEF TypeInv, TypeOK, CallTypes
<1>2. owner \in Owners
    BY DEF Owners
<1>3. /\ W \subseteq Requests /\ \A r \in W : r.by = owner
      /\ requests' = requests \cup W
    BY <1>2, WritesType DEF Write
<1>4. new \in Calls
    BY NewCallType
<1>5. written \in Calls /\ written.at = "write" /\ written # None
    <2>1. clean \in BOOLEAN
        OBVIOUS
    <2>2. new.at = "write"
        BY DEF NewCall
    <2> HIDE DEF clean, new
    <2>3. written \in Calls /\ written.at = "write"
        BY <1>4, <2>1, <2>2 DEF Calls
    <2> QED
        BY <2>3, NoneIsNoRecord
<1> HIDE DEF written, new, W
<1>6. CASE options.nonBlocking
    <2>1. call' = Disturbed(Settled(c))
        BY <1>6 DEF Write
    <2>2. Settled(c) \in CallTypes
        BY <1>1, SettledType
    <2>3. call' \in CallTypes
        BY <2>1, <2>2, DisturbedType
    <2>4. \A d \in Callers : call'[d] # None =>
              call[d] # None /\ call'[d] = [call[d] EXCEPT !.clean = FALSE]
        BY <1>1, <2>1, <2>2, DisturbedType, SettledType
    <2>5. \A d \in Callers : At(d, "write") => call'[d] # None
        BY <1>1, <2>1, <2>2, DisturbedType, SettledType DEF At
    <2>6. \A d \in Callers : call'[d] # None =>
              /\ call[d] \in Calls
              /\ call'[d].at = call[d].at /\ call'[d].value = call[d].value
        <3> SUFFICES ASSUME NEW d \in Callers, call'[d] # None
                     PROVE  /\ call[d] \in Calls
                            /\ call'[d].at = call[d].at
                            /\ call'[d].value = call[d].value
            OBVIOUS
        <3>1. call[d] \in Calls
            BY <1>1, <2>4 DEF CallTypes
        <3>2. call'[d] = [call[d] EXCEPT !.clean = FALSE]
            BY <2>4
        <3> QED
            BY <3>1, <3>2 DEF Calls
    <2>7. SeenValue'
        BY <1>1, <2>4, <2>6 DEF SeenValue, At
    <2>8. owner = Background
        BY <1>6
    <2>9. OwnersWait'
        <3> SUFFICES ASSUME NEW r \in requests', r.by # Background
                     PROVE  At(r.by, "write")'
            BY DEF OwnersWait
        <3>1. r \in requests /\ r.by \in Callers
            BY <1>1, <1>3, <2>8 DEF Requests, Owners
        <3>2. At(r.by, "write")
            BY <1>1, <3>1 DEF OwnersWait
        <3> QED
            BY <2>5, <2>6, <3>1, <3>2 DEF At
    <2> QED
        BY <1>1, <1>3, <2>3, <2>7, <2>9
<1>7. CASE ~ options.nonBlocking
    <2>1. call' = [Disturbed(call) EXCEPT ![c] = written]
        BY <1>7 DEF Write, written, new, clean
    <2>2. /\ Disturbed(call) \in CallTypes
          /\ \A d \in Callers : call[d] = None <=> Disturbed(call)[d] = None
          /\ \A d \in Callers : call[d] # None =>
                 Disturbed(call)[d] = [call[d] EXCEPT !.clean = FALSE]
        BY <1>1, DisturbedType
    <2>3. call' \in CallTypes /\ call'[c] = written
        BY <1>5, <2>1, <2>2 DEF CallTypes
    <2>4. \A d \in Callers \ {c} : call'[d] = Disturbed(call)[d]
        BY <2>1, <2>2 DEF CallTypes
    <2>5. \A d \in Callers \ {c} : call'[d] # None =>
              /\ call[d] \in Calls /\ call[d] # None
              /\ call'[d].at = call[d].at /\ call'[d].value = call[d].value
        BY <1>1, <2>2, <2>4 DEF CallTypes, Calls
    <2>6. SeenValue'
        BY <1>1, <1>5, <2>3, <2>5 DEF SeenValue, At
    <2>7. OwnersWait'
        <3> SUFFICES ASSUME NEW r \in requests', r.by # Background
                     PROVE  At(r.by, "write")'
            BY DEF OwnersWait
        <3>1. CASE r \in W
            <4>1. r.by = c
                BY <1>3, <1>7, <3>1
            <4> QED
                BY <1>5, <2>3, <4>1 DEF At
        <3>2. CASE r \in requests
            <4>1. r.by \in Callers /\ At(r.by, "write") /\ r.by # c
                BY <1>1, <3>2 DEF OwnersWait, Requests, Owners
            <4>2. call'[r.by] # None
                BY <2>2, <2>4, <4>1 DEF At
            <4> QED
                BY <2>5, <4>1, <4>2 DEF At
        <3> QED
            BY <1>3, <3>1, <3>2
    <2> QED
        BY <1>1, <1>3, <2>3, <2>6, <2>7
<1> QED
    BY <1>6, <1>7

LEMMA SettleStep ==
    ASSUME TypeInv, NEW c \in Callers, ~ At(c, "write"),
           call' = Settled(c), requests' = requests
    PROVE  call' \in CallTypes /\ SeenValue' /\ OwnersWait'
<1>1. call \in CallTypes /\ requests \subseteq Requests
    BY DEF TypeInv, TypeOK, CallTypes
<1>2. /\ call' \in CallTypes
      /\ \A d \in Callers : call'[d] \in {None, call[d]}
      /\ \A d \in Callers : At(d, "write") => call'[d] = call[d]
    BY <1>1, SettledType
<1>3. SeenValue'
    BY <1>2 DEF TypeInv, SeenValue, At
<1>4. OwnersWait'
    BY <1>1, <1>2 DEF TypeInv, OwnersWait, At, Requests, Owners
<1> QED
    BY <1>2, <1>3, <1>4

\* Caller c, which waits for no request, goes on to the record `new'.
LEMMA MoveStep ==
    ASSUME TypeInv, NEW c \in Callers, ~ At(c, "write"), NEW new \in Calls,
           new.at = "seen" => new.value \in Versions,
           call' = [call EXCEPT ![c] = new], requests' = requests
    PROVE  call' \in CallTypes /\ SeenValue' /\ OwnersWait'
<1>1. call \in CallTypes /\ requests \subseteq Requests
    BY DEF TypeInv, TypeOK, CallTypes
<1>2. /\ call' \in CallTypes /\ call'[c] = new
      /\ \A d \in Callers \ {c} : call'[d] = call[d]
    BY <1>1 DEF CallTypes
<1>3. SeenValue'
    BY <1>2 DEF TypeInv, SeenValue, At
<1>4. OwnersWait'
    BY <1>1, <1>2 DEF TypeInv, OwnersWait, At, Requests, Owners
<1> QED
    BY <1>2, <1>3, <1>4

LEMMA NewValueType ==
    ASSUME TypeOK, NEW ttls, NewValue(ttls)
    PROVE  /\ version' \in 0..MaxVersion /\ version' \in Versions
           /\ allowed' \subseteq Versions /\ endless' \subseteq Versions
           /\ allowed' = allowed \cup {version'}
           /\ endless \subseteq endless'
           /\ 0 \in ttls => version' \in endless'
BY CacheManagerAssumption DEF NewValue, TypeOK, Versions

-----------------------------------------------------------------------------
(* Types.                                                                   *)

LEMMA TypeInit == Init => TypeInv
<1> SUFFICES ASSUME Init PROVE TypeInv
    OBVIOUS
<1>1. TypeOK
    BY CacheManagerAssumption DEF Init, TypeOK, Requests, Refreshes
<1>2. SeenValue
    BY DEF Init, SeenValue, At
<1>3. OwnersWait
    BY DEF Init, OwnersWait
<1> QED
    BY <1>1, <1>2, <1>3 DEF TypeInv

LEMMA TypeCalling ==
    ASSUME TypeInv, NEW c \in Callers, Calling(c)
    PROVE  TypeInv'
<1>1. call[c] = None => ~ At(c, "write")
    BY DEF At
<1>2. TypeOK
    BY DEF TypeInv
<1>3. CASE Del(c)
    <2>1. Write(c, "del", Stores, None, 0, 0) /\ ~ At(c, "write")
        BY <1>1, <1>3 DEF Del
    <2>2. /\ call' \in CallTypes /\ requests' \subseteq Requests
          /\ SeenValue' /\ OwnersWait'
        BY <2>1, WriteType
    <2> QED
        BY <1>2, <1>3, <2>2 DEF Del, TypeInv, TypeOK, CallTypes
<1>4. ASSUME NEW ttl \in Ttls, Set(c, ttl)
      PROVE  TypeInv'
    <2>1. /\ NewValue({ttl}) /\ ~ At(c, "write")
          /\ Write(c, "set", Stores, version', ttl, 0)
        BY <1>1, <1>4 DEF Set
    <2>2. /\ version' \in 0..MaxVersion /\ version' \in Versions
          /\ allowed' \subseteq Versions /\ endless' \subseteq Versions
        BY <1>2, <2>1, NewValueType
    <2>3. ttl \in Nat
        BY CacheManagerAssumption
    <2>4. /\ call' \in CallTypes /\ requests' \subseteq Requests
          /\ SeenValue' /\ OwnersWait'
        BY <2>1, <2>2, <2>3, WriteType
    <2> QED
        BY <1>2, <1>4, <2>2, <2>4 DEF Set, TypeInv, TypeOK, CallTypes
<1>5. ASSUME NEW ttl \in Ttls, NEW threshold \in Thresholds,
             Wrap(c, ttl, threshold)
      PROVE  TypeInv'
    <2>1. PICK new \in {NewCall("wrap", "wait", 0, 0),
                        NewCall("wrap", "look", ttl, threshold)} :
              call' = [call EXCEPT ![c] = new]
        BY <1>5 DEF Wrap
    <2>2. ttl \in Nat /\ threshold \in Nat
        BY CacheManagerAssumption
    <2>3. new \in Calls
        BY <2>1, <2>2, NewCallType
    <2>4. new.at # "seen"
        BY <2>1 DEF NewCall
    <2>5. ~ At(c, "write") /\ requests' = requests
        BY <1>1, <1>5 DEF Wrap
    <2>6. call' \in CallTypes /\ SeenValue' /\ OwnersWait'
        BY <2>1, <2>3, <2>4, <2>5, MoveStep
    <2> QED
        BY <1>2, <1>5, <2>6 DEF Wrap, TypeInv, TypeOK, CallTypes
<1> QED
    BY <1>3, <1>4, <1>5 DEF Calling

LEMMA TypeResume ==
    ASSUME TypeInv, NEW c \in Callers, Resume(c)
    PROVE  TypeInv'
<1> DEFINE mine == {r \in requests : r.by = c}
<1>1. TypeOK /\ SeenValue /\ OwnersWait
    BY DEF TypeInv
<1>2. call \in CallTypes /\ call[c] \in Calls /\ requests \subseteq Requests
    BY <1>1 DEF TypeOK, CallTypes, Resume, At
<1>3. /\ call' \in CallTypes
      /\ \A d \in Callers : call'[d] \in {None, call[d]}
      /\ \A d \in Callers \ {c} : At(d, "write") => call'[d] = call[d]
    BY <1>2, SettledType DEF Resume
<1>4. \A r \in mine :
          /\ [r EXCEPT !.by = Background] \in Requests
          /\ [r EXCEPT !.by = Background].by = Background
    BY <1>2 DEF Requests, Owners
<1>5. requests' = (requests \ mine)
                      \cup {[r EXCEPT !.by = Background] : r \in mine}
    BY DEF Resume
<1> HIDE DEF mine
<1>6. requests' \subseteq Requests
    BY <1>2, <1>4, <1>5
<1>7. \A r \in requests' : r.by # Background =>
          r \in requests /\ r.by \in Callers \ {c}
    BY <1>2, <1>4, <1>5 DEF mine, Requests, Owners
<1>8. OwnersWait'
    BY <1>1, <1>3, <1>7 DEF OwnersWait, At
<1>9. SeenValue'
    BY <1>1, <1>3 DEF SeenValue, At
<1>10. allowed' \subseteq Versions
    BY <1>1, <1>2 DEF Resume, TypeOK, Calls
<1> QED
    BY <1>1, <1>3, <1>6, <1>8, <1>9, <1>10 DEF Resume, TypeInv, TypeOK, CallTypes

LEMMA TypeGoing ==
    ASSUME TypeInv, NEW c \in Callers, Going(c)
    PROVE  TypeInv'
<1>1. TypeOK /\ SeenValue /\ OwnersWait
    BY DEF TypeInv
<1>2. call \in CallTypes /\ requests \subseteq Requests
    BY <1>1 DEF TypeOK, CallTypes
<1>3. ASSUME NEW at, At(c, at)
      PROVE  call[c] \in Calls /\ call[c].at = at
    BY <1>2, <1>3 DEF At, CallTypes
<1>4. CASE LookMisses(c)
    <2>1. At(c, "look") /\ call[c] \in Calls /\ call[c].at = "look"
        BY <1>3, <1>4 DEF LookMisses
    <2>2. PICK new \in {[call[c] EXCEPT !.store = @ + 1],
                        [call[c] EXCEPT !.at = "run"]} :
              /\ call' = [call EXCEPT ![c] = new]
              /\ call[c].store < N \/ new = [call[c] EXCEPT !.at = "run"]
        BY <1>4 DEF LookMisses
    <2>3. new \in Calls /\ new.at # "seen"
        BY <2>1, <2>2, CacheManagerAssumption DEF Calls, Stores
    <2>4. ~ At(c, "write") /\ requests' = requests
        BY <1>4, <2>1 DEF At, LookMisses
    <2>5. call' \in CallTypes /\ SeenValue' /\ OwnersWait'
        BY <2>2, <2>3, <2>4, MoveStep
    <2> QED
        BY <1>1, <1>4, <2>5 DEF LookMisses, TypeInv, TypeOK, CallTypes
<1>5. CASE Look(c)
    <2>1. At(c, "look") /\ call[c] \in Calls /\ call[c].at = "look"
        BY <1>3, <1>5 DEF Look
    <2> DEFINE found == stores[call[c].store]
               new == [call[c] EXCEPT !.at = "seen", !.value = found.value,
                          !.expires = found.expires,
                          !.age = now - found.origin]
    <2>2. found \in Copies
        BY <1>1, <1>5, <2>1 DEF Look, TypeOK, Calls
    <2>3. /\ found.value \in Versions /\ found.expires \in Nat
          /\ now - found.origin \in Int
        BY <1>1, <2>2 DEF Copies, TypeOK
    <2>4. call' = [call EXCEPT ![c] = new]
        BY <1>5 DEF Look
    <2> HIDE DEF found
    <2>5. new \in Calls /\ new.value \in Versions
        BY <2>1, <2>3 DEF Calls
    <2>6. ~ At(c, "write") /\ requests' = requests
        BY <1>5, <2>1 DEF At, Look
    <2> HIDE DEF new
    <2>7. call' \in CallTypes /\ SeenValue' /\ OwnersWait'
        BY <2>4, <2>5, <2>6, MoveStep
    <2> QED
        BY <1>1, <1>5, <2>7 DEF Look, TypeInv, TypeOK, CallTypes
<1>6. CASE HitReturns(c) \/ HitRefreshes(c) \/ FunctionFails(c)
    <2>1. /\ call' = Settled(c) /\ requests' = requests
          /\ At(c, "seen") \/ At(c, "run")
        BY <1>6 DEF HitReturns, HitRefreshes, FunctionFails
    <2>2. call[c] \in Calls /\ ~ At(c, "write")
        BY <1>3, <2>1 DEF At
    <2>3. call' \in CallTypes /\ SeenValue' /\ OwnersWait'
        BY <2>1, <2>2, SettleStep
    <2>4. refresh' \subseteq Refreshes
        BY <1>1, <1>6, <2>2
        DEF HitReturns, HitRefreshes, FunctionFails, TypeOK, Refreshes, Calls
    <2> QED
        BY <1>1, <1>6, <2>3, <2>4
        DEF HitReturns, HitRefreshes, FunctionFails, TypeInv, TypeOK, CallTypes
<1>7. CASE HitBackfills(c)
    <2> DEFINE to == 1..(call[c].store - 1)
    <2>1. /\ At(c, "seen")
          /\ Write(c, "wrap", to, call[c].value, call[c].ttl, call[c].age)
          /\ endless' = IF call[c].ttl = 0 THEN endless \cup {call[c].value}
                        ELSE endless
        BY <1>7 DEF HitBackfills, Copy
    <2>2. call[c] \in Calls /\ ~ At(c, "write") /\ call[c].value \in Versions
        BY <1>1, <1>3, <2>1 DEF At, SeenValue
    <2>3. call[c].ttl \in Nat /\ call[c].age \in Int /\ to \subseteq Stores
        BY <2>2, CacheManagerAssumption DEF Calls, Stores
    <2> HIDE DEF to
    <2>4. /\ call' \in CallTypes /\ requests' \subseteq Requests
          /\ SeenValue' /\ OwnersWait'
        BY <2>1, <2>2, <2>3, WriteType
    <2>5. endless' \subseteq Versions
        BY <1>1, <2>1, <2>2 DEF TypeOK
    <2> QED
        BY <1>1, <1>7, <2>4, <2>5
        DEF HitBackfills, Copy, TypeInv, TypeOK, CallTypes
<1>8. CASE FunctionReturns(c)
    <2>1. /\ At(c, "run") /\ NewValue({call[c].ttl})
          /\ Write(c, "wrap", Stores, version', call[c].ttl, 0)
        BY <1>8 DEF FunctionReturns
    <2>2. call[c] \in Calls /\ ~ At(c, "write") /\ call[c].ttl \in Nat
        BY <1>3, <2>1 DEF At, Calls
    <2>3. /\ version' \in 0..MaxVersion /\ version' \in Versions
          /\ allowed' \subseteq Versions /\ endless' \subseteq Versions
        BY <1>1, <2>1, NewValueType
    <2>4. /\ call' \in CallTypes /\ requests' \subseteq Requests
          /\ SeenValue' /\ OwnersWait'
        BY <2>1, <2>2, <2>3, WriteType
    <2> QED
        BY <1>1, <1>8, <2>3, <2>4
        DEF FunctionReturns, TypeInv, TypeOK, CallTypes
<1>9. CASE Resume(c)
    BY <1>9, TypeResume
<1> QED
    BY <1>4, <1>5, <1>6, <1>7, <1>8, <1>9 DEF Going

\* The requests of the refreshes.
RefreshWrites ==
    UNION {Writes(Background,
                  IF options.refreshAllStores THEN Stores ELSE 1..r.upto,
                  version', r.ttl, 0) : r \in refresh}

LEMMA RefreshWritesType ==
    ASSUME TypeOK, version' \in Versions
    PROVE  /\ RefreshWrites \subseteq Requests
           /\ \A w \in RefreshWrites :
                  /\ w.by = Background /\ w.value = version' /\ w.age = 0
                  /\ \E r \in refresh : w.ttl = r.ttl
<1> DEFINE To(r) == IF options.refreshAllStores THEN Stores ELSE 1..r.upto
<1>1. ASSUME NEW w \in RefreshWrites
      PROVE  /\ w \in Requests
             /\ w.by = Background /\ w.value = version' /\ w.age = 0
             /\ \E r \in refresh : w.ttl = r.ttl
    <2>1. PICK r \in refresh : w \in Writes(Background, To(r), version', r.ttl, 0)
        BY DEF RefreshWrites
    <2>2. r \in Refreshes
        BY DEF TypeOK
    <2>3. To(r) \in SUBSET Stores /\ r.ttl \in Nat /\ Background \in Owners
        BY <2>2, CacheManagerAssumption DEF Refreshes, Stores, Owners
    <2> HIDE DEF To
    <2> QED
        BY <2>1, <2>3, WritesType
<1> QED
    BY <1>1

LEMMA TypeRest ==
    ASSUME TypeInv,
           \/ RefreshReturns \/ RefreshFails
           \/ \E o \in Owners : Answer(o)
           \/ \E s \in Stores : Lose(s)
           \/ Tick
    PROVE  TypeInv'
<1>1. TypeOK /\ SeenValue /\ OwnersWait
    BY DEF TypeInv
<1>2. call \in CallTypes /\ requests \subseteq Requests
    BY <1>1 DEF TypeOK, CallTypes
<1>3. CASE RefreshReturns
    <2>1. /\ NewValue({r.ttl : r \in refresh})
          /\ requests' = requests \cup RefreshWrites
          /\ call' = Disturbed(call) /\ refresh' = {}
        BY <1>3 DEF RefreshReturns, RefreshWrites
    <2>2. /\ version' \in 0..MaxVersion /\ version' \in Versions
          /\ allowed' \subseteq Versions /\ endless' \subseteq Versions
        BY <1>1, <2>1, NewValueType
    <2>3. /\ RefreshWrites \subseteq Requests
          /\ \A w \in RefreshWrites : w.by = Background
        BY <1>1, <2>2, RefreshWritesType
    <2>4. /\ call' \in CallTypes
          /\ \A d \in Callers : call[d] = None <=> call'[d] = None
          /\ \A d \in Callers : call[d] # None =>
                 call'[d] = [call[d] EXCEPT !.clean = FALSE]
        BY <1>2, <2>1, DisturbedType
    <2>5. \A d \in Callers : call[d] # None =>
              call'[d].at = call[d].at /\ call'[d].value = call[d].value
        <3> SUFFICES ASSUME NEW d \in Callers, call[d] # None
                     PROVE  /\ call'[d].at = call[d].at
                            /\ call'[d].value = call[d].value
            OBVIOUS
        <3>1. call[d] \in Calls
            BY <1>2 DEF CallTypes
        <3>2. call'[d] = [call[d] EXCEPT !.clean = FALSE]
            BY <2>4
        <3> QED
            BY <3>1, <3>2 DEF Calls
    <2>6. SeenValue'
        BY <1>1, <2>4, <2>5 DEF SeenValue, At
    <2>7. OwnersWait'
        BY <1>1, <1>2, <2>1, <2>3, <2>4, <2>5
        DEF OwnersWait, At, Requests, Owners
    <2> QED
        BY <1>1, <1>2, <1>3, <2>1, <2>2, <2>3, <2>4, <2>6, <2>7
        DEF RefreshReturns, TypeInv, TypeOK, CallTypes
<1>4. CASE RefreshFails
    BY <1>1, <1>4 DEF RefreshFails, TypeInv, TypeOK, SeenValue, OwnersWait, At
<1>5. ASSUME NEW r \in requests, Land(r)
      PROVE  TypeInv'
    <2>1. r \in Requests /\ now \in Nat
        BY <1>1, <1>2 DEF TypeOK
    <2>2. r.value # None =>
              [value |-> r.value, origin |-> now - r.age,
               expires |-> IF r.ttl = 0 THEN Never ELSE now + r.ttl] \in Copies
        BY <2>1 DEF Requests, Copies, Never
    <2>3. stores' \in [Stores -> Copies \cup {None}]
        BY <1>1, <1>5, <2>1, <2>2 DEF Land, TypeOK
    <2> QED
        BY <1>1, <1>5, <2>3
        DEF Land, TypeInv, TypeOK, SeenValue, OwnersWait, At
<1>6. ASSUME NEW r \in requests, Reject(r)
      PROVE  TypeInv'
    <2>1. r \in Requests
        BY <1>2
    <2>2. CASE r.by = Background
        BY <1>1, <1>6, <2>2
        DEF Reject, TypeInv, TypeOK, SeenValue, OwnersWait, At
    <2>3. CASE r.by # Background
        <3>1. r.by \in Callers /\ At(r.by, "write")
            BY <1>1, <2>1, <2>3 DEF OwnersWait, Requests, Owners
        <3>2. PICK c \in Callers : c = r.by
            BY <3>1
        <3> DEFINE new == [call[c] EXCEPT !.failed = TRUE]
        <3>3. call[c] \in Calls
            BY <1>2, <3>1, <3>2 DEF At, CallTypes
        <3>4. /\ new \in Calls /\ new.at = call[c].at
              /\ new.value = call[c].value /\ new # None
            BY <3>3, NoneIsNoRecord DEF Calls
        <3>5. call' = [call EXCEPT ![c] = new]
            BY <1>6, <2>3, <3>2 DEF Reject
        <3> HIDE DEF new
        <3>6. /\ call' \in CallTypes /\ call'[c] = new
              /\ \A d \in Callers \ {c} : call'[d] = call[d]
            BY <1>2, <3>4, <3>5 DEF CallTypes
        <3>7. SeenValue'
            BY <1>1, <3>1, <3>2, <3>4, <3>6 DEF SeenValue, At
        <3>8. OwnersWait'
            BY <1>1, <1>2, <1>6, <3>1, <3>2, <3>4, <3>6
            DEF Reject, OwnersWait, At, Requests, Owners
        <3> QED
            BY <1>1, <1>6, <3>6, <3>7, <3>8
            DEF Reject, TypeInv, TypeOK, CallTypes
    <2> QED
        BY <2>2, <2>3
<1>7. ASSUME NEW s \in Stores, Lose(s)
      PROVE  TypeInv'
    BY <1>1, <1>7 DEF Lose, TypeInv, TypeOK, SeenValue, OwnersWait, At
<1>8. CASE Tick
    <2>1. stores' \in [Stores -> Copies \cup {None}] /\ now' \in Nat
        BY <1>1, <1>8 DEF Tick, TypeOK
    <2> QED
        BY <1>1, <1>8, <2>1
        DEF Tick, TypeInv, TypeOK, SeenValue, OwnersWait, At
<1> QED
    BY <1>3, <1>4, <1>5, <1>6, <1>7, <1>8 DEF Answer

LEMMA TypeStep == TypeInv /\ [Next]_vars => TypeInv'
<1> SUFFICES ASSUME TypeInv, [Next]_vars
             PROVE  TypeInv'
    OBVIOUS
<1>1. ASSUME NEW c \in Callers, Calling(c) PROVE TypeInv'
    BY <1>1, TypeCalling
<1>2. ASSUME NEW c \in Callers, Going(c) PROVE TypeInv'
    BY <1>2, TypeGoing
<1>3. ASSUME \/ RefreshReturns \/ RefreshFails
             \/ \E o \in Owners : Answer(o)
             \/ \E s \in Stores : Lose(s)
             \/ Tick
      PROVE  TypeInv'
    BY <1>3, TypeRest
<1>4. CASE UNCHANGED vars
    BY <1>4 DEF vars, TypeInv, TypeOK, SeenValue, OwnersWait, At
<1> QED
    BY <1>1, <1>2, <1>3, <1>4 DEF Next

THEOREM TypesHold == Spec => []TypeInv
BY TypeInit, TypeStep, PTL DEF Spec

\* Every variable keeps its type, for any number of stores and callers.
THEOREM Typing == Spec => []TypeOK
<1>1. TypeInv => TypeOK
    BY DEF TypeInv
<1> QED
    BY <1>1, TypesHold, PTL

-----------------------------------------------------------------------------
(* How long copying can keep a value.                                       *)

\* A wrap and a refresh have the TTL they were called with.
TtlsGiven ==
    /\ \A c \in Callers :
           At(c, "look") \/ At(c, "seen") \/ At(c, "run") => call[c].ttl \in Ttls
    /\ \A r \in refresh : r.ttl \in Ttls

CopyAges(m) ==
    \A s \in Stores : stores[s] # None /\ stores[s].value \notin endless =>
        /\ 1 <= stores[s].expires /\ now <= stores[s].expires
        /\ stores[s].expires <= stores[s].origin + (N - s + 1) * m

\* What is about to be written to a store comes from later stores.
RequestAges(m) ==
    \A r \in requests : r.value # None /\ r.value \notin endless =>
        /\ 1 <= r.ttl /\ r.ttl <= m
        /\ r.age <= (N - r.store) * m

\* So does what a wrap is about to copy.
CallAges(m) ==
    \A c \in Callers : At(c, "seen") /\ call[c].value \notin endless =>
        call[c].age <= (N - call[c].store + 1) * m

AgeInv ==
    /\ TtlsGiven
    /\ \A m \in Ttls : MaxTtl(m) => CopyAges(m) /\ RequestAges(m) /\ CallAges(m)

LEMMA Scaling ==
    ASSUME NEW a \in Int, NEW b \in Int, NEW m \in Nat, a <= b
    PROVE  a * m <= b * m /\ (a + 1) * m = a * m + m /\ a * m \in Int
OBVIOUS

\* What a write does to the calls and the requests.
WriteEffects(c, to, value, ttl, age) ==
    /\ \A r \in requests' : r \in requests \/
           (r.value = value /\ r.ttl = ttl /\ r.age = age /\ r.store \in to)
    /\ \A d \in Callers : call'[d] # None =>
           \/ /\ d = c /\ call'[d].at = "write"
              /\ call'[d].value = value
              /\ call'[d].clean = (requests = {} /\ to = Stores)
              /\ \A r \in requests' : r \in requests \/ r.by = c
              /\ \A s \in to : \E r \in requests' :
                     r.by = c /\ r.store = s
           \/ /\ call[d] \in Calls /\ call[d] # None
              /\ call'[d] = [call[d] EXCEPT !.clean = FALSE]

LEMMA WriteEffect ==
    ASSUME TypeInv, NEW c \in Callers, ~ At(c, "write"),
           NEW op \in {"wrap", "set", "del"}, NEW to \in SUBSET Stores,
           NEW value \in Versions \cup {None}, NEW ttl \in Nat, NEW age \in Int,
           Write(c, op, to, value, ttl, age)
    PROVE  WriteEffects(c, to, value, ttl, age)
<1> DEFINE owner == IF options.nonBlocking THEN Background ELSE c
           new == NewCall(op, "write", 0, 0)
           clean == requests = {} /\ to = Stores
           written == [new EXCEPT !.value = value, !.clean = clean]
           W == Writes(owner, to, value, ttl, age)
<1>1. call \in CallTypes /\ requests \subseteq Requests
    BY DEF TypeInv, TypeOK, CallTypes
<1>2. owner \in Owners
    BY DEF Owners
<1>3. /\ requests' = requests \cup W
      /\ \A r \in W : /\ r.by = owner /\ r.store \in to /\ r.value = value
                       /\ r.ttl = ttl /\ r.age = age
      /\ \A s \in to : \E r \in W : r.store = s
    BY <1>2, WritesType DEF Write
<1>4. /\ written.at = "write" /\ written.value = value
      /\ written.clean = clean
    <2>1. new \in Calls /\ new.at = "write"
        BY NewCallType DEF NewCall
    <2>2. clean \in BOOLEAN
        OBVIOUS
    <2> HIDE DEF new, clean
    <2> QED
        BY <2>1, <2>2 DEF Calls
<1> HIDE DEF written, new, W
<1>5. CASE options.nonBlocking
    <2>1. call' = Disturbed(Settled(c))
        BY <1>5 DEF Write
    <2>2. Settled(c) \in CallTypes
        BY <1>1, SettledType
    <2>3. \A d \in Callers : call'[d] # None =>
              call[d] # None /\ call'[d] = [call[d] EXCEPT !.clean = FALSE]
        BY <1>1, <2>1, <2>2, DisturbedType, SettledType
    <2>4. \A d \in Callers : call[d] # None => call[d] \in Calls
        BY <1>1 DEF CallTypes
    <2> QED
        BY <1>3, <2>3, <2>4 DEF WriteEffects
<1>6. CASE ~ options.nonBlocking
    <2>1. call' = [Disturbed(call) EXCEPT ![c] = written]
        BY <1>6 DEF Write, written, new, clean
    <2>2. /\ Disturbed(call) \in CallTypes
          /\ \A d \in Callers : call[d] = None <=> Disturbed(call)[d] = None
          /\ \A d \in Callers : call[d] # None =>
                 Disturbed(call)[d] = [call[d] EXCEPT !.clean = FALSE]
        BY <1>1, DisturbedType
    <2>3. call'[c] = written
        BY <2>1, <2>2 DEF CallTypes
    <2>4. \A d \in Callers \ {c} : call'[d] = Disturbed(call)[d]
        BY <2>1, <2>2 DEF CallTypes
    <2>5. \A d \in Callers : call[d] # None => call[d] \in Calls
        BY <1>1 DEF CallTypes
    <2>6. owner = c
        BY <1>6
    <2>7. \A d \in Callers \ {c} : call'[d] # None =>
              /\ call[d] \in Calls /\ call[d] # None
              /\ call'[d] = [call[d] EXCEPT !.clean = FALSE]
        BY <2>2, <2>4, <2>5
    <2>8. /\ \A r \in requests' : r \in requests \/ r.by = c
          /\ \A s \in to : \E r \in requests' : r.by = c /\ r.store = s
        BY <1>3, <2>6
    <2> HIDE DEF owner
    <2> QED
        BY <1>3, <1>4, <2>3, <2>7, <2>8 DEF WriteEffects
<1> QED
    BY <1>5, <1>6

LEMMA AgeInit == Init => AgeInv
BY DEF Init, AgeInv, TtlsGiven, CopyAges, RequestAges, CallAges, At

\* A write keeps the invariant if what it writes has the age and the TTL that
\* RequestAges asks for.
LEMMA WriteAges ==
    ASSUME TypeInv, AgeInv, NEW c \in Callers, ~ At(c, "write"),
           NEW op \in {"wrap", "set", "del"}, NEW to \in SUBSET Stores,
           NEW value \in Versions \cup {None}, NEW ttl \in Nat, NEW age \in Int,
           Write(c, op, to, value, ttl, age),
           stores' = stores, refresh' = refresh, now' = now,
           endless \subseteq endless',
           \A m \in Ttls : MaxTtl(m) /\ value # None /\ value \notin endless' =>
               /\ 1 <= ttl /\ ttl <= m
               /\ \A s \in to : age <= (N - s) * m
    PROVE  AgeInv'
<1>0. WriteEffects(c, to, value, ttl, age)
    BY WriteEffect
<1>1. ASSUME NEW r \in requests', r \notin requests
      PROVE  /\ r.value = value /\ r.ttl = ttl /\ r.age = age
             /\ r.store \in to
    BY <1>0, <1>1 DEF WriteEffects
<1>2. \A d \in Callers : call'[d] # None /\ call'[d].at # "write" =>
          /\ call[d] \in Calls /\ call[d] # None
          /\ call'[d] = [call[d] EXCEPT !.clean = FALSE]
    BY <1>0 DEF WriteEffects
<1>3. ASSUME NEW d \in Callers, call'[d] # None, call'[d].at # "write"
      PROVE  /\ call[d] # None /\ call'[d].at = call[d].at
             /\ call'[d].value = call[d].value /\ call'[d].age = call[d].age
             /\ call'[d].store = call[d].store /\ call'[d].ttl = call[d].ttl
    BY <1>2, <1>3 DEF Calls
<1>4. TtlsGiven'
    BY <1>3 DEF AgeInv, TtlsGiven, At
<1>5. ASSUME NEW m \in Ttls, MaxTtl(m)
      PROVE  CopyAges(m)' /\ RequestAges(m)' /\ CallAges(m)'
    <2>1. CopyAges(m) /\ RequestAges(m) /\ CallAges(m)
        BY <1>5 DEF AgeInv
    <2>2. CopyAges(m)'
        BY <2>1 DEF CopyAges
    <2>3. RequestAges(m)'
        BY <1>1, <1>5, <2>1 DEF RequestAges
    <2>4. CallAges(m)'
        BY <1>3, <2>1 DEF CallAges, At
    <2> QED
        BY <2>2, <2>3, <2>4
<1> QED
    BY <1>4, <1>5 DEF AgeInv, MaxTtl

\* Calls that end, or go on without a write, keep it.
LEMMA CallAgesStep ==
    ASSUME AgeInv, TtlsGiven',
           stores' = stores, now' = now, endless' = endless,
           \A r \in requests' : \E q \in requests :
               /\ r.value = q.value /\ r.ttl = q.ttl
               /\ r.age = q.age /\ r.store = q.store,
           \A d \in Callers : At(d, "seen")' =>
               \/ /\ At(d, "seen") /\ call'[d].value = call[d].value
                  /\ call'[d].age = call[d].age /\ call'[d].store = call[d].store
               \/ \A m \in Ttls : MaxTtl(m) /\ call'[d].value \notin endless =>
                      call'[d].age <= (N - call'[d].store + 1) * m
    PROVE  AgeInv'
<1>1. ASSUME NEW m \in Ttls, MaxTtl(m)
      PROVE  CopyAges(m)' /\ RequestAges(m)' /\ CallAges(m)'
    <2>1. CopyAges(m) /\ RequestAges(m) /\ CallAges(m)
        BY <1>1 DEF AgeInv
    <2>2. CopyAges(m)'
        BY <2>1 DEF CopyAges
    <2>3. RequestAges(m)'
        BY <2>1 DEF RequestAges
    <2>4. CallAges(m)'
        BY <1>1, <2>1 DEF CallAges
    <2> QED
        BY <2>2, <2>3, <2>4
<1> QED
    BY <1>1 DEF AgeInv, MaxTtl

LEMMA AgeCalling ==
    ASSUME TypeInv, AgeInv, NEW c \in Callers, Calling(c)
    PROVE  AgeInv'
<1>1. call[c] = None => ~ At(c, "write")
    BY DEF At
<1>2. TypeOK
    BY DEF TypeInv
<1>3. CASE Del(c)
    <2>1. Write(c, "del", Stores, None, 0, 0) /\ ~ At(c, "write")
        BY <1>1, <1>3 DEF Del
    <2>2. /\ stores' = stores /\ refresh' = refresh /\ now' = now
          /\ endless \subseteq endless'
        BY <1>3 DEF Del
    <2> QED
        BY <2>1, <2>2, WriteAges
<1>4. ASSUME NEW ttl \in Ttls, Set(c, ttl)
      PROVE  AgeInv'
    <2>1. /\ NewValue({ttl}) /\ ~ At(c, "write")
          /\ Write(c, "set", Stores, version', ttl, 0)
          /\ stores' = stores /\ refresh' = refresh /\ now' = now
        BY <1>1, <1>4 DEF Set
    <2>2. /\ version' \in Versions /\ endless \subseteq endless'
          /\ ttl = 0 => version' \in endless'
        BY <1>2, <2>1, NewValueType
    <2>3. ttl \in Nat
        BY CacheManagerAssumption
    <2>4. ASSUME NEW m \in Ttls, MaxTtl(m), version' \notin endless'
          PROVE  1 <= ttl /\ ttl <= m /\ \A s \in Stores : 0 <= (N - s) * m
        <3>1. ttl <= m /\ 1 <= ttl
            BY <2>2, <2>3, <2>4 DEF MaxTtl
        <3>2. ASSUME NEW s \in Stores
              PROVE  0 <= (N - s) * m
            <4>1. 0 <= N - s /\ N - s \in Int /\ m \in Nat
                BY CacheManagerAssumption DEF Stores
            <4> QED
                BY <4>1, Scaling
        <3> QED
            BY <3>1, <3>2
    <2> QED
        BY <2>1, <2>2, <2>3, <2>4, WriteAges
<1>5. ASSUME NEW ttl \in Ttls, NEW threshold \in Thresholds,
             Wrap(c, ttl, threshold)
      PROVE  AgeInv'
    <2>1. PICK new \in {NewCall("wrap", "wait", 0, 0),
                        NewCall("wrap", "look", ttl, threshold)} :
              call' = [call EXCEPT ![c] = new]
        BY <1>5 DEF Wrap
    <2>2. /\ new.at = "wait" \/ (new.at = "look" /\ new.ttl = ttl)
        BY <2>1 DEF NewCall
    <2>3. /\ call'[c] = new
          /\ \A d \in Callers \ {c} : call'[d] = call[d]
        BY <1>2, <2>1 DEF TypeOK
    <2>4. TtlsGiven'
        BY <1>5, <2>2, <2>3 DEF Wrap, AgeInv, TtlsGiven, At
    <2>5. /\ stores' = stores /\ now' = now /\ endless' = endless
          /\ requests' = requests
        BY <1>5 DEF Wrap
    <2>6. \A d \in Callers : At(d, "seen")' =>
              At(d, "seen") /\ call'[d] = call[d]
        BY <2>2, <2>3 DEF At
    <2> QED
        BY <2>4, <2>5, <2>6, CallAgesStep
<1> QED
    BY <1>3, <1>4, <1>5 DEF Calling

LEMMA AgeGoing ==
    ASSUME TypeInv, AgeInv, NEW c \in Callers, Going(c)
    PROVE  AgeInv'
<1>1. TypeOK /\ SeenValue /\ TtlsGiven
    BY DEF TypeInv, AgeInv
<1>2. call \in CallTypes /\ requests \subseteq Requests
    BY <1>1 DEF TypeOK, CallTypes
<1>3. ASSUME NEW at, At(c, at)
      PROVE  call[c] \in Calls /\ call[c].at = at
    BY <1>2, <1>3 DEF At, CallTypes
<1>4. CASE LookMisses(c)
    <2>1. At(c, "look") /\ call[c] \in Calls /\ call[c].at = "look"
        BY <1>3, <1>4 DEF LookMisses
    <2>2. PICK new \in {[call[c] EXCEPT !.store = @ + 1],
                        [call[c] EXCEPT !.at = "run"]} :
              call' = [call EXCEPT ![c] = new]
        BY <1>4 DEF LookMisses
    <2>3. new.at \in {"look", "run"} /\ new.ttl = call[c].ttl
        BY <2>1, <2>2 DEF Calls
    <2>4. /\ call'[c] = new
          /\ \A d \in Callers \ {c} : call'[d] = call[d]
        BY <1>2, <2>2 DEF CallTypes
    <2>5. TtlsGiven'
        BY <1>1, <1>4, <2>1, <2>3, <2>4 DEF LookMisses, TtlsGiven, At
    <2>6. /\ stores' = stores /\ now' = now /\ endless' = endless
          /\ requests' = requests
        BY <1>4 DEF LookMisses
    <2>7. \A d \in Callers : At(d, "seen")' =>
              At(d, "seen") /\ call'[d] = call[d]
        BY <2>3, <2>4 DEF At
    <2> QED
        BY <2>5, <2>6, <2>7, CallAgesStep
<1>5. CASE Look(c)
    <2>1. At(c, "look") /\ call[c] \in Calls /\ call[c].at = "look"
        BY <1>3, <1>5 DEF Look
    <2> DEFINE i == call[c].store
               found == stores[i]
               new == [call[c] EXCEPT !.at = "seen", !.value = found.value,
                          !.expires = found.expires,
                          !.age = now - found.origin]
    <2>2. i \in Stores /\ found \in Copies /\ found # None
        BY <1>1, <1>5, <2>1 DEF Look, TypeOK, Calls
    <2>3. call' = [call EXCEPT ![c] = new]
        BY <1>5 DEF Look
    <2>4. /\ new.at = "seen" /\ new.value = found.value
          /\ new.age = now - found.origin /\ new.store = i
          /\ new.ttl = call[c].ttl
        BY <2>1 DEF Calls
    <2>5. ASSUME NEW m \in Ttls, MaxTtl(m), found.value \notin endless
          PROVE  now - found.origin <= (N - i + 1) * m
        <3>1. /\ now <= found.expires
              /\ found.expires <= found.origin + (N - i + 1) * m
            BY <2>2, <2>5 DEF AgeInv, CopyAges
        <3>2. /\ now \in Nat /\ found.expires \in Nat /\ found.origin \in Int
              /\ (N - i + 1) * m \in Int
            BY <1>1, <2>2, CacheManagerAssumption, Scaling
            DEF TypeOK, Copies, Stores
        <3> QED
            BY <3>1, <3>2
    <2> HIDE DEF new, i
    <2>6. /\ call'[c] = new
          /\ \A d \in Callers \ {c} : call'[d] = call[d]
        BY <1>2, <2>3 DEF CallTypes
    <2>7. TtlsGiven'
        BY <1>1, <1>5, <2>1, <2>4, <2>6 DEF Look, TtlsGiven, At
    <2>8. /\ stores' = stores /\ now' = now /\ endless' = endless
          /\ requests' = requests
        BY <1>5 DEF Look
    <2>9. \A d \in Callers : At(d, "seen")' =>
              \/ At(d, "seen") /\ call'[d] = call[d]
              \/ \A m \in Ttls : MaxTtl(m) /\ call'[d].value \notin endless =>
                      call'[d].age <= (N - call'[d].store + 1) * m
        BY <2>4, <2>5, <2>6 DEF At
    <2> QED
        BY <2>7, <2>8, <2>9, CallAgesStep
<1>6. CASE HitReturns(c) \/ HitRefreshes(c) \/ FunctionFails(c)
    <2>1. /\ call' = Settled(c) /\ requests' = requests
          /\ stores' = stores /\ now' = now /\ endless' = endless
        BY <1>6 DEF HitReturns, HitRefreshes, FunctionFails
    <2>2. \A d \in Callers : call'[d] \in {None, call[d]}
        BY <1>2, <2>1, SettledType
    <2>3. \A r \in refresh' : r.ttl \in Ttls
        BY <1>1, <1>6
        DEF HitReturns, HitRefreshes, FunctionFails, TtlsGiven, At
    <2>4. TtlsGiven'
        BY <1>1, <2>2, <2>3 DEF TtlsGiven, At
    <2>5. \A d \in Callers : At(d, "seen")' =>
              At(d, "seen") /\ call'[d] = call[d]
        BY <2>2 DEF At
    <2> QED
        BY <2>1, <2>4, <2>5, CallAgesStep
<1>7. CASE HitBackfills(c)
    <2> DEFINE i == call[c].store
               to == 1..(i - 1)
    <2>1. /\ At(c, "seen") /\ endless \subseteq endless'
          /\ Write(c, "wrap", to, call[c].value, call[c].ttl, call[c].age)
          /\ call[c].ttl = 0 => call[c].value \in endless'
          /\ stores' = stores /\ refresh' = refresh /\ now' = now
        BY <1>7 DEF HitBackfills, Copy
    <2>2. call[c] \in Calls /\ ~ At(c, "write") /\ call[c].value \in Versions
        BY <1>1, <1>3, <2>1 DEF At, SeenValue
    <2>3. /\ call[c].ttl \in Nat /\ call[c].age \in Int /\ to \subseteq Stores
          /\ i \in Stores
        BY <2>2, CacheManagerAssumption DEF Calls, Stores
    <2>4. ASSUME NEW m \in Ttls, MaxTtl(m), call[c].value \notin endless'
          PROVE  /\ 1 <= call[c].ttl /\ call[c].ttl <= m
                 /\ \A s \in to : call[c].age <= (N - s) * m
        <3>1. 1 <= call[c].ttl /\ call[c].ttl <= m
            BY <1>1, <2>1, <2>3, <2>4 DEF TtlsGiven, MaxTtl
        <3>2. call[c].age <= (N - i + 1) * m
            BY <2>1, <2>4 DEF AgeInv, CallAges
        <3>3. ASSUME NEW s \in to
              PROVE  call[c].age <= (N - s) * m
            <4>1. /\ N - i + 1 \in Int /\ N - s \in Int /\ m \in Nat
                  /\ N - i + 1 <= N - s
                BY <2>3, CacheManagerAssumption DEF Stores
            <4>2. /\ (N - i + 1) * m <= (N - s) * m
                  /\ (N - i + 1) * m \in Int /\ (N - s) * m \in Int
                BY <4>1, Scaling
            <4> QED
                BY <2>3, <3>2, <4>2
        <3> QED
            BY <3>1, <3>3
    <2> HIDE DEF to, i
    <2> QED
        BY <2>1, <2>2, <2>3, <2>4, WriteAges
<1>8. CASE FunctionReturns(c)
    <2>1. /\ At(c, "run") /\ NewValue({call[c].ttl})
          /\ Write(c, "wrap", Stores, version', call[c].ttl, 0)
          /\ stores' = stores /\ refresh' = refresh /\ now' = now
        BY <1>8 DEF FunctionReturns
    <2>2. /\ call[c] \in Calls /\ ~ At(c, "write") /\ call[c].ttl \in Nat
          /\ call[c].ttl \in Ttls
        BY <1>1, <1>3, <2>1 DEF At, Calls, TtlsGiven
    <2>3. /\ version' \in Versions /\ endless \subseteq endless'
          /\ call[c].ttl = 0 => version' \in endless'
        BY <1>1, <2>1, NewValueType
    <2>4. ASSUME NEW m \in Ttls, MaxTtl(m), version' \notin endless'
          PROVE  /\ 1 <= call[c].ttl /\ call[c].ttl <= m
                 /\ \A s \in Stores : 0 <= (N - s) * m
        <3>1. call[c].ttl <= m /\ 1 <= call[c].ttl
            BY <2>2, <2>3, <2>4 DEF MaxTtl
        <3>2. ASSUME NEW s \in Stores
              PROVE  0 <= (N - s) * m
            <4>1. 0 <= N - s /\ N - s \in Int /\ m \in Nat
                BY CacheManagerAssumption DEF Stores
            <4> QED
                BY <4>1, Scaling
        <3> QED
            BY <3>1, <3>2
    <2> QED
        BY <2>1, <2>2, <2>3, <2>4, WriteAges
<1>9. CASE Resume(c)
    <2> DEFINE mine == {r \in requests : r.by = c}
    <2>1. /\ call' = Settled(c)
          /\ requests' = (requests \ mine)
                             \cup {[r EXCEPT !.by = Background] : r \in mine}
          /\ stores' = stores /\ now' = now /\ endless' = endless
          /\ refresh' = refresh
        BY <1>9 DEF Resume
    <2>2. \A d \in Callers : call'[d] \in {None, call[d]}
        BY <1>2, <2>1, SettledType
    <2>3. TtlsGiven'
        BY <1>1, <2>1, <2>2 DEF TtlsGiven, At
    <2>4. \A d \in Callers : At(d, "seen")' =>
              At(d, "seen") /\ call'[d] = call[d]
        BY <2>2 DEF At
    <2>5. \A r \in requests' : \E q \in requests :
               /\ r.value = q.value /\ r.ttl = q.ttl
               /\ r.age = q.age /\ r.store = q.store
        BY <1>2, <2>1 DEF Requests
    <2> QED
        BY <2>1, <2>3, <2>4, <2>5, CallAgesStep
<1> QED
    BY <1>4, <1>5, <1>6, <1>7, <1>8, <1>9 DEF Going

LEMMA AgeRest ==
    ASSUME TypeInv, AgeInv,
           \/ RefreshReturns \/ RefreshFails
           \/ \E o \in Owners : Answer(o)
           \/ \E s \in Stores : Lose(s)
           \/ Tick
    PROVE  AgeInv'
<1>1. TypeOK /\ SeenValue /\ TtlsGiven /\ OwnersWait
    BY DEF TypeInv, AgeInv
<1>2. call \in CallTypes /\ requests \subseteq Requests
    BY <1>1 DEF TypeOK, CallTypes
<1>3. CASE RefreshReturns
    <2>1. /\ NewValue({r.ttl : r \in refresh})
          /\ requests' = requests \cup RefreshWrites
          /\ call' = Disturbed(call) /\ refresh' = {}
          /\ stores' = stores /\ now' = now
        BY <1>3 DEF RefreshReturns, RefreshWrites
    <2>2. /\ version' \in Versions /\ endless \subseteq endless'
          /\ 0 \in {r.ttl : r \in refresh} => version' \in endless'
        BY <1>1, <2>1, NewValueType
    <2>3. /\ RefreshWrites \subseteq Requests
          /\ \A w \in RefreshWrites :
                 /\ w.value = version' /\ w.age = 0
                 /\ \E r \in refresh : w.ttl = r.ttl
        BY <1>1, <2>2, RefreshWritesType
    <2>4. ASSUME NEW d \in Callers, call'[d] # None
          PROVE  /\ call[d] # None /\ call'[d].at = call[d].at
                 /\ call'[d].value = call[d].value
                 /\ call'[d].age = call[d].age
                 /\ call'[d].store = call[d].store
                 /\ call'[d].ttl = call[d].ttl
        <3>1. call[d] # None /\ call'[d] = [call[d] EXCEPT !.clean = FALSE]
            BY <1>2, <2>1, <2>4, DisturbedType
        <3>2. call[d] \in Calls
            BY <1>2, <3>1 DEF CallTypes
        <3> QED
            BY <3>1, <3>2 DEF Calls
    <2>5. TtlsGiven'
        BY <1>1, <2>1, <2>4 DEF TtlsGiven, At
    <2>6. ASSUME NEW m \in Ttls, MaxTtl(m)
          PROVE  CopyAges(m)' /\ RequestAges(m)' /\ CallAges(m)'
        <3>1. CopyAges(m) /\ RequestAges(m) /\ CallAges(m)
            BY <2>6 DEF AgeInv
        <3>2. CopyAges(m)'
            BY <2>1, <2>2, <3>1 DEF CopyAges
        <3>3. ASSUME NEW w \in RefreshWrites, w.value \notin endless'
              PROVE  /\ 1 <= w.ttl /\ w.ttl <= m
                     /\ w.age <= (N - w.store) * m
            <4>1. PICK r \in refresh : w.ttl = r.ttl
                BY <2>3
            <4>2. w.ttl \in Ttls /\ w.ttl # 0
                BY <1>1, <2>2, <2>3, <3>3, <4>1 DEF TtlsGiven
            <4>3. 1 <= w.ttl /\ w.ttl <= m
                <5>1. PICK ttl \in Ttls : ttl = w.ttl
                    BY <4>2
                <5>2. ttl \in Nat /\ ttl # 0 /\ ttl <= m
                    BY <2>6, <4>2, <5>1, CacheManagerAssumption DEF MaxTtl
                <5> QED
                    BY <5>1, <5>2
            <4>4. 0 <= N - w.store /\ N - w.store \in Int /\ m \in Nat
                BY <2>3, CacheManagerAssumption DEF Stores, Requests
            <4>5. 0 <= (N - w.store) * m
                BY <4>4, Scaling
            <4> QED
                BY <2>3, <4>3, <4>5
        <3>4. RequestAges(m)'
            BY <2>1, <2>2, <3>1, <3>3 DEF RequestAges
        <3>5. CallAges(m)'
            BY <2>2, <2>4, <3>1 DEF CallAges, At
        <3> QED
            BY <3>2, <3>4, <3>5
    <2> QED
        BY <2>5, <2>6 DEF AgeInv, MaxTtl
<1>4. CASE RefreshFails
    <2>1. /\ call' = call /\ refresh' = {} /\ requests' = requests
          /\ stores' = stores /\ now' = now /\ endless' = endless
        BY <1>4 DEF RefreshFails
    <2> QED
        BY <1>1, <2>1, CallAgesStep DEF TtlsGiven, At
<1>5. ASSUME NEW r \in requests, Land(r)
      PROVE  AgeInv'
    <2>1. r \in Requests /\ now \in Nat
        BY <1>1, <1>2 DEF TypeOK
    <2> DEFINE copy == [value |-> r.value, origin |-> now - r.age,
                        expires |-> IF r.ttl = 0 THEN Never ELSE now + r.ttl]
               s == r.store
    <2>2. /\ call' = call /\ refresh' = refresh /\ requests' = requests \ {r}
          /\ now' = now /\ endless' = endless
          /\ stores' = [stores EXCEPT ![s] = IF r.value = None THEN None
                                            ELSE copy]
        BY <1>5 DEF Land
    <2>3. TtlsGiven'
        BY <1>1, <2>2 DEF TtlsGiven, At
    <2>4. ASSUME NEW m \in Ttls, MaxTtl(m)
          PROVE  CopyAges(m)' /\ RequestAges(m)' /\ CallAges(m)'
        <3>1. CopyAges(m) /\ RequestAges(m) /\ CallAges(m)
            BY <2>4 DEF AgeInv
        <3>2. RequestAges(m)' /\ CallAges(m)'
            BY <2>2, <3>1 DEF RequestAges, CallAges, At
        <3>3. ASSUME r.value # None, r.value \notin endless
              PROVE  /\ 1 <= copy.expires /\ now <= copy.expires
                     /\ copy.expires <= copy.origin + (N - s + 1) * m
            <4>1. 1 <= r.ttl /\ r.ttl <= m /\ r.age <= (N - s) * m
                BY <3>1, <3>3 DEF RequestAges
            <4>2. /\ N - s \in Int /\ m \in Nat /\ r.age \in Int
                  /\ r.ttl \in Nat
                BY <2>1, CacheManagerAssumption DEF Requests, Stores
            <4>3. /\ (N - s + 1) * m = (N - s) * m + m /\ (N - s) * m \in Int
                BY <4>2, Scaling
            <4>4. copy.expires = now + r.ttl /\ copy.origin = now - r.age
                BY <4>1, <4>2
            <4> HIDE DEF copy, s
            <4> QED
                BY <2>1, <4>1, <4>2, <4>3, <4>4
        <3> HIDE DEF copy
        <3>4. CopyAges(m)'
            <4> SUFFICES ASSUME NEW q \in Stores, stores'[q] # None,
                                stores'[q].value \notin endless
                         PROVE  /\ 1 <= stores'[q].expires
                                /\ now <= stores'[q].expires
                                /\ stores'[q].expires
                                       <= stores'[q].origin + (N - q + 1) * m
                BY <2>2 DEF CopyAges
            <4>1. CASE q = s
                <5>1. stores'[q] = copy /\ r.value # None
                    BY <1>1, <2>2, <4>1 DEF TypeOK
                <5>2. copy.value = r.value
                    BY DEF copy
                <5> QED
                    BY <3>3, <4>1, <5>1, <5>2
            <4>2. CASE q # s
                <5>1. stores'[q] = stores[q]
                    BY <1>1, <2>2, <4>2 DEF TypeOK
                <5> QED
                    BY <3>1, <5>1 DEF CopyAges
            <4> QED
                BY <4>1, <4>2
        <3> QED
            BY <3>2, <3>4
    <2> QED
        BY <2>3, <2>4 DEF AgeInv, MaxTtl
<1>6. ASSUME NEW r \in requests, Reject(r)
      PROVE  AgeInv'
    <2>1. /\ refresh' = refresh /\ requests' = requests \ {r}
          /\ stores' = stores /\ now' = now /\ endless' = endless
        BY <1>6 DEF Reject
    <2>2. r \in Requests
        BY <1>2
    <2>3. ASSUME NEW d \in Callers, call'[d] # None
          PROVE  \/ call'[d] = call[d]
                 \/ ~ At(d, "look")' /\ ~ At(d, "seen")' /\ ~ At(d, "run")'
        <3>1. CASE r.by = Background \/ d # r.by
            BY <1>2, <1>6, <2>2, <3>1 DEF Reject, CallTypes, Requests, Owners
        <3>2. CASE r.by # Background /\ d = r.by
            <4>1. At(d, "write") /\ call[d] \in Calls
                BY <1>1, <1>2, <3>2 DEF OwnersWait, At, CallTypes
            <4>2. call'[d] = [call[d] EXCEPT !.failed = TRUE]
                BY <1>2, <1>6, <3>2 DEF Reject, CallTypes
            <4>3. call'[d].at = "write"
                BY <4>1, <4>2 DEF At, Calls
            <4> QED
                BY <4>1, <4>3 DEF At
        <3> QED
            BY <3>1, <3>2
    <2>4. TtlsGiven'
        BY <1>1, <2>1, <2>3 DEF TtlsGiven, At
    <2>5. \A d \in Callers : At(d, "seen")' =>
              At(d, "seen") /\ call'[d] = call[d]
        BY <2>3 DEF At
    <2> QED
        BY <2>1, <2>4, <2>5, CallAgesStep
<1>7. ASSUME NEW s \in Stores, Lose(s)
      PROVE  AgeInv'
    BY <1>1, <1>7
    DEF Lose, AgeInv, TtlsGiven, CopyAges, RequestAges, CallAges, At, MaxTtl,
        TypeOK
<1>8. CASE Tick
    <2>1. /\ call' = call /\ refresh' = refresh /\ requests' = requests
          /\ endless' = endless /\ now' = now + 1 /\ now \in Nat
        BY <1>1, <1>8 DEF Tick, TypeOK
    <2>2. ASSUME NEW q \in Stores, stores'[q] # None
          PROVE  /\ stores'[q] = stores[q]
                 /\ stores[q].expires = Never \/ now' <= stores[q].expires
        <3>1. stores[q] \in Copies \cup {None}
            BY <1>1 DEF TypeOK
        <3>2. /\ stores'[q] = stores[q] /\ stores[q] # None
              /\ ~ (stores[q].expires # Never /\ stores[q].expires < now')
            BY <1>8, <2>2 DEF Tick
        <3>3. stores[q].expires \in Nat
            BY <3>1, <3>2 DEF Copies
        <3> QED
            BY <2>1, <3>2, <3>3
    <2>3. TtlsGiven'
        BY <1>1, <2>1 DEF TtlsGiven, At
    <2>4. ASSUME NEW m \in Ttls, MaxTtl(m)
          PROVE  CopyAges(m)' /\ RequestAges(m)' /\ CallAges(m)'
        <3>1. CopyAges(m) /\ RequestAges(m) /\ CallAges(m)
            BY <2>4 DEF AgeInv
        <3>2. RequestAges(m)' /\ CallAges(m)'
            BY <2>1, <3>1 DEF RequestAges, CallAges, At
        <3>3. CopyAges(m)'
            <4> SUFFICES ASSUME NEW q \in Stores, stores'[q] # None,
                                stores'[q].value \notin endless
                         PROVE  /\ 1 <= stores'[q].expires
                                /\ now' <= stores'[q].expires
                                /\ stores'[q].expires
                                       <= stores'[q].origin + (N - q + 1) * m
                BY <2>1 DEF CopyAges
            <4>1. /\ stores'[q] = stores[q]
                  /\ stores[q].expires = Never \/ now' <= stores[q].expires
                BY <2>2
            <4>2. /\ 1 <= stores[q].expires
                  /\ stores[q].expires
                         <= stores[q].origin + (N - q + 1) * m
                BY <3>1, <4>1 DEF CopyAges
            <4> QED
                BY <4>1, <4>2 DEF Never
        <3> QED
            BY <3>2, <3>3
    <2> QED
        BY <2>3, <2>4 DEF AgeInv, MaxTtl
<1> QED
    BY <1>3, <1>4, <1>5, <1>6, <1>7, <1>8 DEF Answer

LEMMA AgeStep == TypeInv /\ AgeInv /\ [Next]_vars => AgeInv'
<1> SUFFICES ASSUME TypeInv, AgeInv, [Next]_vars
             PROVE  AgeInv'
    OBVIOUS
<1>1. ASSUME NEW c \in Callers, Calling(c) PROVE AgeInv'
    BY <1>1, AgeCalling
<1>2. ASSUME NEW c \in Callers, Going(c) PROVE AgeInv'
    BY <1>2, AgeGoing
<1>3. ASSUME \/ RefreshReturns \/ RefreshFails
             \/ \E o \in Owners : Answer(o)
             \/ \E s \in Stores : Lose(s)
             \/ Tick
      PROVE  AgeInv'
    BY <1>3, AgeRest
<1>4. CASE UNCHANGED vars
    BY <1>4
    DEF vars, AgeInv, TtlsGiven, CopyAges, RequestAges, CallAges, At, MaxTtl
<1> QED
    BY <1>1, <1>2, <1>3, <1>4 DEF Next

\* However often a value is copied, it leaves a store within as many TTLs as
\* there are stores from it to the last, for any number of stores.
THEOREM CopiesDoNotLinger == Spec => []AgeBounded
<1>1. AgeInv => AgeBounded
    BY DEF AgeInv, CopyAges, AgeBounded
<1> QED
    BY <1>1, TypesHold, AgeInit, AgeStep, PTL DEF Spec

-----------------------------------------------------------------------------
(* What an undisturbed write supersedes.                                    *)

RequestsAllowed ==
    \A r \in requests : r.value # None => r.value \in allowed

SeenAllowed == \A c \in Callers : At(c, "seen") => call[c].value \in allowed

\* While a clean write is under way all requests are its own, and a store that
\* has answered it holds what it wrote, or nothing.
CleanHolds ==
    \A c \in Callers : At(c, "write") /\ call[c].clean /\ ~ call[c].failed =>
        /\ \A r \in requests : r.by = c /\ r.value = call[c].value
        /\ \A s \in Stores :
               \/ \E r \in requests : r.store = s
               \/ stores[s] = None \/ stores[s].value = call[c].value

RecentInv == OnlyRecentValues /\ RequestsAllowed /\ SeenAllowed /\ CleanHolds

LEMMA RecentInit == Init => RecentInv
BY DEF Init, RecentInv, OnlyRecentValues, RequestsAllowed, SeenAllowed,
       CleanHolds, At

\* A write keeps the invariant if its value is allowed.
LEMMA WriteRecent ==
    ASSUME TypeInv, RecentInv, NEW c \in Callers, ~ At(c, "write"),
           NEW op \in {"wrap", "set", "del"}, NEW to \in SUBSET Stores,
           NEW value \in Versions \cup {None}, NEW ttl \in Nat, NEW age \in Int,
           Write(c, op, to, value, ttl, age),
           stores' = stores, allowed \subseteq allowed',
           value \in allowed' \cup {None}
    PROVE  RecentInv'
<1>0. WriteEffects(c, to, value, ttl, age)
    BY WriteEffect
<1>1. OnlyRecentValues'
    BY DEF RecentInv, OnlyRecentValues
<1>2. ASSUME NEW r \in requests', r \notin requests
      PROVE  r.value = value
    BY <1>0, <1>2 DEF WriteEffects
<1>3. RequestsAllowed'
    BY <1>2 DEF RecentInv, RequestsAllowed
<1>4. \A d \in Callers : call'[d] # None =>
          \/ /\ d = c /\ call'[d].at = "write"
             /\ call'[d].value = value
             /\ call'[d].clean = (requests = {} /\ to = Stores)
             /\ \A r \in requests' : r \in requests \/ r.by = c
             /\ \A s \in to : \E r \in requests' : r.by = c /\ r.store = s
          \/ /\ call[d] \in Calls /\ call[d] # None
             /\ call'[d] = [call[d] EXCEPT !.clean = FALSE]
    BY <1>0 DEF WriteEffects
<1>5. ASSUME NEW d \in Callers, At(d, "seen")'
      PROVE  call'[d].value \in allowed'
    <2>1. /\ call[d] \in Calls /\ call[d] # None
          /\ call'[d] = [call[d] EXCEPT !.clean = FALSE]
        BY <1>4, <1>5 DEF At
    <2>2. At(d, "seen") /\ call'[d].value = call[d].value
        BY <1>5, <2>1 DEF At, Calls
    <2> QED
        BY <2>2 DEF RecentInv, SeenAllowed
<1>6. SeenAllowed'
    BY <1>5 DEF SeenAllowed
<1>7. ASSUME NEW d \in Callers, At(d, "write")', call'[d].clean
      PROVE  /\ \A r \in requests' : r.by = d /\ r.value = call'[d].value
             /\ \A s \in Stores : \E r \in requests' : r.store = s
    <2>1. CASE /\ call[d] \in Calls /\ call[d] # None
               /\ call'[d] = [call[d] EXCEPT !.clean = FALSE]
        BY <1>7, <2>1 DEF Calls
    <2>2. CASE /\ d = c /\ call'[d].value = value
               /\ call'[d].clean = (requests = {} /\ to = Stores)
               /\ \A r \in requests' : r \in requests \/ r.by = c
               /\ \A s \in to : \E r \in requests' : r.by = c /\ r.store = s
        <3>1. requests = {} /\ to = Stores
            BY <1>7, <2>2
        <3> QED
            BY <1>2, <2>2, <3>1
    <2> QED
        BY <1>4, <1>7, <2>1, <2>2 DEF At
<1>8. CleanHolds'
    BY <1>7 DEF CleanHolds
<1> QED
    BY <1>1, <1>3, <1>6, <1>8 DEF RecentInv

\* Calls that end, or go on without a write, keep it.
LEMMA CallRecentStep ==
    ASSUME RecentInv, stores' = stores, requests' = requests,
           allowed' = allowed,
           \A d \in Callers : At(d, "seen")' =>
               call'[d].value \in allowed,
           \A d \in Callers : At(d, "write")' => call'[d] = call[d]
    PROVE  RecentInv'
<1>1. /\ OnlyRecentValues' /\ RequestsAllowed' /\ SeenAllowed'
    BY DEF RecentInv, OnlyRecentValues, RequestsAllowed, SeenAllowed
<1>2. CleanHolds'
    BY DEF RecentInv, CleanHolds, At
<1> QED
    BY <1>1, <1>2 DEF RecentInv

LEMMA RecentCalling ==
    ASSUME TypeInv, RecentInv, NEW c \in Callers, Calling(c)
    PROVE  RecentInv'
<1>1. call[c] = None => ~ At(c, "write")
    BY DEF At
<1>2. TypeOK
    BY DEF TypeInv
<1>3. CASE Del(c)
    <2>1. Write(c, "del", Stores, None, 0, 0) /\ ~ At(c, "write")
        BY <1>1, <1>3 DEF Del
    <2>2. stores' = stores /\ allowed' = allowed
        BY <1>3 DEF Del
    <2> QED
        BY <2>1, <2>2, WriteRecent
<1>4. ASSUME NEW ttl \in Ttls, Set(c, ttl)
      PROVE  RecentInv'
    <2>1. /\ NewValue({ttl}) /\ ~ At(c, "write")
          /\ Write(c, "set", Stores, version', ttl, 0)
          /\ stores' = stores
        BY <1>1, <1>4 DEF Set
    <2>2. /\ version' \in Versions /\ allowed' = allowed \cup {version'}
        BY <1>2, <2>1, NewValueType
    <2>3. ttl \in Nat
        BY CacheManagerAssumption
    <2> QED
        BY <2>1, <2>2, <2>3, WriteRecent
<1>5. ASSUME NEW ttl \in Ttls, NEW threshold \in Thresholds,
             Wrap(c, ttl, threshold)
      PROVE  RecentInv'
    <2>1. PICK new \in {NewCall("wrap", "wait", 0, 0),
                        NewCall("wrap", "look", ttl, threshold)} :
              call' = [call EXCEPT ![c] = new]
        BY <1>5 DEF Wrap
    <2>2. new.at \in {"wait", "look"}
        BY <2>1 DEF NewCall
    <2>3. /\ call'[c] = new
          /\ \A d \in Callers \ {c} : call'[d] = call[d]
        BY <1>2, <2>1 DEF TypeOK
    <2>4. /\ stores' = stores /\ requests' = requests /\ allowed' = allowed
        BY <1>5 DEF Wrap
    <2>5. \A d \in Callers : At(d, "seen")' \/ At(d, "write")' =>
              call'[d] = call[d]
        BY <2>2, <2>3 DEF At
    <2>6. \A d \in Callers : At(d, "seen")' => call'[d].value \in allowed
        BY <2>5 DEF RecentInv, SeenAllowed, At
    <2> QED
        BY <2>4, <2>5, <2>6, CallRecentStep
<1> QED
    BY <1>3, <1>4, <1>5 DEF Calling

LEMMA RecentResume ==
    ASSUME TypeInv, RecentInv, NEW c \in Callers, Resume(c)
    PROVE  RecentInv'
<1> DEFINE mine == {r \in requests : r.by = c}
<1>1. TypeOK
    BY DEF TypeInv
<1>2. /\ call \in CallTypes /\ requests \subseteq Requests
      /\ stores \in [Stores -> Copies \cup {None}]
      /\ call[c] \in Calls /\ At(c, "write") /\ stores' = stores
    BY <1>1 DEF TypeOK, CallTypes, Resume, At
<1>3. /\ \A d \in Callers : call'[d] \in {None, call[d]}
      /\ call'[c] = None
    BY <1>2, SettledType DEF Resume
<1>4. requests' = (requests \ mine)
                      \cup {[r EXCEPT !.by = Background] : r \in mine}
    BY DEF Resume
<1>5. ASSUME NEW d \in Callers, At(d, "write")', call'[d].clean,
             ~ call'[d].failed
      PROVE  /\ \A r \in requests' : r.by = d /\ r.value = call'[d].value
             /\ \A s \in Stores :
                    \/ \E r \in requests' : r.store = s
                    \/ stores[s] = None \/ stores[s].value = call'[d].value
    <2>1. At(d, "write") /\ call'[d] = call[d] /\ d # c
        BY <1>3, <1>5 DEF At
    <2>2. /\ \A r \in requests : r.by = d /\ r.value = call[d].value
          /\ \A s \in Stores :
                 \/ \E r \in requests : r.store = s
                 \/ stores[s] = None \/ stores[s].value = call[d].value
        BY <1>5, <2>1 DEF RecentInv, CleanHolds
    <2>3. requests' = requests
        BY <1>4, <2>1, <2>2
    <2> QED
        BY <2>1, <2>2, <2>3
<1>6. CleanHolds'
    BY <1>2, <1>5 DEF CleanHolds
<1>7. CASE ~ Superseding(c)
    <2>1. allowed' = allowed
        BY <1>7 DEF Resume
    <2>2. \A r \in requests' : \E q \in requests : r.value = q.value
        BY <1>2, <1>4 DEF Requests
    <2>3. OnlyRecentValues' /\ RequestsAllowed'
        BY <1>2, <2>1, <2>2
        DEF RecentInv, OnlyRecentValues, RequestsAllowed
    <2>4. SeenAllowed'
        BY <1>3, <2>1 DEF RecentInv, SeenAllowed, At
    <2> QED
        BY <1>6, <2>3, <2>4 DEF RecentInv
<1>8. CASE Superseding(c)
    <2>1. /\ call[c].clean /\ ~ call[c].failed
          /\ \A d \in Callers : ~ At(d, "seen")
          /\ allowed' = {call[c].value} \ {None} /\ mine = {}
        BY <1>8 DEF Superseding, Resume
    <2>2. /\ \A r \in requests : r.by = c
          /\ \A s \in Stores :
                 \/ \E r \in requests : r.store = s
                 \/ stores[s] = None \/ stores[s].value = call[c].value
        BY <1>2, <2>1 DEF RecentInv, CleanHolds
    <2>3. requests = {} /\ requests' = {}
        BY <1>4, <2>1, <2>2
    <2>4. ASSUME NEW s \in Stores, stores[s] # None
          PROVE  stores[s].value \in allowed'
        <3>1. stores[s].value \in Versions /\ stores[s].value # None
            BY <1>2, <2>4, CacheManagerAssumption DEF Copies, Versions
        <3> QED
            BY <2>1, <2>2, <2>3, <2>4, <3>1
    <2>5. OnlyRecentValues' /\ RequestsAllowed'
        BY <1>2, <2>3, <2>4 DEF OnlyRecentValues, RequestsAllowed
    <2>6. SeenAllowed'
        BY <1>3, <2>1 DEF SeenAllowed, At
    <2> QED
        BY <1>6, <2>5, <2>6 DEF RecentInv
<1> QED
    BY <1>7, <1>8

LEMMA RecentGoing ==
    ASSUME TypeInv, RecentInv, NEW c \in Callers, Going(c)
    PROVE  RecentInv'
<1>1. TypeOK /\ SeenValue
    BY DEF TypeInv
<1>2. call \in CallTypes
    BY <1>1 DEF TypeOK, CallTypes
<1>3. ASSUME NEW at, At(c, at)
      PROVE  call[c] \in Calls /\ call[c].at = at
    BY <1>2, <1>3 DEF At, CallTypes
<1>4. CASE LookMisses(c)
    <2>1. At(c, "look") /\ call[c] \in Calls /\ call[c].at = "look"
        BY <1>3, <1>4 DEF LookMisses
    <2>2. PICK new \in {[call[c] EXCEPT !.store = @ + 1],
                        [call[c] EXCEPT !.at = "run"]} :
              call' = [call EXCEPT ![c] = new]
        BY <1>4 DEF LookMisses
    <2>3. new.at \in {"look", "run"}
        BY <2>1, <2>2 DEF Calls
    <2>4. /\ call'[c] = new
          /\ \A d \in Callers \ {c} : call'[d] = call[d]
        BY <1>2, <2>2 DEF CallTypes
    <2>5. /\ stores' = stores /\ requests' = requests /\ allowed' = allowed
        BY <1>4 DEF LookMisses
    <2>6. \A d \in Callers : At(d, "seen")' \/ At(d, "write")' =>
              call'[d] = call[d]
        BY <2>3, <2>4 DEF At
    <2>7. \A d \in Callers : At(d, "seen")' => call'[d].value \in allowed
        BY <2>6 DEF RecentInv, SeenAllowed, At
    <2> QED
        BY <2>5, <2>6, <2>7, CallRecentStep
<1>5. CASE Look(c)
    <2>1. At(c, "look") /\ call[c] \in Calls /\ call[c].at = "look"
        BY <1>3, <1>5 DEF Look
    <2> DEFINE found == stores[call[c].store]
               new == [call[c] EXCEPT !.at = "seen", !.value = found.value,
                          !.expires = found.expires,
                          !.age = now - found.origin]
    <2>2. found.value \in allowed
        BY <1>5, <2>1 DEF Look, Calls, RecentInv, OnlyRecentValues
    <2>3. call' = [call EXCEPT ![c] = new]
        BY <1>5 DEF Look
    <2>4. new.at = "seen" /\ new.value = found.value
        BY <2>1 DEF Calls
    <2> HIDE DEF new, found
    <2>5. /\ call'[c] = new
          /\ \A d \in Callers \ {c} : call'[d] = call[d]
        BY <1>2, <2>3 DEF CallTypes
    <2>6. /\ stores' = stores /\ requests' = requests /\ allowed' = allowed
        BY <1>5 DEF Look
    <2>7. \A d \in Callers : At(d, "seen")' => call'[d].value \in allowed
        BY <2>2, <2>4, <2>5 DEF RecentInv, SeenAllowed, At
    <2>8. \A d \in Callers : At(d, "write")' => call'[d] = call[d]
        BY <2>4, <2>5 DEF At
    <2> QED
        BY <2>6, <2>7, <2>8, CallRecentStep
<1>6. CASE HitReturns(c) \/ HitRefreshes(c) \/ FunctionFails(c)
    <2>1. /\ call' = Settled(c) /\ requests' = requests
          /\ stores' = stores /\ allowed' = allowed
        BY <1>6 DEF HitReturns, HitRefreshes, FunctionFails
    <2>2. \A d \in Callers : call'[d] \in {None, call[d]}
        BY <1>2, <2>1, SettledType
    <2>3. \A d \in Callers : call'[d] # None => call'[d] = call[d]
        BY <2>2
    <2>4. \A d \in Callers : At(d, "seen")' => call'[d].value \in allowed
        BY <2>3 DEF RecentInv, SeenAllowed, At
    <2>5. \A d \in Callers : At(d, "write")' => call'[d] = call[d]
        BY <2>3 DEF At
    <2> QED
        BY <2>1, <2>4, <2>5, CallRecentStep
<1>7. CASE HitBackfills(c)
    <2> DEFINE to == 1..(call[c].store - 1)
    <2>1. /\ At(c, "seen")
          /\ Write(c, "wrap", to, call[c].value, call[c].ttl, call[c].age)
          /\ stores' = stores /\ allowed' = allowed
        BY <1>7 DEF HitBackfills, Copy
    <2>2. call[c] \in Calls /\ ~ At(c, "write") /\ call[c].value \in Versions
        BY <1>1, <1>3, <2>1 DEF At, SeenValue
    <2>3. call[c].ttl \in Nat /\ call[c].age \in Int /\ to \subseteq Stores
        BY <2>2, CacheManagerAssumption DEF Calls, Stores
    <2>4. call[c].value \in allowed'
        BY <2>1 DEF RecentInv, SeenAllowed
    <2> HIDE DEF to
    <2> QED
        BY <2>1, <2>2, <2>3, <2>4, WriteRecent
<1>8. CASE FunctionReturns(c)
    <2>1. /\ At(c, "run") /\ NewValue({call[c].ttl})
          /\ Write(c, "wrap", Stores, version', call[c].ttl, 0)
          /\ stores' = stores
        BY <1>8 DEF FunctionReturns
    <2>2. call[c] \in Calls /\ ~ At(c, "write") /\ call[c].ttl \in Nat
        BY <1>3, <2>1 DEF At, Calls
    <2>3. version' \in Versions /\ allowed' = allowed \cup {version'}
        BY <1>1, <2>1, NewValueType
    <2> QED
        BY <2>1, <2>2, <2>3, WriteRecent
<1>9. CASE Resume(c)
    BY <1>9, RecentResume
<1> QED
    BY <1>4, <1>5, <1>6, <1>7, <1>8, <1>9 DEF Going

LEMMA RecentRest ==
    ASSUME TypeInv, RecentInv,
           \/ RefreshReturns \/ RefreshFails
           \/ \E o \in Owners : Answer(o)
           \/ \E s \in Stores : Lose(s)
           \/ Tick
    PROVE  RecentInv'
<1>1. TypeOK /\ OwnersWait
    BY DEF TypeInv
<1>2. /\ call \in CallTypes /\ requests \subseteq Requests
      /\ stores \in [Stores -> Copies \cup {None}]
    BY <1>1 DEF TypeOK, CallTypes
<1>3. CASE RefreshReturns
    <2>1. /\ NewValue({r.ttl : r \in refresh})
          /\ requests' = requests \cup RefreshWrites
          /\ call' = Disturbed(call) /\ stores' = stores
        BY <1>3 DEF RefreshReturns, RefreshWrites
    <2>2. version' \in Versions /\ allowed' = allowed \cup {version'}
        BY <1>1, <2>1, NewValueType
    <2>3. \A w \in RefreshWrites : w.value = version'
        BY <1>1, <2>2, RefreshWritesType
    <2>4. OnlyRecentValues' /\ RequestsAllowed'
        BY <2>1, <2>2, <2>3 DEF RecentInv, OnlyRecentValues, RequestsAllowed
    <2>5. ASSUME NEW d \in Callers, call'[d] # None
          PROVE  /\ call[d] # None /\ call'[d].at = call[d].at
                 /\ call'[d].value = call[d].value /\ ~ call'[d].clean
        <3>1. call[d] # None /\ call'[d] = [call[d] EXCEPT !.clean = FALSE]
            BY <1>2, <2>1, <2>5, DisturbedType
        <3>2. call[d] \in Calls
            BY <1>2, <3>1 DEF CallTypes
        <3> QED
            BY <3>1, <3>2 DEF Calls
    <2>6. SeenAllowed'
        BY <2>2, <2>5 DEF RecentInv, SeenAllowed, At
    <2>7. CleanHolds'
        BY <2>5 DEF CleanHolds, At
    <2> QED
        BY <2>4, <2>6, <2>7 DEF RecentInv
<1>4. CASE RefreshFails
    <2>1. /\ call' = call /\ requests' = requests
          /\ stores' = stores /\ allowed' = allowed
        BY <1>4 DEF RefreshFails
    <2>2. \A d \in Callers : At(d, "seen")' => call'[d].value \in allowed
        BY <2>1 DEF RecentInv, SeenAllowed, At
    <2> QED
        BY <2>1, <2>2, CallRecentStep
<1>5. ASSUME NEW r \in requests, Land(r)
      PROVE  RecentInv'
    <2> DEFINE copy == [value |-> r.value, origin |-> now - r.age,
                        expires |-> IF r.ttl = 0 THEN Never ELSE now + r.ttl]
    <2>1. /\ call' = call /\ requests' = requests \ {r} /\ allowed' = allowed
          /\ stores' = [stores EXCEPT ![r.store] =
                            IF r.value = None THEN None ELSE copy]
        BY <1>5 DEF Land
    <2>2. copy.value = r.value
        OBVIOUS
    <2> HIDE DEF copy
    <2>3. r.store \in Stores
        BY <1>2 DEF Requests
    <2>4. ASSUME NEW s \in Stores
          PROVE  \/ s # r.store /\ stores'[s] = stores[s]
                 \/ s = r.store /\ stores'[s] = None
                 \/ s = r.store /\ r.value # None /\ stores'[s].value = r.value
        BY <1>2, <2>1, <2>2
    <2>5. OnlyRecentValues'
        BY <2>1, <2>4
        DEF RecentInv, OnlyRecentValues, RequestsAllowed
    <2>6. RequestsAllowed' /\ SeenAllowed'
        BY <2>1 DEF RecentInv, RequestsAllowed, SeenAllowed, At
    <2>7. ASSUME NEW c \in Callers, At(c, "write")', call'[c].clean,
                 ~ call'[c].failed
          PROVE  /\ \A q \in requests' : q.by = c /\ q.value = call'[c].value
                 /\ \A s \in Stores :
                        \/ \E q \in requests' : q.store = s
                        \/ stores'[s] = None
                        \/ stores'[s].value = call'[c].value
        <3>1. /\ \A q \in requests : q.by = c /\ q.value = call[c].value
              /\ \A s \in Stores :
                     \/ \E q \in requests : q.store = s
                     \/ stores[s] = None \/ stores[s].value = call[c].value
            BY <2>1, <2>7 DEF RecentInv, CleanHolds, At
        <3> QED
            BY <2>1, <2>4, <3>1
    <2>8. CleanHolds'
        BY <2>7 DEF CleanHolds
    <2> QED
        BY <2>5, <2>6, <2>8 DEF RecentInv
<1>6. ASSUME NEW r \in requests, Reject(r)
      PROVE  RecentInv'
    <2>1. /\ requests' = requests \ {r} /\ stores' = stores
          /\ allowed' = allowed
        BY <1>6 DEF Reject
    <2>2. r \in Requests
        BY <1>2
    <2>3. ASSUME NEW d \in Callers, call'[d] # None
          PROVE  \/ call'[d] = call[d] /\ d # r.by
                 \/ ~ At(d, "seen")' /\ call'[d].failed
        <3>1. CASE r.by = Background \/ d # r.by
            BY <1>2, <1>6, <2>2, <3>1, CacheManagerAssumption
            DEF Reject, CallTypes, Requests, Owners
        <3>2. CASE r.by # Background /\ d = r.by
            <4>1. At(d, "write") /\ call[d] \in Calls
                BY <1>1, <1>2, <3>2 DEF OwnersWait, At, CallTypes
            <4>2. call'[d] = [call[d] EXCEPT !.failed = TRUE]
                BY <1>2, <1>6, <3>2 DEF Reject, CallTypes
            <4>3. call'[d].at = "write" /\ call'[d].failed
                BY <4>1, <4>2 DEF At, Calls
            <4> QED
                BY <4>3 DEF At
        <3> QED
            BY <3>1, <3>2
    <2>4. OnlyRecentValues' /\ RequestsAllowed'
        BY <2>1 DEF RecentInv, OnlyRecentValues, RequestsAllowed
    <2>5. SeenAllowed'
        BY <2>1, <2>3 DEF RecentInv, SeenAllowed, At
    <2>6. ASSUME NEW c \in Callers, At(c, "write")', call'[c].clean,
                 ~ call'[c].failed
          PROVE  /\ \A q \in requests' : q.by = c /\ q.value = call'[c].value
                 /\ \A s \in Stores :
                        \/ \E q \in requests' : q.store = s
                        \/ stores'[s] = None
                        \/ stores'[s].value = call'[c].value
        <3>1. call'[c] = call[c] /\ c # r.by
            BY <2>3, <2>6 DEF At
        <3>2. \A q \in requests : q.by = c
            BY <2>6, <3>1 DEF RecentInv, CleanHolds, At
        <3> QED
            BY <3>1, <3>2
    <2>7. CleanHolds'
        BY <2>6 DEF CleanHolds
    <2> QED
        BY <2>4, <2>5, <2>7 DEF RecentInv
<1>7. ASSUME \A s \in Stores : stores'[s] \in {None, stores[s]},
             call' = call, requests' = requests, allowed' = allowed
      PROVE  RecentInv'
    <2>1. OnlyRecentValues' /\ RequestsAllowed' /\ SeenAllowed'
        BY <1>7
        DEF RecentInv, OnlyRecentValues, RequestsAllowed, SeenAllowed, At
    <2>2. CleanHolds'
        BY <1>7 DEF RecentInv, CleanHolds, At
    <2> QED
        BY <2>1, <2>2 DEF RecentInv
<1>8. ASSUME NEW s \in Stores, Lose(s)
      PROVE  RecentInv'
    <2>1. \A q \in Stores : stores'[q] \in {None, stores[q]}
        BY <1>2, <1>8 DEF Lose
    <2> QED
        BY <1>7, <1>8, <2>1 DEF Lose
<1>9. CASE Tick
    <2>1. \A q \in Stores : stores'[q] \in {None, stores[q]}
        BY <1>9 DEF Tick
    <2> QED
        BY <1>7, <1>9, <2>1 DEF Tick
<1> QED
    BY <1>3, <1>4, <1>5, <1>6, <1>8, <1>9 DEF Answer

LEMMA RecentStep == TypeInv /\ RecentInv /\ [Next]_vars => RecentInv'
<1> SUFFICES ASSUME TypeInv, RecentInv, [Next]_vars
             PROVE  RecentInv'
    OBVIOUS
<1>1. ASSUME NEW c \in Callers, Calling(c) PROVE RecentInv'
    BY <1>1, RecentCalling
<1>2. ASSUME NEW c \in Callers, Going(c) PROVE RecentInv'
    BY <1>2, RecentGoing
<1>3. ASSUME \/ RefreshReturns \/ RefreshFails
             \/ \E o \in Owners : Answer(o)
             \/ \E s \in Stores : Lose(s)
             \/ Tick
      PROVE  RecentInv'
    BY <1>3, RecentRest
<1>4. CASE UNCHANGED vars
    BY <1>4
    DEF vars, RecentInv, OnlyRecentValues, RequestsAllowed, SeenAllowed,
        CleanHolds, At
<1> QED
    BY <1>1, <1>2, <1>3, <1>4 DEF Next

\* A write that nothing disturbed supersedes every older value in every store,
\* for any number of stores and callers.
THEOREM NeverOlder == Spec => []OnlyRecentValues
<1>1. RecentInv => OnlyRecentValues
    BY DEF RecentInv
<1> QED
    BY <1>1, TypesHold, RecentInit, RecentStep, PTL DEF Spec

-----------------------------------------------------------------------------
(* Wraps that wait for another's outcome.                                   *)

Lead(calls, c) ==
    calls[c] # None /\ calls[c].op = "wrap" /\ calls[c].at # "wait"

\* Whoever waits has a leader, there is one at most, and only wraps wait, look
\* or run the function.
Led(calls) ==
    /\ \A c \in Callers :
           calls[c] # None /\ calls[c].at = "wait" =>
               \E d \in Callers : Lead(calls, d)
    /\ \A c, d \in Callers : Lead(calls, c) /\ Lead(calls, d) => c = d
    /\ \A c \in Callers :
           calls[c] # None /\ calls[c].at # "write" => calls[c].op = "wrap"

\* A leader that settles leaves nobody waiting; the end of another call leaves
\* the leader where it is.
LEMMA LedSettled ==
    ASSUME call \in CallTypes, Led(call), NEW c \in Callers, ~ At(c, "wait")
    PROVE  Led(Settled(c))
<1>1. \A d \in Callers : Settled(c)[d] \in {None, call[d]}
    BY SettledType
<1>2. CASE call[c] # None /\ call[c].op = "wrap"
    <2>1. \A d \in Callers : At(d, "wait") => Settled(c)[d] = None
        BY <1>2 DEF Settled
    <2> QED
        BY <1>1, <2>1 DEF Led, Lead, At
<1>3. CASE ~ (call[c] # None /\ call[c].op = "wrap")
    <2>1. \A d \in Callers : Settled(c)[d] = IF d = c THEN None ELSE call[d]
        BY <1>3 DEF Settled
    <2>2. ~ Lead(call, c)
        BY <1>3 DEF Lead
    <2> QED
        BY <1>1, <2>1, <2>2 DEF Led, Lead
<1> QED
    BY <1>2, <1>3

\* A call that changes neither its operation nor its place, for any number of
\* calls at once.
LEMMA LedKept ==
    ASSUME NEW calls, NEW new, Led(calls),
           \A c \in Callers : calls[c] = None <=> new[c] = None,
           \A c \in Callers : calls[c] # None =>
               new[c].op = calls[c].op /\ new[c].at = calls[c].at
    PROVE  Led(new)
<1>1. \A c \in Callers : Lead(new, c) <=> Lead(calls, c)
    BY DEF Lead
<1> QED
    BY <1>1 DEF Led

LEMMA LedDisturbed ==
    ASSUME NEW calls \in CallTypes, Led(calls)
    PROVE  Led(Disturbed(calls))
<1>1. \A c \in Callers : calls[c] = None <=> Disturbed(calls)[c] = None
    BY DisturbedType
<1>2. \A c \in Callers : calls[c] # None =>
          /\ Disturbed(calls)[c].op = calls[c].op
          /\ Disturbed(calls)[c].at = calls[c].at
    <2> SUFFICES ASSUME NEW c \in Callers, calls[c] # None
                 PROVE  /\ Disturbed(calls)[c].op = calls[c].op
                        /\ Disturbed(calls)[c].at = calls[c].at
        OBVIOUS
    <2>1. calls[c] \in Calls
        BY DEF CallTypes
    <2>2. Disturbed(calls)[c] = [calls[c] EXCEPT !.clean = FALSE]
        BY DisturbedType
    <2> QED
        BY <2>1, <2>2 DEF Calls
<1> QED
    BY <1>1, <1>2, LedKept

\* A call begins a set or del, or the leader goes on.
LEMMA LedMoved ==
    ASSUME NEW calls \in CallTypes, Led(calls), NEW c \in Callers,
           NEW new, new # None,
           \/ calls[c] = None /\ new.op # "wrap" /\ new.at = "write"
           \/ Lead(calls, c) /\ new.op = "wrap" /\ new.at # "wait"
    PROVE  Led([calls EXCEPT ![c] = new])
<1> DEFINE next == [calls EXCEPT ![c] = new]
<1>1. \A d \in Callers : next[d] = IF d = c THEN new ELSE calls[d]
    BY DEF CallTypes
<1> HIDE DEF next
<1>2. \A d \in Callers : Lead(next, d) <=> Lead(calls, d)
    BY <1>1 DEF Lead
<1>3. Led(next)
    BY <1>1, <1>2 DEF Led
<1> QED
    BY <1>3 DEF next

\* A write by the leader, or one that begins a set or del.
LEMMA LedWrite ==
    ASSUME call \in CallTypes, Led(call), NEW c \in Callers,
           NEW op \in {"wrap", "set", "del"}, NEW to,
           NEW value \in Versions \cup {None}, NEW ttl, NEW age,
           \/ call[c] = None /\ op # "wrap"
           \/ Lead(call, c) /\ op = "wrap",
           Write(c, op, to, value, ttl, age)
    PROVE  Led(call')
<1> DEFINE written == [NewCall(op, "write", 0, 0) EXCEPT
                          !.value = value,
                          !.clean = (requests = {} /\ to = Stores)]
<1>1. CASE options.nonBlocking
    <2>1. Settled(c) \in CallTypes /\ Led(Settled(c))
        BY SettledType, LedSettled DEF Lead, At
    <2>2. call' = Disturbed(Settled(c))
        BY <1>1 DEF Write
    <2> QED
        BY <2>1, <2>2, LedDisturbed
<1>2. CASE ~ options.nonBlocking
    <2>1. call' = [Disturbed(call) EXCEPT ![c] = written]
        BY <1>2 DEF Write
    <2>2. /\ Disturbed(call) \in CallTypes /\ Led(Disturbed(call))
          /\ Disturbed(call)[c] = IF call[c] = None THEN None
                                  ELSE [call[c] EXCEPT !.clean = FALSE]
        BY DisturbedType, LedDisturbed DEF Disturbed
    <2>3. NewCall(op, "write", 0, 0) \in Calls
        BY NewCallType
    <2>4. /\ written.op = op /\ written.at = "write"
          /\ written # None
        <3>1. /\ NewCall(op, "write", 0, 0).op = op
              /\ NewCall(op, "write", 0, 0).at = "write"
            BY DEF NewCall
        <3>2. written.op = op /\ written.at = "write"
            BY <2>3, <3>1 DEF Calls
        <3>3. written # None
            <4>1. written \in Calls
                BY <2>3 DEF Calls
            <4> QED
                BY <4>1, NoneIsNoRecord
        <3> QED
            BY <3>2, <3>3
    <2> HIDE DEF written
    <2>5. Lead(call, c) => Lead(Disturbed(call), c)
        <3> SUFFICES ASSUME Lead(call, c) PROVE Lead(Disturbed(call), c)
            OBVIOUS
        <3>1. call[c] \in Calls
            BY DEF CallTypes, Lead
        <3>2. Disturbed(call)[c] # None
            BY DisturbedType DEF Lead
        <3> QED
            BY <2>2, <3>1, <3>2 DEF Lead, Calls
    <2> QED
        BY <2>1, <2>2, <2>4, <2>5, LedMoved
<1> QED
    BY <1>1, <1>2

LEMMA LedCalling ==
    ASSUME TypeInv, Led(call), NEW c \in Callers, Calling(c)
    PROVE  Led(call')
<1>1. call \in CallTypes
    BY DEF TypeInv, TypeOK, CallTypes
<1>2. CASE Del(c)
    BY <1>1, <1>2, LedWrite DEF Del
<1>3. ASSUME NEW t \in Ttls, Set(c, t)
      PROVE  Led(call')
    <2>1. version' \in Versions
        BY <1>3, NewValueType DEF Set, TypeInv
    <2> QED
        BY <1>1, <1>3, <2>1, LedWrite DEF Set
<1>4. ASSUME NEW t \in Ttls, NEW h \in Thresholds, Wrap(c, t, h)
      PROVE  Led(call')
    <2> DEFINE new == IF Leading THEN NewCall("wrap", "wait", 0, 0)
                                 ELSE NewCall("wrap", "look", t, h)
    <2>1. /\ call[c] = None
          /\ \A d \in Callers : call'[d] = IF d = c THEN new ELSE call[d]
        BY <1>1, <1>4 DEF Wrap, CallTypes
    <2>2. /\ new # None /\ new.op = "wrap"
          /\ new.at = IF Leading THEN "wait" ELSE "look"
        <3>1. new \in Calls
            BY NewCallType, CacheManagerAssumption
        <3> QED
            BY <3>1, NoneIsNoRecord DEF NewCall
    <2>3. Leading <=> \E d \in Callers : Lead(call, d)
        BY DEF Leading, Lead
    <2> HIDE DEF new
    <2> QED
        BY <2>1, <2>2, <2>3 DEF Led, Lead
<1> QED
    BY <1>2, <1>3, <1>4 DEF Calling

LEMMA LedGoing ==
    ASSUME TypeInv, Led(call), NEW c \in Callers, Going(c)
    PROVE  Led(call')
<1>1. call \in CallTypes
    BY DEF TypeInv, TypeOK, CallTypes
<1>2. At(c, "look") \/ At(c, "seen") \/ At(c, "run") =>
          /\ Lead(call, c) /\ ~ At(c, "wait")
          /\ call[c] \in Calls
    BY <1>1 DEF Led, Lead, At, CallTypes
<1>3. CASE LookMisses(c)
    <2>1. PICK new \in {[call[c] EXCEPT !.store = @ + 1],
                        [call[c] EXCEPT !.at = "run"]} :
              /\ call' = [call EXCEPT ![c] = new]
              /\ call[c].store < N \/ new = [call[c] EXCEPT !.at = "run"]
        BY <1>3 DEF LookMisses
    <2>2. call[c] \in Calls /\ Lead(call, c) /\ call[c].at = "look"
        BY <1>2, <1>3 DEF LookMisses, At
    <2>3. new \in Calls /\ new.op = "wrap" /\ new.at # "wait"
        BY <2>1, <2>2, CacheManagerAssumption DEF Calls, Stores, Lead
    <2> QED
        BY <1>1, <2>1, <2>2, <2>3, NoneIsNoRecord, LedMoved
<1>4. CASE Look(c)
    <2> DEFINE found == stores[call[c].store]
               new == [call[c] EXCEPT !.at = "seen", !.value = found.value,
                          !.expires = found.expires,
                          !.age = now - found.origin]
    <2>1. call[c] \in Calls /\ Lead(call, c) /\ found # None
        BY <1>2, <1>4 DEF Look
    <2>2. found \in Copies /\ now \in Nat
        BY <2>1 DEF TypeInv, TypeOK, Calls
    <2>3. /\ found.value \in Versions /\ found.expires \in Nat
          /\ now - found.origin \in Int
        BY <2>2 DEF Copies
    <2>4. call' = [call EXCEPT ![c] = new]
        BY <1>4 DEF Look
    <2> HIDE DEF found
    <2>5. new \in Calls /\ new.op = "wrap" /\ new.at = "seen"
        BY <2>1, <2>3 DEF Calls, Lead
    <2> HIDE DEF new
    <2> QED
        BY <1>1, <2>1, <2>4, <2>5, NoneIsNoRecord, LedMoved
<1>5. CASE HitReturns(c) \/ HitRefreshes(c) \/ FunctionFails(c) \/ Resume(c)
    <2>1. call' = Settled(c) /\ ~ At(c, "wait")
        BY <1>2, <1>5
        DEF HitReturns, HitRefreshes, FunctionFails, Resume, At
    <2> QED
        BY <1>1, <2>1, LedSettled
<1>6. CASE HitBackfills(c)
    <2>1. Lead(call, c) /\ call[c].value \in Versions
        BY <1>2, <1>6 DEF HitBackfills, Copy, TypeInv, SeenValue
    <2>2. Write(c, "wrap", 1..(call[c].store - 1), call[c].value, call[c].ttl,
                call[c].age)
        BY <1>6 DEF HitBackfills, Copy
    <2> QED
        BY <1>1, <2>1, <2>2, LedWrite
<1>7. CASE FunctionReturns(c)
    <2>1. Lead(call, c) /\ version' \in Versions
        BY <1>2, <1>7, NewValueType DEF FunctionReturns, TypeInv
    <2>2. Write(c, "wrap", Stores, version', call[c].ttl, 0)
        BY <1>7 DEF FunctionReturns
    <2> QED
        BY <1>1, <2>1, <2>2, LedWrite
<1> QED
    BY <1>3, <1>4, <1>5, <1>6, <1>7 DEF Going

LEMMA LedStep == TypeInv /\ Led(call) /\ [Next]_vars => Led(call')
<1> SUFFICES ASSUME TypeInv, Led(call), [Next]_vars
             PROVE  Led(call')
    OBVIOUS
<1>1. call \in CallTypes
    BY DEF TypeInv, TypeOK, CallTypes
<1>2. ASSUME NEW c \in Callers, Calling(c) \/ Going(c) PROVE Led(call')
    BY <1>2, LedCalling, LedGoing
<1>3. CASE RefreshReturns
    BY <1>1, <1>3, LedDisturbed DEF RefreshReturns
<1>4. ASSUME NEW r \in requests, Reject(r)
      PROVE  Led(call')
    <2>1. CASE r.by = Background
        BY <1>4, <2>1 DEF Reject
    <2>2. CASE r.by # Background
        <3>1. PICK c \in Callers : c = r.by /\ At(c, "write")
            BY <2>2 DEF TypeInv, TypeOK, OwnersWait, Requests, Owners
        <3> DEFINE new == [call[c] EXCEPT !.failed = TRUE]
        <3>2. call[c] \in Calls
            BY <1>1, <3>1 DEF At, CallTypes
        <3>3. new \in Calls /\ new.op = call[c].op /\ new.at = call[c].at
            BY <3>2 DEF Calls
        <3>4. call' = [call EXCEPT ![c] = new]
            BY <1>4, <2>2, <3>1 DEF Reject
        <3> HIDE DEF new
        <3>5. \A d \in Callers : call'[d] = IF d = c THEN new ELSE call[d]
            BY <1>1, <3>4 DEF CallTypes
        <3> QED
            BY <3>1, <3>3, <3>5, NoneIsNoRecord, LedKept DEF At
    <2> QED
        BY <2>1, <2>2
<1>5. CASE UNCHANGED call
    BY <1>5
<1> QED
    BY <1>2, <1>3, <1>4, <1>5
    DEF Next, Answer, Land, Lose, Tick, RefreshFails, vars

\* A wrap that waits for another's outcome always has a leader, and there is
\* one at most, for any number of stores and callers.
THEOREM NobodyStranded == Spec => []FollowersHaveLeader
<1>1. Init => Led(call)
    BY DEF Init, Led, Lead
<1>2. Led(call) => FollowersHaveLeader
    BY DEF Led, Lead, FollowersHaveLeader, Leaders, Leading, At
<1>3. TypeInv /\ Led(call) /\ [Next]_vars => Led(call)'
    BY LedStep DEF Led, Lead
<1> QED
    BY <1>1, <1>2, <1>3, TypesHold, PTL DEF Spec

=============================================================================
