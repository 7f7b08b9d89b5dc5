----------------------------- MODULE CacheManager -----------------------------
(***************************************************************************)
(* cache-manager: one key of a cache over N Keyv stores, the first of them  *)
(* the fastest.  wrap looks through the stores, copies a value it finds     *)
(* into the stores before, refreshes one about to expire in the background, *)
(* and runs the function if there is none; set and del go to all stores.    *)
(* Store requests land one by one, also after the call that made them.      *)
(* get, mget and ttl only read, mset and mdel are set and del per key, and  *)
(* clear acts on one key as del does.  Left out: events, raw results.       *)
(***************************************************************************)
EXTENDS Integers, FiniteSets

CONSTANTS
    N,           \* number of stores
    Callers,
    Background,  \* owner of the requests that nobody waits for
    Ttls,        \* what resolveTtl returns; 0 is none
    Thresholds,  \* refreshThreshold of a call; 0 is none
    None,
    MaxTime, MaxVersion, MaxRequests  \* bounds of the model

ASSUME CacheManagerAssumption ==
    /\ N \in Nat \ {0}
    /\ MaxTime \in Nat /\ MaxVersion \in Nat /\ MaxRequests \in Nat
    /\ Ttls \subseteq Nat /\ Thresholds \subseteq Nat
    /\ Background \notin Callers
    /\ None \notin Nat

VARIABLES
    stores,    \* the copy of the value in each store
    call,      \* the call of each caller
    refresh,   \* the refreshes that wait for the function in the background
    requests,  \* writes and deletes the stores have not answered
    options,   \* nonBlocking, refreshAllStores
    now,
    version,   \* history: number of values the function or a set has given
    allowed,   \* history: values the stores may hold
    endless    \* history: values that were stored without a TTL

vars == <<stores, call, refresh, requests, options, now, version, allowed,
          endless>>

Stores == 1..N
Versions == 1..MaxVersion
Never == 0
Owners == Callers \cup {Background}

\* origin: the time the value was new, later by the time that copying took.
Copies == [value : Versions, origin : Int, expires : Nat]
\* age: how long the value had been in stores when it was read.
Requests == [by : Owners, store : Stores, value : Versions \cup {None},
             ttl : Nat, age : Int]
Calls == [op : {"wrap", "set", "del"}, at : {"look", "seen", "run", "write", "wait"},
          store : Stores, value : Versions \cup {None}, age : Int,
          expires : Nat, ttl : Nat, threshold : Nat, clean : BOOLEAN,
          failed : BOOLEAN]
Refreshes == [upto : Stores, ttl : Nat]
Options == [nonBlocking : BOOLEAN, refreshAllStores : BOOLEAN]

ASSUME NoneIsNoRecord == None \notin Copies \cup Calls

At(c, at) == call[c] # None /\ call[c].at = at
Leading ==
    \E c \in Callers :
        call[c] # None /\ call[c].op = "wrap" /\ call[c].at # "wait"

-----------------------------------------------------------------------------
(* Writes, as set, del and wrap issue them.                                 *)

\* Mutant: the followers are forgotten.
Settled_LeaderOnly(c) == [call EXCEPT ![c] = None]

\* A leader that settles takes its followers along.
Settled(c) ==
    [d \in Callers |->
        IF d = c \/ (call[c] # None /\ call[c].op = "wrap" /\ At(d, "wait"))
        THEN None ELSE call[d]]

\* Other writes under way are disturbed.
Disturbed(calls) ==
    [d \in Callers |-> IF calls[d] = None THEN None
                       ELSE [calls[d] EXCEPT !.clean = FALSE]]

NewCall(op, at, ttl, threshold) ==
    [op |-> op, at |-> at, store |-> 1, value |-> None, age |-> 0,
     expires |-> Never, ttl |-> ttl, threshold |-> threshold, clean |-> FALSE, failed |-> FALSE]

Writes(owner, to, value, ttl, age) ==
    {[by |-> owner, store |-> s, value |-> value, ttl |-> ttl, age |-> age] :
        s \in to}

\* Caller c writes to the stores `to' and waits for them, unless the cache is
\* non-blocking.  To begin with, a write of all stores is clean if no other is
\* under way.
Write(c, op, to, value, ttl, age) ==
    LET owner == IF options.nonBlocking THEN Background ELSE c
        written == [NewCall(op, "write", 0, 0) EXCEPT
                       !.value = value,
                       !.clean = (requests = {} /\ to = Stores)]
    IN  /\ requests' = requests \cup Writes(owner, to, value, ttl, age)
        /\ call' = IF options.nonBlocking THEN Disturbed(Settled(c))
                   ELSE [Disturbed(call) EXCEPT ![c] = written]

\* The bound of the model keeps off sets, deletes and refreshes, not the writes
\* of a wrap under way.
Room == Cardinality(requests) + N <= MaxRequests

NewValue(ttls) ==
    /\ version < MaxVersion
    /\ version' = version + 1
    /\ allowed' = allowed \cup {version'}
    /\ endless' = IF 0 \in ttls THEN endless \cup {version'} ELSE endless

Set(c, ttl) ==
    /\ call[c] = None /\ Room
    /\ NewValue({ttl})
    /\ Write(c, "set", Stores, version', ttl, 0)
    /\ UNCHANGED <<stores, refresh, options, now>>

Del(c) ==
    /\ call[c] = None /\ Room
    /\ Write(c, "del", Stores, None, 0, 0)
    /\ UNCHANGED <<stores, refresh, options, now, version, allowed, endless>>

\* No other write overlapped this one, and no wrap is about to copy a value.
Superseding(c) ==
    /\ call[c].clean /\ ~ call[c].failed
    /\ \A d \in Callers : ~ At(d, "seen")

\* Mutant: the first request that is granted will do.
Resume_Early(c) ==
    LET mine == {r \in requests : r.by = c} IN
    /\ At(c, "write")
    /\ Cardinality(mine) < N \/ call[c].failed
    /\ call' = Settled(c)
    /\ requests' = (requests \ mine)
                       \cup {[r EXCEPT !.by = Background] : r \in mine}
    /\ allowed' = IF Superseding(c)
                  THEN {call[c].value} \ {None} ELSE allowed
    /\ UNCHANGED <<stores, refresh, options, now, version, endless>>

\* Promise.all: every request has been granted, or one rejected; the others
\* then go on.  A clean write of all stores leaves no other value.
Resume(c) ==
    LET mine == {r \in requests : r.by = c} IN
    /\ At(c, "write")
    /\ mine = {} \/ call[c].failed
    /\ call' = Settled(c)
    /\ requests' = (requests \ mine)
                       \cup {[r EXCEPT !.by = Background] : r \in mine}
    /\ allowed' = IF Superseding(c)
                  THEN {call[c].value} \ {None} ELSE allowed
    /\ UNCHANGED <<stores, refresh, options, now, version, endless>>

-----------------------------------------------------------------------------
(* wrap.                                                                    *)

\* coalesceAsync: one wrap at a time, the others wait for its outcome, and
\* their options play no part.
Wrap(c, ttl, threshold) ==
    /\ call[c] = None
    /\ call' = [call EXCEPT ![c] =
           IF Leading THEN NewCall("wrap", "wait", 0, 0)
                      ELSE NewCall("wrap", "look", ttl, threshold)]
    /\ UNCHANGED <<stores, refresh, requests, options, now, version, allowed,
                   endless>>

\* A read that is rejected counts as a miss.
LookMisses(c) ==
    /\ At(c, "look")
    /\ call' = IF call[c].store < N THEN [call EXCEPT ![c].store = @ + 1]
                                    ELSE [call EXCEPT ![c].at = "run"]
    /\ UNCHANGED <<stores, refresh, requests, options, now, version, allowed,
                   endless>>

\* The store answers with the value it holds; the call goes on later.
Look(c) ==
    LET found == stores[call[c].store] IN
    /\ At(c, "look") /\ found # None
    /\ call' = [call EXCEPT ![c].at = "seen",
           ![c].value = found.value, ![c].expires = found.expires,
           ![c].age = now - found.origin]
    /\ UNCHANGED <<stores, refresh, requests, options, now, version, allowed,
                   endless>>

ShouldRefresh(c) ==
    /\ call[c].threshold # 0 /\ call[c].expires # Never
    /\ call[c].expires - now < call[c].threshold

HitReturns(c) ==
    /\ At(c, "seen") /\ ~ ShouldRefresh(c) /\ call[c].store = 1
    /\ call' = Settled(c)
    /\ UNCHANGED <<stores, refresh, requests, options, now, version, allowed,
                   endless>>

\* The value goes into the stores `to', with a TTL of its own.
Copy(c, to) ==
    /\ At(c, "seen") /\ ~ ShouldRefresh(c) /\ call[c].store > 1
    /\ Write(c, "wrap", to, call[c].value, call[c].ttl, call[c].age)
    /\ endless' = IF call[c].ttl = 0 THEN endless \cup {call[c].value}
                  ELSE endless
    /\ UNCHANGED <<stores, refresh, options, now, version, allowed>>

\* Mutant: the store the value was found in is written, too.
HitBackfills_Inclusive(c) == Copy(c, 1..call[c].store)

\* The stores before the one it was found in.
HitBackfills(c) == Copy(c, 1..(call[c].store - 1))

\* The value is returned, and the function runs unless it does already.
HitRefreshes(c) ==
    /\ At(c, "seen") /\ ShouldRefresh(c)
    /\ refresh' = refresh \cup {[upto |-> call[c].store, ttl |-> call[c].ttl]}
    /\ call' = Settled(c)
    /\ UNCHANGED <<stores, requests, options, now, version, allowed, endless>>

FunctionReturns(c) ==
    /\ At(c, "run")
    /\ NewValue({call[c].ttl})
    /\ Write(c, "wrap", Stores, version', call[c].ttl, 0)
    /\ UNCHANGED <<stores, refresh, options, now>>

FunctionFails(c) ==
    /\ At(c, "run")
    /\ call' = Settled(c)
    /\ UNCHANGED <<stores, refresh, requests, options, now, version, allowed,
                   endless>>

\* Every refresh that waits writes the value to its stores, in the background.
RefreshReturns ==
    /\ refresh # {} /\ Room
    /\ NewValue({r.ttl : r \in refresh})
    /\ requests' = requests \cup UNION
           {Writes(Background,
                   IF options.refreshAllStores THEN Stores ELSE 1..r.upto,
                   version', r.ttl, 0) : r \in refresh}
    /\ call' = Disturbed(call)
    /\ refresh' = {}
    /\ UNCHANGED <<stores, options, now>>

RefreshFails ==
    /\ refresh # {}
    /\ refresh' = {}
    /\ UNCHANGED <<stores, call, requests, options, now, version, allowed,
                   endless>>

-----------------------------------------------------------------------------
(* The stores, and time.                                                    *)

Land(r) ==
    /\ r \in requests
    /\ requests' = requests \ {r}
    /\ stores' = [stores EXCEPT ![r.store] =
           IF r.value = None THEN None
           ELSE [value |-> r.value, origin |-> now - r.age,
                 expires |-> IF r.ttl = 0 THEN Never ELSE now + r.ttl]]
    /\ UNCHANGED <<call, refresh, options, now, version, allowed, endless>>

Reject(r) ==
    /\ r \in requests
    /\ requests' = requests \ {r}
    /\ call' = IF r.by = Background THEN call
               ELSE [call EXCEPT ![r.by].failed = TRUE]
    /\ UNCHANGED <<stores, refresh, options, now, version, allowed, endless>>

\* A store may evict what it holds; an expired entry is as good as none.
Lose(s) ==
    /\ stores[s] # None
    /\ stores' = [stores EXCEPT ![s] = None]
    /\ UNCHANGED <<call, refresh, requests, options, now, version, allowed,
                   endless>>

Tick ==
    /\ now < MaxTime
    /\ now' = now + 1
    /\ stores' = [s \in Stores |->
           IF stores[s] # None /\ stores[s].expires # Never
                               /\ stores[s].expires < now'
           THEN None ELSE stores[s]]
    /\ UNCHANGED <<call, refresh, requests, options, version, allowed, endless>>

Init ==
    /\ stores = [s \in Stores |-> None]
    /\ call = [c \in Callers |-> None]
    /\ refresh = {} /\ requests = {}
    /\ options \in Options
    /\ now = 0 /\ version = 0 /\ allowed = {} /\ endless = {}

Calling(c) ==
    \/ Del(c)
    \/ \E t \in Ttls : Set(c, t) \/ \E h \in Thresholds : Wrap(c, t, h)

Going(c) ==
    \/ LookMisses(c) \/ Look(c) \/ HitReturns(c) \/ HitBackfills(c) \/ HitRefreshes(c)
    \/ FunctionReturns(c) \/ FunctionFails(c) \/ Resume(c)

Answer(c) == \E r \in requests : r.by = c /\ (Land(r) \/ Reject(r))

Next ==
    \/ \E c \in Callers : Calling(c) \/ Going(c)
    \/ \E o \in Owners : Answer(o)
    \/ RefreshReturns \/ RefreshFails
    \/ \E s \in Stores : Lose(s)
    \/ Tick

Spec == Init /\ [][Next]_vars

-----------------------------------------------------------------------------
TypeOK ==
    /\ stores \in [Stores -> Copies \cup {None}]
    /\ call \in [Callers -> Calls \cup {None}]
    /\ refresh \subseteq Refreshes
    /\ requests \subseteq Requests
    /\ options \in Options
    /\ now \in Nat /\ version \in 0..MaxVersion
    /\ allowed \subseteq Versions /\ endless \subseteq Versions

\* A set, a del or a wrap that writes a new value, if all its requests were
\* granted, no other write overlapped it and no wrap held a value it had read,
\* supersedes every older value in every store, whatever back-fills and
\* refreshes ran before.
OnlyRecentValues ==
    \A s \in Stores : stores[s] # None => stores[s].value \in allowed

\* Back-fills renew the TTL, but only upwards: a value that was never stored
\* without one leaves a store within as many TTLs as there are stores from it
\* to the last, not counting the time that copying took.
MaxTtl(m) == \A t \in Ttls : t <= m
AgeBounded ==
    \A m \in Ttls : MaxTtl(m) =>
        \A s \in Stores : stores[s] # None /\ stores[s].value \notin endless =>
            stores[s].expires <= stores[s].origin + (N - s + 1) * m

\* A wrap that waits for another's outcome never loses its leader, however that
\* one ends: by a value found, copied or computed, by an error of the function,
\* or by a store that rejects; and two leaders never run at a time.
Leaders ==
    {c \in Callers : call[c] # None /\ call[c].op = "wrap" /\ call[c].at # "wait"}

FollowersHaveLeader ==
    /\ \A c \in Callers : At(c, "wait") => Leading
    /\ \A c, d \in Leaders : c = d

=============================================================================
