---------------------------- MODULE NodeCacheStore ----------------------------
(***************************************************************************)
(* NodeCacheStore (@cacheable/node-cache): a Keyv store and, beside it in   *)
(* the process, the set of keys, a copy of each value, the deadline of each *)
(* key and a key count.  A method runs up to its await of the store         *)
(* (`issued'), the store answers (`landed'), and the rest of the method     *)
(* updates the process's side.  Calls of several callers, the sweep of the  *)
(* check interval and restarts of the process (the store survives) come in  *)
(* between.  mset, mget and mdel are the calls for their keys in parallel.  *)
(* Left out: hits, misses and byte sizes, clones, the events, which of the  *)
(* given and the default lifetime applies, lifetimes below zero.            *)
(***************************************************************************)
EXTENDS Integers, FiniteSets

CONSTANTS
    Keys, Values,
    Callers,       \* callers, each with one call in flight at most
    Timer,         \* checkData, run by the check interval
    Unaware,       \* actors whose calls overlap others' on the same key
    Lifetimes,     \* what resolveTtl returns, in the clock's unit; 0 is none
    None,
    MaxTime, MaxRestarts \* bounds of the model

ASSUME NodeCacheStoreAssumption ==
    /\ Timer \notin Callers
    /\ Lifetimes \subseteq Nat /\ 0 \in Lifetimes
    /\ None \notin Values \cup Keys \cup Nat
    /\ MaxTime \in Nat /\ MaxRestarts \in Nat

VARIABLES
    keyv,       \* the store: value and deadline of each key
    keys,       \* _keys
    values,     \* _values
    ttls,       \* _ttls: deadline of each key, 0 for none
    count,      \* _stats.count
    settings,   \* _deleteOnExpire, and whether the interval runs
    job,        \* the call of each actor
    sweep,      \* entries checkData has still to look at
    now, restarts,
    survivors,  \* history: keys stored by an earlier process only
    skewed,     \* history: the count lost touch with the keys
    handed      \* history: how many takes returned the stored value

process == <<keys, values, ttls, count>>
vars == <<keyv, process, settings, job, sweep, now, restarts, survivors,
          skewed, handed>>

Actors == Callers \cup {Timer}
Never == 0
Entries == [value : Values, deadline : Nat]
Settings == [deleteOnExpire : BOOLEAN, interval : BOOLEAN]
Ops == {"set", "get", "take", "remove", "del", "setTtl", "expire", "clear"}
Calls == [op : Ops, key : Keys \cup {None}, value : Values \cup {None},
          lifetime : Lifetimes, known : BOOLEAN, landed : BOOLEAN]

ASSUME NoneIsNoEntry == None \notin Entries \cup Calls

Deadline(t) == IF t > 0 THEN now + t ELSE Never

isExpired(k) == ttls[k] # None /\ ttls[k] > 0 /\ ttls[k] < now

\* The value Keyv's get answers with: an expired entry is deleted.
KeyvExpired(k) ==
    keyv[k] # None /\ keyv[k].deadline # Never /\ keyv[k].deadline < now

\* Bound: more than one is as bad as two.
More(n) == IF n < 2 THEN n + 1 ELSE n
Less(n) == IF n = 0 THEN 0 ELSE n - 1

Running(a, op) == job[a] # None /\ job[a].op = op /\ job[a].landed
Waiting(a, op) == job[a] # None /\ job[a].op = op /\ ~ job[a].landed

\* Only unaware actors touch a key (None: all keys) another's call works on.
Alone(a, k) ==
    \A b \in Actors \ {a} :
        job[b] # None /\ {a, b} \cap Unaware = {} =>
            None \notin {k, job[b].key} /\ job[b].key # k

Issue(a, op, k, v, t, known) ==
    /\ job[a] = None /\ Alone(a, k)
    /\ job' = [job EXCEPT ![a] =
           [op |-> op, key |-> k, value |-> v, lifetime |-> t,
            known |-> known, landed |-> FALSE]]

Return(a) == job' = [job EXCEPT ![a] = None]

Answer(a, v, known) ==
    job' = [job EXCEPT ![a].value = v, ![a].known = known,
                       ![a].landed = TRUE]

Forget(k) ==
    /\ keys' = keys \ {k}
    /\ values' = [values EXCEPT ![k] = None]
    /\ ttls' = [ttls EXCEPT ![k] = None]

-----------------------------------------------------------------------------
(* What the store does with a request.                                      *)

Put(a, ops, counts) ==
    \E op \in ops : LET k == job[a].key IN
        /\ Waiting(a, op)
        /\ keyv' = [keyv EXCEPT ![k] = [value |-> job[a].value,
                          deadline |-> Deadline(job[a].lifetime)]]
        /\ handed' = [handed EXCEPT ![k] = counts]
        /\ survivors' = survivors \ {k}
        /\ Answer(a, job[a].value, job[a].known)
        /\ UNCHANGED <<process, settings, sweep, now, restarts, skewed>>

KeyvSet(a) == Put(a, {"set"}, 0)
KeyvSetAgain(a) == Put(a, {"setTtl"}, handed[job[a].key])

KeyvRead(a, op) ==
    LET k == job[a].key IN
        /\ Waiting(a, op)
        /\ keyv' = IF KeyvExpired(k) THEN [keyv EXCEPT ![k] = None] ELSE keyv
        /\ UNCHANGED <<process, settings, sweep, now, restarts, survivors,
                       skewed>>

\* The rest of get only counts a hit or a miss.
GetReturns(a) ==
    /\ KeyvRead(a, "get")
    /\ Return(a)
    /\ UNCHANGED handed

KeyvTake(a) ==
    /\ KeyvRead(a, "take")
    /\ LET k == job[a].key
           v == IF keyv'[k] = None THEN None ELSE keyv[k].value
       IN  /\ Answer(a, v, FALSE)
           /\ handed' = IF v = None THEN handed
                        ELSE [handed EXCEPT ![k] = More(@)]

\* Keyv's delete tells whether there was an entry.
KeyvDelete(a) ==
    \E op \in {"del", "remove", "expire"} : LET k == job[a].key IN
        /\ Waiting(a, op)
        /\ keyv' = [keyv EXCEPT ![k] = None]
        /\ survivors' = survivors \ {k}
        /\ handed' = [handed EXCEPT ![k] = 0]
        /\ Answer(a, job[a].value,
                  IF op = "del" THEN keyv[k] # None ELSE job[a].known)
        /\ UNCHANGED <<process, settings, sweep, now, restarts, skewed>>

KeyvClear(a) ==
    /\ Waiting(a, "clear")
    /\ keyv' = [k \in Keys |-> None]
    /\ survivors' = {} /\ handed' = [k \in Keys |-> 0]
    /\ Answer(a, None, TRUE)
    /\ UNCHANGED <<process, settings, sweep, now, restarts, skewed>>

-----------------------------------------------------------------------------
(* set                                                                      *)

Set(a, k, v, t) ==
    /\ a \in Callers
    /\ Issue(a, "set", k, v, t, values[k] # None)
    /\ keys' = keys \cup {k}
    /\ count' = IF values[k] # None THEN Less(count) ELSE count
    /\ UNCHANGED <<keyv, values, ttls, settings, sweep, now, restarts,
                   survivors, skewed, handed>>

SetReturns(a) ==
    /\ Running(a, "set")
    /\ LET k == job[a].key
       IN  /\ values' = [values EXCEPT ![k] = job[a].value]
           /\ ttls' = [ttls EXCEPT ![k] = Deadline(job[a].lifetime)]
    /\ count' = count + 1
    /\ Return(a)
    /\ UNCHANGED <<keyv, keys, settings, sweep, now, restarts, survivors,
                   skewed, handed>>

(* setTtl                                                                   *)

SetTtl(a, k, t) ==
    /\ a \in Callers
    /\ values[k] # None
    /\ Issue(a, "setTtl", k, values[k], t, TRUE)
    /\ UNCHANGED <<keyv, process, settings, sweep, now, restarts, survivors,
                   skewed, handed>>

\* Mutant: the new deadline is not tracked.
SetTtlReturns_Untracked(a) ==
    /\ Running(a, "setTtl")
    /\ Return(a)
    /\ UNCHANGED <<keyv, process, settings, sweep, now, restarts, survivors,
                   skewed, handed>>

SetTtlReturns(a) ==
    /\ Running(a, "setTtl")
    /\ ttls' = [ttls EXCEPT ![job[a].key] = Deadline(job[a].lifetime)]
    /\ Return(a)
    /\ UNCHANGED <<keyv, keys, values, count, settings, sweep, now, restarts,
                   survivors, skewed, handed>>

(* handleExpired, from get, take, has and getTtl, and from checkData         *)

handleExpired(a, k) ==
    /\ isExpired(k) /\ settings.deleteOnExpire
    /\ Issue(a, "expire", k, None, 0, k \in keys)

AccessExpired(a, k) ==
    /\ a \in Callers
    /\ handleExpired(a, k)
    /\ UNCHANGED <<keyv, process, settings, sweep, now, restarts, survivors,
                   skewed, handed>>

ExpireReturns(a) ==
    /\ Running(a, "expire")
    /\ Forget(job[a].key)
    /\ count' = IF job[a].known THEN Less(count) ELSE count
    /\ Return(a)
    /\ UNCHANGED <<keyv, settings, sweep, now, restarts, survivors, skewed,
                   handed>>

(* get, take                                                                *)

Get(a, k) ==
    /\ a \in Callers
    /\ ~ isExpired(k)
    /\ \E op \in {"get", "take"} : Issue(a, op, k, None, 0, FALSE)
    /\ UNCHANGED <<keyv, process, settings, sweep, now, restarts, survivors,
                   skewed, handed>>

\* A take of a key the process lacks returns what it read.
TakeFindsNone(a) ==
    /\ Running(a, "take") /\ values[job[a].key] = None
    /\ Return(a)
    /\ UNCHANGED <<keyv, process, settings, sweep, now, restarts, survivors,
                   skewed, handed>>

\* Mutant: take returns like get.
TakeRemoves_Not(a) ==
    /\ Running(a, "take") /\ values[job[a].key] # None
    /\ Return(a)
    /\ UNCHANGED <<keyv, process, settings, sweep, now, restarts, survivors,
                   skewed, handed>>

TakeRemoves(a) ==
    /\ Running(a, "take") /\ values[job[a].key] # None
    /\ job' = [job EXCEPT ![a].op = "remove", ![a].landed = FALSE]
    /\ UNCHANGED <<keyv, process, settings, sweep, now, restarts, survivors,
                   skewed, handed>>

TakeReturns(a) ==
    /\ Running(a, "remove")
    /\ Forget(job[a].key)
    /\ count' = Less(count)
    /\ Return(a)
    /\ UNCHANGED <<keyv, settings, sweep, now, restarts, survivors, skewed,
                   handed>>

(* del, clear, flushAll, flushStats                                         *)

Del(a, k) ==
    /\ a \in Callers
    /\ Issue(a, "del", k, None, 0, FALSE)
    /\ UNCHANGED <<keyv, process, settings, sweep, now, restarts, survivors,
                   skewed, handed>>

\* The count goes down for an entry of an earlier process, never counted here.
DelReturns(a) ==
    /\ Running(a, "del")
    /\ Return(a)
    /\ LET k == job[a].key
       IN  IF job[a].known
           THEN /\ Forget(k)
                /\ count' = Less(count)
                /\ skewed' = (skewed \/ k \notin keys)
           ELSE UNCHANGED <<process, skewed>>
    /\ UNCHANGED <<keyv, settings, sweep, now, restarts, survivors, handed>>

Clear(a) ==
    /\ a \in Callers
    /\ Issue(a, "clear", None, None, 0, FALSE)
    /\ UNCHANGED <<keyv, process, settings, sweep, now, restarts, survivors,
                   skewed, handed>>

NothingTracked ==
    /\ keys' = {} /\ count' = 0
    /\ values' = [k \in Keys |-> None] /\ ttls' = [k \in Keys |-> None]
    /\ skewed' = FALSE

ClearReturns(a) ==
    /\ Running(a, "clear")
    /\ NothingTracked
    /\ Return(a)
    /\ UNCHANGED <<keyv, settings, sweep, now, restarts, survivors, handed>>

FlushStats ==
    /\ count' = 0 /\ skewed' = TRUE
    /\ UNCHANGED <<keyv, keys, values, ttls, settings, job, sweep, now,
                   restarts, survivors, handed>>

-----------------------------------------------------------------------------
(* checkData, one sweep at a time; a deadline of 0 is never due.            *)

StartSweep ==
    /\ settings.interval /\ sweep = {} /\ job[Timer] = None
    /\ sweep' = {<<k, ttls[k]>> : k \in {x \in Keys : ttls[x] \notin {None, 0}}}
    /\ UNCHANGED <<keyv, process, settings, job, now, restarts, survivors,
                   skewed, handed>>

SweepEntry(k, deadline) ==
    /\ <<k, deadline>> \in sweep /\ job[Timer] = None
    /\ sweep' = sweep \ {<<k, deadline>>}
    /\ \/ deadline < now /\ handleExpired(Timer, k)
       \/ /\ ~ (deadline < now /\ isExpired(k) /\ settings.deleteOnExpire)
          /\ UNCHANGED job
    /\ UNCHANGED <<keyv, process, settings, now, restarts, survivors, skewed,
                   handed>>

(* The settings, time, and a new process on the same store.                 *)

Configure(s) ==
    /\ s \in Settings \ {settings}
    /\ settings' = s
    /\ UNCHANGED <<keyv, process, job, sweep, now, restarts, survivors, skewed,
                   handed>>

Tick ==
    /\ now < MaxTime
    /\ now' = now + 1
    /\ UNCHANGED <<keyv, process, settings, job, sweep, restarts, survivors,
                   skewed, handed>>

Restart(s) ==
    /\ restarts < MaxRestarts
    /\ restarts' = restarts + 1
    /\ NothingTracked
    /\ settings' = s
    /\ job' = [a \in Actors |-> None] /\ sweep' = {}
    /\ survivors' = {k \in Keys : keyv[k] # None}
    /\ handed' = [k \in Keys |-> 0]
    /\ UNCHANGED <<keyv, now>>

Init ==
    /\ keyv = [k \in Keys |-> None]
    /\ keys = {} /\ count = 0
    /\ values = [k \in Keys |-> None] /\ ttls = [k \in Keys |-> None]
    /\ settings \in Settings
    /\ job = [a \in Actors |-> None] /\ sweep = {}
    /\ now = 1 /\ restarts = 0
    /\ survivors = {} /\ skewed = FALSE
    /\ handed = [k \in Keys |-> 0]

Requests ==
    \E a \in Callers :
        \/ Clear(a)
        \/ \E k \in Keys :
              \/ AccessExpired(a, k) \/ Get(a, k) \/ Del(a, k)
              \/ \E t \in Lifetimes :
                    \/ SetTtl(a, k, t)
                    \/ \E v \in Values : Set(a, k, v, t)

StoreAnswers(a) ==
    \/ KeyvSet(a) \/ KeyvSetAgain(a) \/ KeyvTake(a)
    \/ KeyvDelete(a) \/ KeyvClear(a)

Returns(a) ==
    \/ SetReturns(a) \/ SetTtlReturns(a) \/ ExpireReturns(a) \/ GetReturns(a)
    \/ TakeFindsNone(a) \/ TakeRemoves(a) \/ TakeReturns(a) \/ DelReturns(a) \/ ClearReturns(a)

Next ==
    \/ Requests \/ FlushStats \/ Tick \/ StartSweep
    \/ \E a \in Actors : StoreAnswers(a) \/ Returns(a)
    \/ \E entry \in sweep : SweepEntry(entry[1], entry[2])
    \/ \E s \in Settings : Configure(s) \/ Restart(s)

Spec == Init /\ [][Next]_vars

-----------------------------------------------------------------------------
TypeOK ==
    /\ keyv \in [Keys -> Entries \cup {None}]
    /\ keys \subseteq Keys
    /\ values \in [Keys -> Values \cup {None}]
    /\ ttls \in [Keys -> Nat \cup {None}]
    /\ count \in Nat
    /\ settings \in Settings
    /\ job \in [Actors -> Calls \cup {None}]
    /\ sweep \subseteq Keys \X Nat
    /\ now \in Nat /\ restarts \in 0..MaxRestarts
    /\ survivors \subseteq Keys /\ skewed \in BOOLEAN
    /\ handed \in [Keys -> 0..2]

AtRest(k) == \A a \in Actors : job[a] = None \/ job[a].key \notin {k, None}

\* With calls on a key kept apart, the set of keys, the copied values and the
\* deadlines are of the same keys whenever no call on the key is in flight.
MapsAgree ==
    \A k \in Keys : AtRest(k) =>
        /\ k \in keys <=> values[k] # None
        /\ k \in keys <=> ttls[k] # None

\* And they describe the store: it holds no other entry but an earlier
\* process's, a held value is the copied one and dies no later than the
\* process thinks, and one without a lifetime is held.
StoreAgrees ==
    \A k \in Keys : AtRest(k) =>
        /\ keyv[k] # None /\ k \notin survivors => k \in keys
        /\ keyv[k] # None /\ k \in keys =>
              /\ keyv[k].value = values[k]
              /\ ttls[k] # Never =>
                    keyv[k].deadline # Never /\ keyv[k].deadline <= ttls[k]
        /\ k \in keys /\ ttls[k] = Never =>
              keyv[k] # None /\ keyv[k].deadline = Never

\* getStats().keys is the number of keys, but for flushStats and deletions of
\* an earlier process's entries; an overwritten key is not counted while the
\* new value is on its way.
Overwritten ==
    {k \in Keys : \E a \in Actors :
        job[a] # None /\ job[a].op = "set" /\ job[a].key = k}
CountIsKeys ==
    ~ skewed => count = Cardinality({k \in Keys : values[k] # None} \ Overwritten)

\* Once its calls have returned, what the process keeps beside the store (keys,
\* copies, deadlines and the count) describes what the store holds.
ProcessDescribesStore == MapsAgree /\ StoreAgrees /\ CountIsKeys

\* A stored value is handed out by take once, but for an earlier process's.
TakenOnce == \A k \in Keys \ survivors : handed[k] <= 1

=============================================================================
