------------------------------- MODULE NodeCache -------------------------------
(***************************************************************************)
(* NodeCache (@cacheable/node-cache): a synchronous cache in one Map, its   *)
(* private Stats, and a second Stats subscribed to its events.  An event    *)
(* is emitted in the middle of an operation, and a listener may call the    *)
(* cache again before the operation goes on: `stack' holds what is left of  *)
(* each operation that has been entered.  A step runs to the next event, or *)
(* to the end of an operation.                                              *)
(*                                                                          *)
(* A value stands for the set that stored it: the n-th set stores value n.  *)
(* Left out: hits and misses, clones, wrong types of arguments.             *)
(***************************************************************************)
EXTENDS Stats, SequencesExt, FiniteSetsExt

CONSTANTS
    CacheKeys,
    KeySize, ValueSize,  \* bytes of each key, of the value of each set
    Ttls,                \* arguments, in the clock's unit; Omitted is one
    TrackedCaps,         \* maxTrackedKeys of the subscriber
    Omitted, undefined,
    MaxSets,     \* bound of the model
    Bounds       \* further bounds: how deep calls of listeners are nested, how
                 \* far time goes, which calls and options there are

VARIABLES
    options,     \* stdTTL, deleteOnExpire, maxKeys
    store,       \* the Map: entry of each key
    stats,       \* _stats
    timers,      \* live intervals, and whether intervalId knows one
    stack,       \* operations under way, outermost first
    subscriber,  \* a Stats with nodeCacheStatsEventMap, and its subscriptions
    now, sets,
    bounds,      \* one of Bounds
    told,        \* history: how often the expiry of each value was announced
    sizes        \* history: what the sizes in _stats are worth

cacheVars == <<options, store, stats, timers, stack, subscriber, now, sets, bounds,
          told, sizes>>

Entries == [value : 1 .. MaxSets, ttl : Nat]

Options == [stdTTL : Int, deleteOnExpire : BOOLEAN, maxKeys : Int]

ASSUME NodeCacheAssumption ==
    /\ MaxSets \in Nat
    /\ KeySize \in [CacheKeys -> Nat] /\ ValueSize \in [1 .. MaxSets -> Nat]
    /\ Omitted \in Ttls /\ Ttls \ {Omitted} \subseteq Int
    /\ TrackedCaps \subseteq Nat \cup {Unbounded}
    /\ undefined \notin Entries \cup CacheKeys \cup 1 .. MaxSets
    /\ \A b \in Bounds :
          /\ b.options \subseteq Options /\ b.ttls \subseteq Ttls
          /\ {b.depth, b.time, b.timers} \subseteq Nat /\ b.times \in 0 .. 2

Stored == {k \in CacheKeys : store[k] # undefined}

isExpired(e) == e.ttl > 0 /\ e.ttl < now
Expired(k) == store[k] # undefined /\ isExpired(store[k])

\* getExpirationTimestamp and resolveExpiration: 0 when it is not ahead.
resolveExpiration(t) == IF t > 0 THEN now + t ELSE 0

\* The timestamp that set and ttl store: a negative ttl gives one that has
\* passed, an omitted one the default; 0 is without end.
Expiration(t) ==
    CASE t = Omitted -> resolveExpiration(options.stdTTL)
      [] t # Omitted /\ t < 0 -> Max({1, now + t})
      [] OTHER -> resolveExpiration(t)

----------------------------------------------------------------------------
(* Events and the stack *)

\* Frames in which control is with the listeners of an event.
Listening == {"countSet", "countDel", "flush", "return"}

Frame(do, k, value, old) ==
    [do |-> do, key |-> k, value |-> value, old |-> old, keys |-> <<>>,
     seen |-> {}, ttl |-> Omitted, called |-> FALSE]

\* A call comes from the program, or from a listener, once per event.
MayCall ==
    stack # <<>> =>
        /\ Last(stack).do \in Listening
        /\ ~Last(stack).called
        /\ Cardinality({i \in DOMAIN stack : stack[i].called}) < bounds.depth

Caller == IF stack = <<>> THEN <<>>
          ELSE [stack EXCEPT ![Len(stack)].called = TRUE]

Below == Front(stack)

\* The last event of an operation: a call from its listener that nothing is
\* waiting for is like one from the program.
Return(below) ==
    IF below = <<>> THEN <<>> ELSE Append(below, Frame("return", undefined, undefined, undefined))

\* emit: the subscriber hears an event as often as it subscribed.
Heard(n, k) ==
    LET event == [name |-> n, key |-> k]
        once == applyEvent(subscriber.stats, event)
    IN  [subscriber EXCEPT !.stats =
            CASE subscriber.times = 0 -> @
              [] subscriber.times = 1 -> once
              [] OTHER -> applyEvent(once, event)]

Pending(fs, what) == {i \in DOMAIN fs : fs[i].do \in what}

\* A listener removes or overwrites the key that a set has not counted yet.
Uncounted(fs, k) == \E i \in Pending(fs, {"countSet"}) : fs[i].key = k

----------------------------------------------------------------------------
(* What the operations do up to their first event, on top of a stack *)

\* The error reaches a listener that catches it, or ends every operation.
Throw(below) ==
    /\ \/ stack' = below /\ UNCHANGED sizes
       \/ /\ stack' = <<>>
          /\ sizes' = IF Pending(stack, {"countSet", "countDel"}) = {}
                      THEN sizes ELSE "unknown"
    /\ UNCHANGED <<store, stats, subscriber, sets, told>>

\* maxKeys of zero counts as unset.
Full(k) ==
    /\ options.maxKeys > 0
    /\ Cardinality(Stored) >= options.maxKeys
    /\ store[k] = undefined

\* A key that is new to the Map goes to its end: checkData has yet to see it.
SetEntry(k, t, below) ==
    LET old == IF store[k] = undefined THEN undefined ELSE store[k].value
        ahead == IF old # undefined THEN below
                 ELSE [i \in DOMAIN below |-> [below[i] EXCEPT !.seen = @ \ {k}]]
    IN  /\ sets < MaxSets
        /\ sets' = sets + 1
        /\ store' = [store EXCEPT ![k] = [value |-> sets + 1, ttl |-> Expiration(t)]]
        /\ subscriber' = Heard("set", k)
        /\ stack' = Append(ahead, Frame("countSet", k, sets + 1, old))
        /\ sizes' = IF Uncounted(below, k) THEN "unknown" ELSE sizes
        /\ UNCHANGED <<stats, told>>

Delete(k, below) ==
    /\ store[k] # undefined
    /\ store' = [store EXCEPT ![k] = undefined]
    /\ subscriber' = Heard("del", k)
    /\ stack' = Append(below, Frame("countDel", k, store[k].value, undefined))
    /\ sizes' = IF Uncounted(below, k) THEN "unknown" ELSE sizes
    /\ UNCHANGED <<stats, sets, told>>

\* emit("expired"), the last thing handleExpired does.
Announce(k, value, below) ==
    /\ subscriber' = Heard("expired", k)
    /\ told' = IF options.deleteOnExpire /\ told[value] < 2
               THEN [told EXCEPT ![value] = @ + 1] ELSE told
    /\ stack' = Return(below)
    /\ UNCHANGED <<store, stats, sets, sizes>>

\* Mutant: the event comes before the entry is deleted.
handleExpired_EventFirst(k, below) ==
    LET deleting == IF options.deleteOnExpire
                    THEN Append(below, Frame("del", k, undefined, undefined)) ELSE below
    IN  Announce(k, store[k].value, deleting)

handleExpired(k, below) ==
    IF options.deleteOnExpire
    THEN Delete(k, Append(below, Frame("announce", k, store[k].value, undefined)))
    ELSE Announce(k, store[k].value, below)

FlushStats(below) ==
    /\ stats' = NewStats(TRUE, FALSE, Unbounded)
    /\ subscriber' = Heard("flush_stats", undefined)
    /\ stack' = Return(below)

----------------------------------------------------------------------------
(* Operations *)

Rest == UNCHANGED <<options, timers, now, bounds>>

Set(k, t) ==
    /\ MayCall
    /\ IF Full(k) THEN Throw(Caller) ELSE SetEntry(k, t, Caller)
    /\ Rest

Del(k) == MayCall /\ Delete(k, Caller) /\ Rest

\* get and has, and a take of an entry that has expired; a hit changes nothing.
Get(k) == MayCall /\ Expired(k) /\ handleExpired(k, Caller) /\ Rest

Take(k) == MayCall /\ store[k] # undefined /\ ~Expired(k) /\ Delete(k, Caller) /\ Rest

\* The entry expires after take has looked at it and before its get does: get
\* handles the expiry, and take still deletes the key.
TakeExpiring(k) ==
    /\ MayCall /\ store[k] # undefined
    /\ store[k].ttl = now /\ now < bounds.time
    /\ now' = now + 1
    /\ handleExpired(k, Append(Caller, Frame("del", k, undefined, undefined)))
    /\ UNCHANGED <<options, timers, bounds>>

Ttl(k, t) ==
    /\ MayCall /\ store[k] # undefined
    /\ store' = [store EXCEPT ![k].ttl = Expiration(t)]
    /\ stack' = Caller
    /\ UNCHANGED <<stats, subscriber, sets, told, sizes>>
    /\ Rest

\* mset, mdel and mget call the single operation for one key after another.
Many(do, ks, t) ==
    /\ stack = <<>> /\ bounds.lists
    /\ stack' = Append(Caller, [Frame(do, undefined, undefined, undefined) EXCEPT !.keys = ks, !.ttl = t])
    /\ UNCHANGED <<store, stats, subscriber, sets, told, sizes>>
    /\ Rest

flushStats ==
    /\ MayCall /\ FlushStats(Caller)
    /\ sizes' = CASE Stored = {} /\ Pending(stack, {"countSet", "countDel"}) = {} -> "exact"
                  [] sizes = "unknown" /\ Pending(stack, {"countSet"}) # {} -> "unknown"
                  [] OTHER -> "atMost"
    /\ UNCHANGED <<store, sets, told>>
    /\ Rest

flushAll ==
    /\ MayCall
    /\ store' = [k \in CacheKeys |-> undefined]
    /\ FlushStats(Append(Caller, Frame("flushed", undefined, undefined, undefined)))
    /\ sizes' = IF Pending(stack, {"countSet", "countDel"}) = {} THEN "exact" ELSE "unknown"
    /\ UNCHANGED <<sets, told>>
    /\ Rest

----------------------------------------------------------------------------
(* The rest of an operation, once the listeners have returned *)

\* Mutant: the size of the value that was overwritten stays.
CountSet_KeepsOld(f) ==
    /\ f.do = "countSet"
    /\ LET grown == IF f.old = undefined
                    THEN increment(increment(stats, "ksize", KeySize[f.key]),
                                   "vsize", ValueSize[f.value])
                    ELSE increment(stats, "vsize", ValueSize[f.value])
       IN  stats' = setCount(grown, Cardinality(Stored))
    /\ stack' = Below
    /\ UNCHANGED <<store, subscriber, sets, told, sizes>>

\* The sizes and the count, after the event of a set.
CountSet(f) ==
    /\ f.do = "countSet"
    /\ LET freed == IF f.old = undefined THEN stats
                    ELSE decrease(decrease(stats, "ksize", KeySize[f.key]),
                                  "vsize", ValueSize[f.old])
           grown == increment(increment(freed, "ksize", KeySize[f.key]),
                              "vsize", ValueSize[f.value])
       IN  stats' = setCount(grown, Cardinality(Stored))
    /\ stack' = Below
    /\ UNCHANGED <<store, subscriber, sets, told, sizes>>

CountDel(f) ==
    /\ f.do = "countDel"
    /\ LET freed == decrease(decrease(stats, "ksize", KeySize[f.key]),
                             "vsize", ValueSize[f.value])
       IN  stats' = setCount(freed, Cardinality(Stored))
    /\ stack' = Below
    /\ UNCHANGED <<store, subscriber, sets, told, sizes>>

Pop == stack' = Below /\ UNCHANGED <<store, stats, subscriber, sets, told, sizes>>

Flushed(f) ==
    /\ f.do = "flushed"
    /\ subscriber' = Heard("flush", undefined)
    /\ stack' = Return(Below)
    /\ UNCHANGED <<store, stats, sets, told, sizes>>

DelTaken(f) ==
    /\ f.do = "del"
    /\ IF store[f.key] = undefined THEN Pop ELSE Delete(f.key, Below)

\* One key of mset, mdel or mget.
NextKey(f) ==
    LET k == Head(f.keys)
        below == Append(Below, [f EXCEPT !.keys = Tail(@)])
        Skip == stack' = below /\ UNCHANGED <<store, stats, subscriber, sets, told, sizes>>
    IN  /\ f.do \in {"mset", "mdel", "mget"} /\ f.keys # <<>>
        /\ CASE f.do = "mset" /\ sets = MaxSets -> Skip
             [] f.do = "mset" /\ sets < MaxSets ->
                   IF Full(k) THEN Throw(Below) ELSE SetEntry(k, f.ttl, below)
             [] f.do = "mdel" -> IF store[k] = undefined THEN Skip ELSE Delete(k, below)
             [] f.do = "mget" -> IF Expired(k) THEN handleExpired(k, below) ELSE Skip

\* Mutant: the check stops at the first entry that has not expired.
CheckNext_StopsEarly(f) ==
    /\ f.do = "check"
    /\ IF \E k \in CacheKeys \ f.seen : store[k] # undefined /\ ~Expired(k) THEN Pop
       ELSE \/ \E k \in CacheKeys \ f.seen :
                  /\ Expired(k)
                  /\ handleExpired(k, Append(Below, [f EXCEPT !.seen = @ \cup {k}]))
            \/ (\A k \in CacheKeys \ f.seen : ~Expired(k)) /\ Pop

\* checkData looks at every entry, in the order of the Map; those that have
\* not expired need no step.
CheckNext(f) ==
    /\ f.do = "check"
    /\ \/ \E k \in CacheKeys \ f.seen : /\ Expired(k)
                                   /\ handleExpired(k, Append(Below, [f EXCEPT !.seen = @ \cup {k}]))
       \/ (\A k \in CacheKeys \ f.seen : ~Expired(k)) /\ Pop

Resume ==
    /\ stack # <<>>
    /\ LET f == Last(stack)
       IN  \/ CountSet(f)
           \/ CountDel(f)
           \/ Flushed(f)
           \/ DelTaken(f)
           \/ NextKey(f)
           \/ CheckNext(f)
           \/ f.do = "announce" /\ Announce(f.key, f.value, Below)
           \/ (f.do = "return" \/ (f.do \in {"mset", "mdel", "mget"} /\ f.keys = <<>>)) /\ Pop
    /\ Rest

----------------------------------------------------------------------------
(* The interval and the subscriber *)

CheckData ==
    /\ stack = <<>> /\ timers.live > 0
    /\ \E k \in CacheKeys : Expired(k)
    /\ stack' = <<Frame("check", undefined, undefined, undefined)>>
    /\ UNCHANGED <<store, stats, subscriber, sets, told, sizes>>
    /\ Rest

\* A second start forgets the interval of the first.
StartInterval ==
    /\ stack = <<>> /\ timers.live < bounds.timers /\ bounds.timers > 1
    /\ timers' = [live |-> timers.live + 1, known |-> TRUE]
    /\ UNCHANGED <<options, store, stats, stack, subscriber, now, sets, bounds, told, sizes>>

StopInterval ==
    /\ stack = <<>> /\ timers.known /\ bounds.timers > 1
    /\ timers' = [live |-> timers.live - 1, known |-> FALSE]
    /\ UNCHANGED <<options, store, stats, stack, subscriber, now, sets, bounds, told, sizes>>

Subscriber ==
    /\ stack = <<>> /\ bounds.times > 0
    /\ LET s == subscriber.stats
       IN  \/ subscriber.times < bounds.times /\ subscriber' = [subscriber EXCEPT !.times = @ + 1]
           \/ subscriber.times > 0 /\ subscriber' = [subscriber EXCEPT !.times = 0]
           \/ \E s2 \in {[s EXCEPT !.enabled = ~@], clearKeys(s)} :
                 subscriber' = [subscriber EXCEPT !.stats = s2]
    /\ UNCHANGED <<options, store, stats, timers, stack, now, sets, bounds, told, sizes>>

Tick ==
    /\ stack = <<>> /\ now < bounds.time
    /\ now' = now + 1
    /\ UNCHANGED <<options, store, stats, timers, stack, subscriber, sets, bounds, told, sizes>>

CacheInit ==
    /\ bounds \in Bounds
    /\ options \in bounds.options
    /\ store = [k \in CacheKeys |-> undefined]
    /\ stats = NewStats(TRUE, FALSE, Unbounded)
    /\ timers = [live |-> 1, known |-> TRUE]
    /\ stack = <<>>
    /\ \E cap \in TrackedCaps :
          subscriber = [stats |-> NewStats(TRUE, TRUE, cap), times |-> 0]
    /\ now = 2 /\ sets = 0
    /\ told = [v \in 1 .. MaxSets |-> 0]
    /\ sizes = "exact"

CacheNext ==
    \/ \E k \in CacheKeys : \/ \E t \in bounds.ttls : Set(k, t) \/ Ttl(k, t)
                       \/ Del(k) \/ Get(k) \/ Take(k) \/ TakeExpiring(k)
    \/ \E do \in {"mset", "mdel", "mget"}, j, k \in CacheKeys, t \in bounds.ttls \cup {Omitted} :
          j # k /\ (do # "mset" => t = Omitted) /\ Many(do, <<j, k>>, t)
    \/ flushStats \/ flushAll
    \/ Resume
    \/ CheckData \/ StartInterval \/ StopInterval
    \/ Subscriber \/ Tick

\* Listeners return, and between two calls of the program the event loop gets
\* to run the callback of a live interval.
CacheSpec == CacheInit /\ [][CacheNext]_cacheVars /\ WF_cacheVars(Resume) /\ SF_cacheVars(CheckData)

----------------------------------------------------------------------------
(* Properties *)

Frames ==
    [do : {"countSet", "countDel", "announce", "return", "flushed", "del",
           "mset", "mdel", "mget", "check"},
     key : CacheKeys \cup {undefined}, value : 1 .. MaxSets \cup {undefined},
     old : 1 .. MaxSets \cup {undefined}, keys : Seq(CacheKeys), seen : SUBSET CacheKeys,
     ttl : Ttls, called : BOOLEAN]

\* The variables hold what the fields of the two classes hold; no operation
\* is entered deeper than the model allows.
CacheTypeOK ==
    /\ options \in Options
    /\ store \in [CacheKeys -> Entries \cup {undefined}]
    /\ stats \in AllStats(CacheKeys)
    /\ timers \in [live : Nat, known : BOOLEAN]
    /\ stack \in Seq(Frames)
    /\ subscriber \in [stats : AllStats(CacheKeys), times : 0 .. 2]
    /\ now \in Nat /\ sets \in 0 .. MaxSets
    /\ told \in [1 .. MaxSets -> 0 .. 2]
    /\ sizes \in {"exact", "atMost", "unknown"}

KSizeOfStore == SumFunctionOnSet(KeySize, Stored)
VSizeOfStore == SumFunctionOnSet([k \in Stored |-> ValueSize[store[k].value]], Stored)

\* Between operations, getStats reports the number and the sizes of what is
\* stored, however calls from listeners were nested; after a flushStats with
\* entries left, at most that.  The exceptions the code has: a listener of a
\* set that removes or overwrites the same key, and a listener whose error
\* ends the operation.
StatsMatchStore ==
    stack = <<>> =>
        /\ sizes = "exact" =>
              /\ stats.count = Cardinality(Stored)
              /\ stats.ksize = KSizeOfStore
              /\ stats.vsize = VSizeOfStore
        /\ sizes = "atMost" =>
              stats.ksize <= KSizeOfStore /\ stats.vsize <= VSizeOfStore

\* With deleteOnExpire, no value's expiry is announced twice, neither by the
\* interval meeting a get nor by listeners that call the cache; and when it is
\* announced the value is gone.
ExpiryToldOnce ==
    options.deleteOnExpire =>
        \A v \in 1 .. MaxSets :
            /\ told[v] <= 1
            /\ told[v] = 1 => \A k \in Stored : store[k].value # v

\* What the subscriber recorded for single keys never exceeds its totals, and
\* it tracks no more keys than its cap, but always one.
SumOf(field) ==
    LET ks == subscriber.stats.trackedKeys
    IN  SumFunctionOnSet([i \in DOMAIN ks |-> ks[i][field]], DOMAIN ks)

KeysWithinTotals ==
    LET s == subscriber.stats
    IN  /\ SumOf("sets") <= s.sets /\ SumOf("deletes") <= s.deletes
        /\ Cardinality(Tracked(s)) = Len(s.trackedKeys)
        /\ s.maxTrackedKeys # Unbounded =>
              Len(s.trackedKeys) <= Max({1, s.maxTrackedKeys})

\* maxKeys holds whatever listeners add while a set is under way.
LimitKept == options.maxKeys > 0 => Cardinality(Stored) <= options.maxKeys

\* The key of a set that was recorded is tracked: making room does not drop it.
RecordedStaysTracked ==
    \A k \in CacheKeys :
        (/\ subscriber'.stats.sets > subscriber.stats.sets
         /\ subscriber.stats.trackKeys
         /\ Last(stack').key = k)
        => k \in Tracked(subscriber'.stats)

\* No step takes the cache or its statistics beyond their caps, and none keeps a
\* cap by forgetting what it has just been told.
CapsKept == [][LimitKept' /\ KeysWithinTotals' /\ RecordedStaysTracked]_cacheVars

\* While an interval runs, an expired entry does not stay.
ExpiredLeaves ==
    \A k \in CacheKeys :
        (options.deleteOnExpire /\ timers.live > 0 /\ Expired(k))
            ~> (timers.live = 0 \/ ~Expired(k))

=============================================================================
