------------------------------ MODULE GetOrSet ------------------------------
(***************************************************************************)
(* getOrSet and wrap: a caller reads one key from a cache and on a miss     *)
(* runs a function and stores its result.  coalesceAsync lets the first of  *)
(* the callers that miss run the function; those that come while it is busy *)
(* wait for its outcome.  The cache answers each request in a step of its   *)
(* own, and any other user may set or remove the key meanwhile.             *)
(***************************************************************************)

CONSTANTS
    Callers,
    Values,
    Errors,     \* reasons of rejections, other than `undefined`
    Options,    \* that callers pass
    MayReject,  \* the cache may reject requests
    undefined   \* as a value, a miss; also a reason

Throw == {"no", "function", "store", "all"}

ASSUME GetOrSetAssumption ==
    /\ Options \subseteq [throwErrors : Throw, cacheErrors : BOOLEAN]
    /\ MayReject \in BOOLEAN
    /\ undefined \notin Values \cup Errors

VARIABLES
    store,      \* what the cache holds under the key
    hasKey,     \* coalesceAsync has an entry for the key
    callbacks,  \* the callers in that entry
    caller

callerVars == <<store, hasKey, callbacks, caller>>

Content == Values \cup Errors \cup {undefined}

Outcome == [kind : {"resolved", "rejected"}, value : Content]

Caller ==
    [at : {"idle", "get", "read", "run", "set", "setError", "settle", "wait",
           "done"},
     options : Options,
     value : Content,       \* read, computed, or the reason of a failure
     outcome : Outcome,     \* once settled
     held : BOOLEAN,        \* history: the cache held a value all along
     excuse : BOOLEAN]      \* history: its run failed or returned undefined

Resolved(v) == [kind |-> "resolved", value |-> v]
Rejected(e) == [kind |-> "rejected", value |-> e]

Done(p, outcome) ==
    [caller[p] EXCEPT !.at = "done", !.outcome = outcome, !.value = undefined,
                      !.held = FALSE]

InFlight(p) == caller[p].at \notin {"idle", "done"}
Leading(p) == caller[p].at \in {"run", "set", "setError", "settle"}

\* An error of a type is thrown to a caller with these options.
Throws(options, type) == options.throwErrors \in {"all", type}

\* Mutant: after a failed write the value is not returned.
AfterError_DropsResult(options, type, error, result) ==
    IF Throws(options, type) THEN Rejected(error) ELSE Resolved(undefined)

\* What the function of a leader ends with after an error.
AfterError(options, type, error, result) ==
    IF Throws(options, type) THEN Rejected(error) ELSE Resolved(result)

\* What the followers of a leader get: a falsy reason counts as no error.
Shared(outcome) ==
    IF outcome.value = undefined THEN Resolved(undefined) ELSE outcome

-----------------------------------------------------------------------------
(* History                                                                  *)

\* The content of the cache changes to v.
Held(v) ==
    [q \in Callers |-> [caller[q] EXCEPT !.held = @ /\ v # undefined]]

\* The run of leader p gives no value, to its followers either.
Excused(p) ==
    [q \in Callers |->
        [caller[q] EXCEPT !.excuse = @ \/ q = p \/ q \in callbacks]]

-----------------------------------------------------------------------------
(* Reading the cache                                                        *)

Call(p, options) ==
    /\ ~InFlight(p)
    /\ caller' = [caller EXCEPT ![p] =
           [at |-> "get", options |-> options, value |-> undefined,
            outcome |-> Resolved(undefined),
            held |-> store # undefined, excuse |-> FALSE]]
    /\ UNCHANGED <<store, hasKey, callbacks>>

ReadStore(p) ==
    /\ caller[p].at = "get"
    /\ caller' = [caller EXCEPT ![p].at = "read", ![p].value = store]
    /\ UNCHANGED <<store, hasKey, callbacks>>

\* A read that fails is a miss unless such errors are to be thrown.
RejectRead(p, e) ==
    /\ MayReject
    /\ caller[p].at = "get"
    /\ caller' =
           IF Throws(caller[p].options, "store")
           THEN [caller EXCEPT ![p] = Done(p, Rejected(e))]
           ELSE [caller EXCEPT ![p].at = "read", ![p].value = undefined,
                               ![p].held = FALSE]
    /\ UNCHANGED <<store, hasKey, callbacks>>

\* Mutant: whoever finds a run in flight joins it.
Miss_Joins(p) == caller[p].at = "read" /\ (caller[p].value = undefined \/ hasKey)

Miss(p) == caller[p].at = "read" /\ caller[p].value = undefined

Hit(p) ==
    /\ caller[p].at = "read" /\ caller[p].value # undefined
    /\ caller' = [caller EXCEPT ![p] = Done(p, Resolved(caller[p].value))]
    /\ UNCHANGED <<store, hasKey, callbacks>>

-----------------------------------------------------------------------------
(* coalesceAsync                                                            *)

\* Mutant: the key is not entered.
addKey_Forgotten == FALSE

addKey == TRUE

\* Without an entry for the key the caller makes one and runs the function.
Lead(p) ==
    /\ Miss(p) /\ ~hasKey
    /\ hasKey' = addKey
    /\ caller' = [caller EXCEPT ![p].at = "run"]
    /\ UNCHANGED <<store, callbacks>>

enqueue(p) ==
    /\ Miss(p) /\ hasKey
    /\ callbacks' = callbacks \cup {p}
    /\ caller' = [caller EXCEPT ![p].at = "wait",
           ![p].excuse = \E q \in Callers : Leading(q) /\ caller[q].excuse]
    /\ UNCHANGED <<store, hasKey>>

\* Mutant: the entry stays.
removeKey_Forgotten == TRUE

removeKey == FALSE

\* The leader is done: it takes out the entry and settles all followers.
coalesce(p) ==
    /\ caller[p].at = "settle"
    /\ hasKey' = removeKey /\ callbacks' = {}
    /\ caller' = [q \in Callers |->
           IF q = p THEN Done(p, caller[p].outcome)
           ELSE IF q \in callbacks
                THEN Done(q, Shared(caller[p].outcome))
                ELSE caller[q]]
    /\ UNCHANGED store

-----------------------------------------------------------------------------
(* The leader                                                               *)

RunReturns(p, v) ==
    /\ caller[p].at = "run"
    /\ caller' = [(IF v = undefined THEN Excused(p) ELSE caller) EXCEPT
                      ![p].at = "set", ![p].value = v]
    /\ UNCHANGED <<store, hasKey, callbacks>>

RunRejects(p, e) ==
    /\ caller[p].at = "run"
    /\ caller' = [Excused(p) EXCEPT
           ![p].at = IF caller[p].options.cacheErrors THEN "setError" ELSE "settle",
           ![p].value = e,
           ![p].outcome = AfterError(caller[p].options, "function", e, undefined)]
    /\ UNCHANGED <<store, hasKey, callbacks>>

\* The cache holds the result, or the reason of a failure.
LandSet(p) ==
    /\ caller[p].at = "set"
    /\ store' = caller[p].value
    /\ caller' = [Held(caller[p].value) EXCEPT
           ![p].at = "settle", ![p].outcome = Resolved(caller[p].value)]
    /\ UNCHANGED <<hasKey, callbacks>>

LandError(p) ==
    /\ caller[p].at = "setError"
    /\ store' = caller[p].value
    /\ caller' = [Held(caller[p].value) EXCEPT ![p].at = "settle"]
    /\ UNCHANGED <<hasKey, callbacks>>

RejectSet(p, e) ==
    /\ MayReject
    /\ caller[p].at = "set"
    /\ caller' = [caller EXCEPT ![p].at = "settle",
           ![p].outcome =
               AfterError(caller[p].options, "store", e, caller[p].value)]
    /\ UNCHANGED <<store, hasKey, callbacks>>

RejectError(p) ==
    /\ MayReject
    /\ caller[p].at = "setError"
    /\ caller' = [caller EXCEPT ![p].at = "settle"]
    /\ UNCHANGED <<store, hasKey, callbacks>>

-----------------------------------------------------------------------------
(* Others set or delete the key, or it expires.                             *)
Write(v) ==
    /\ v # store
    /\ store' = v
    /\ caller' = Held(v)
    /\ UNCHANGED <<hasKey, callbacks>>

CallersInit ==
    /\ store = undefined
    /\ hasKey = FALSE /\ callbacks = {}
    /\ caller \in [Callers -> {c \in Caller :
           /\ c.at = "idle" /\ c.value = undefined /\ c.outcome = Resolved(undefined)
           /\ ~c.held /\ ~c.excuse}]

Run(p) ==
    \/ ReadStore(p) \/ Hit(p) \/ Lead(p) \/ enqueue(p) \/ coalesce(p)
    \/ LandSet(p) \/ LandError(p) \/ RejectError(p)
    \/ \E v \in Values \cup {undefined} : RunReturns(p, v)
    \/ \E e \in Errors \cup {undefined} : RunRejects(p, e)
    \/ \E e \in Errors : RejectRead(p, e) \/ RejectSet(p, e)

CallersNext ==
    \/ \E p \in Callers : Run(p) \/ \E o \in Options : Call(p, o)
    \/ \E v \in Values \cup {undefined} : Write(v)

CallersSpec == CallersInit /\ [][CallersNext]_callerVars

\* The cache answers every request and the function settles.
CallersFairSpec == CallersSpec /\ \A p \in Callers : WF_callerVars(Run(p))

-----------------------------------------------------------------------------
CallersTypeOK ==
    /\ store \in Content
    /\ hasKey \in BOOLEAN
    /\ callbacks \subseteq Callers
    /\ caller \in [Callers -> Caller]

\* At most one caller at a time is between the start of the function and the
\* settling of the group, the entry in coalesceAsync exists exactly then, and
\* those who wait are those it lists: nobody waits for a leader that has gone
\* (coalesceAsync).
SingleFlight ==
    /\ \A p, q \in Callers : Leading(p) /\ Leading(q) => p = q
    /\ hasKey <=> \E p \in Callers : Leading(p)
    /\ callbacks = {p \in Callers : caller[p].at = "wait"}
    /\ callbacks # {} => hasKey

\* A caller that finds a value, which nobody removes, and whose read does not
\* fail, neither runs the function nor waits for it, whoever else does
\* (getOrSet).
NoNeedlessRun ==
    \A p \in Callers :
        caller[p].held => ~Leading(p) /\ caller[p].at # "wait"

\* A caller gets `undefined` only if the run it led or joined returned that or
\* failed; a write or read of the cache that fails never costs it the value
\* (getOrSet).
NoResultLost ==
    \A p \in Callers :
        caller[p].at = "done" /\ caller[p].outcome = Resolved(undefined)
            => caller[p].excuse

\* Every caller is answered, whatever fails (getOrSet).
CallersEnd == \A p \in Callers : InFlight(p) ~> ~InFlight(p)
=============================================================================
