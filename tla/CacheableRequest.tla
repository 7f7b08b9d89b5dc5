---------------------------- MODULE CacheableRequest ----------------------------
(***************************************************************************)
(* CacheableRequest (cacheable-request): requests for one URL through a      *)
(* cache of responses.  A request looks the response up, answers from the    *)
(* cache, or asks the origin, with the entry it found to be revalidated; the *)
(* response is handed out while its body is still being read and stored in   *)
(* the background.                                                           *)
(*                                                                           *)
(* A body is the version of the resource it shows.  The origin, the          *)
(* connection, Keyv and http-cache-semantics are external: a response is     *)
(* fresh for MaxAge from the arrival of its headers, and the origin answers  *)
(* 304 to the version it still has.  Left out: keys and headers, hooks that  *)
(* change values, TTLs of the store (an entry may be lost at any time),      *)
(* stale-if-error.                                                           *)
(***************************************************************************)
EXTENDS Integers, FiniteSets

CONSTANTS
    Requests,
    Options,      \* of each request, the options it may have
    None,
    MaxAge,
    MaxDelay,     \* from the origin's answer to the arrival of its headers
    Starts,       \* what the cache may hold at the start
    MaxVersion, MaxTime   \* bounds of the model

VARIABLES
    cache,        \* the entry: version, whether the body is whole, expiry
    origin,       \* current version, and when each version was replaced
    step,         \* where each request is
    options,      \* its cache, forceRefresh and automaticFailover
    revalidate,   \* the entry it revalidates
    answer,       \* what the origin was asked for, and answered
    connection,
    background,   \* what goes on in the background of a response
    listening,    \* whether it listens to errors of the cache
    outcome,      \* the response it emitted, and whether it emitted errors
    now

vars == <<cache, origin, step, options, revalidate, answer, connection,
          background, listening, outcome, now>>

Versions == 1 .. MaxVersion
Times == 0 .. MaxTime + MaxAge
Values == [version : Versions, whole : BOOLEAN, expires : Times]

RequestOptions == [cache : BOOLEAN, forceRefresh : BOOLEAN, automaticFailover : BOOLEAN]

\* What is in the cache at the start is whole, and came at time 0 at the latest.
ASSUME CacheableRequestAssumption ==
    /\ MaxAge \in Nat /\ MaxDelay \in Nat /\ MaxTime \in Nat
    /\ MaxVersion \in Nat \ {0}
    /\ Options \in [Requests -> SUBSET RequestOptions]
    /\ Starts \subseteq {e \in Values : e.whole /\ e.expires <= MaxAge} \cup {None}
    /\ None \notin Versions \cup Values \cup RequestOptions
    /\ None \notin [kind : {"hit", "new", "bare", "validated"}, version : Versions]

NoAnswer == [etag |-> None, version |-> None, modified |-> TRUE, storable |-> FALSE, at |-> 0]
Idle == [do |-> "none", value |-> None]

Value(version, whole) == [version |-> version, whole |-> whole, expires |-> now + MaxAge]

\* policy.satisfiesWithoutRevalidation
Satisfies(e) == now < e.expires

----------------------------------------------------------------------------
(* Events on the emitter of a request *)

Emitted(r, kind, version) ==
    /\ listening' = [listening EXCEPT ![r] = FALSE]
    /\ outcome' = [outcome EXCEPT ![r].response = [kind |-> kind, version |-> version]]

EmitError(rs) ==
    /\ listening' = [q \in Requests |-> listening[q] /\ q \notin rs]
    /\ outcome' = [q \in Requests |-> IF q \in rs THEN [outcome[q] EXCEPT !.failed = TRUE]
                                                  ELSE outcome[q]]

\* The requests that pass on an error Keyv emits.
Listeners == {q \in Requests : listening[q]}

\* The handler has returned, or will not run: its closure is gone.
Done(r) ==
    /\ step' = [step EXCEPT ![r] = "done"]
    /\ options' = [options EXCEPT ![r] = None]
    /\ answer' = [answer EXCEPT ![r] = NoAnswer]
    /\ revalidate' = [revalidate EXCEPT ![r] = None]

----------------------------------------------------------------------------
(* makeRequest *)

\* The request is made with the version it is conditional on.
Sent(r, etag, entry) ==
    /\ step' = [step EXCEPT ![r] = "sent"]
    /\ connection' = [connection EXCEPT ![r] = "open"]
    /\ answer' = [answer EXCEPT ![r] = [NoAnswer EXCEPT !.etag = etag]]
    /\ revalidate' = [revalidate EXCEPT ![r] = entry]
    /\ UNCHANGED options

\* The request function throws.
NotSent(r) == Done(r) /\ UNCHANGED connection

MakeRequest(r, etag, entry, failing) ==
    \/ Sent(r, etag, entry)
       /\ IF failing = {} THEN UNCHANGED <<listening, outcome>> ELSE EmitError(failing)
    \/ NotSent(r) /\ EmitError(failing \cup {r})

\* Mutant: failover without a request.
Catch_NoRequest(r, failing) == NotSent(r) /\ UNCHANGED <<listening, outcome>>

\* The look-up failed: with automaticFailover the request is made all the
\* same, but the error is emitted.
Catch(r, failing) ==
    IF options[r].automaticFailover
    THEN MakeRequest(r, None, None, failing \cup {r})
    ELSE NotSent(r) /\ EmitError(failing \cup {r})

----------------------------------------------------------------------------
(* get *)

Start(r, o) ==
    /\ step[r] = "idle"
    /\ step' = [step EXCEPT ![r] = "lookUp"]
    /\ options' = [options EXCEPT ![r] = o]
    /\ listening' = [listening EXCEPT ![r] = TRUE]
    /\ UNCHANGED <<cache, origin, revalidate, answer, connection, background, outcome, now>>

\* A forced refresh without an entry fails on the missing entry.
FoundNothing(r, failing) ==
    IF options[r].forceRefresh THEN Catch(r, failing)
    ELSE MakeRequest(r, None, None, failing)

FoundFresh(r, e) ==
    IF options[r].forceRefresh
    THEN /\ step' = [step EXCEPT ![r] = "delete"]
         /\ answer' = [answer EXCEPT ![r].etag = e.version]
         /\ UNCHANGED <<options, connection, revalidate, listening, outcome>>
    ELSE /\ Emitted(r, "hit", e.version)
         /\ Done(r)
         /\ UNCHANGED connection

LookUp(r) ==
    /\ step[r] = "lookUp"
    /\ LET e == IF options[r].cache THEN cache ELSE None
       IN  CASE e = None -> FoundNothing(r, {})
             [] e # None /\ Satisfies(e) -> FoundFresh(r, e)
             [] OTHER -> MakeRequest(r, e.version, e, {})
    /\ UNCHANGED <<cache, origin, background, now>>

\* The store fails: Keyv emits an error, which every request under way passes
\* on, and throws it or reports no entry; another store only throws.
LookUpFails(r) ==
    /\ step[r] = "lookUp" /\ options[r].cache
    /\ \/ \E heard \in {{}, Listeners} : Catch(r, heard)
       \/ FoundNothing(r, Listeners)
    /\ UNCHANGED <<cache, origin, background, now>>

\* forceRefresh: the entry is deleted and the request is conditional on it,
\* but revalidate is not set.  A delete that fails is as a look-up that does.
DeleteReturns(r) ==
    /\ step[r] = "delete"
    /\ \/ cache' = None /\ MakeRequest(r, answer[r].etag, None, {})
       \/ /\ \/ \E heard \in {{}, Listeners} : Catch(r, heard)
             \/ MakeRequest(r, answer[r].etag, None, Listeners)
          /\ UNCHANGED cache
    /\ UNCHANGED <<origin, background, now>>

----------------------------------------------------------------------------
(* handler *)

\* The origin answers; its answer is on its way for MaxDelay at most.
Answer(r) ==
    /\ step[r] = "sent"
    /\ \E storable \in BOOLEAN :
          answer' = [answer EXCEPT ![r] =
             [etag |-> @.etag, version |-> origin.version,
              modified |-> @.etag # origin.version, storable |-> storable, at |-> now]]
    /\ step' = [step EXCEPT ![r] = "answered"]
    /\ UNCHANGED <<cache, origin, options, revalidate, connection, background,
                   listening, outcome, now>>

\* Mutant: a 304 is stored as it is.
Behind_Bare(r, do, value) ==
    IF options[r].cache /\ answer[r].storable THEN [do |-> do, value |-> value] ELSE Idle

\* What happens to the response besides handing it out; a 304 is not storable.
Behind(r, do, value) ==
    CASE options[r].cache /\ answer[r].storable /\ value # None -> [do |-> do, value |-> value]
      [] options[r].cache /\ ~answer[r].storable /\ revalidate[r] # None ->
            [do |-> "delete", value |-> None]
      [] OTHER -> Idle

\* The handler runs.  Of a response that is not modified it waits for the end,
\* with the policy it has computed.
Handle(r) ==
    /\ step[r] = "answered"
    /\ LET a == answer[r]
       IN  \/ /\ ~a.modified /\ revalidate[r] # None
              /\ step' = [step EXCEPT ![r] = "drain"]
              /\ revalidate' = [revalidate EXCEPT ![r].expires = now + MaxAge]
              /\ UNCHANGED <<options, answer, background, listening, outcome>>
           \/ /\ a.modified \/ revalidate[r] = None
              /\ Done(r)
              /\ Emitted(r, IF a.modified THEN "new" ELSE "bare", a.version)
              /\ background' = [background EXCEPT ![r] =
                    Behind(r, "read", IF a.modified THEN Value(a.version, FALSE) ELSE None)]
    /\ UNCHANGED <<cache, origin, connection, now>>

\* Mutant: the body is that of the entry there is by now.
Rebuilt_FromCache(r) == IF cache = None THEN revalidate[r] ELSE cache

\* The response made of the entry that was revalidated.
Rebuilt(r) == revalidate[r]

Drained(r) ==
    /\ step[r] = "drain" /\ connection[r] = "open"
    /\ Done(r)
    /\ Emitted(r, "validated", Rebuilt(r).version)
    /\ background' = [background EXCEPT ![r] = Behind(r, "store", Rebuilt(r))]
    /\ UNCHANGED <<cache, origin, connection, now>>

----------------------------------------------------------------------------
(* In the background of a response *)

\* The body has been read to its end.
BodyEnds(r) ==
    /\ background[r].do = "read" /\ connection[r] = "open"
    /\ background' = [background EXCEPT ![r].do = "store", ![r].value.whole = TRUE]
    /\ UNCHANGED <<cache, origin, step, options, revalidate, answer, connection,
                   listening, outcome, now>>

Stored(r) ==
    /\ background[r].do = "store"
    /\ cache' = background[r].value
    /\ UNCHANGED <<listening, outcome>>

Removed(r) ==
    /\ background[r].do = "delete"
    /\ cache' = None
    /\ UNCHANGED <<listening, outcome>>

\* Keyv emits the error to the requests under way; when the store also
\* throws it, the request's own emitter has it too.
BackgroundFails(r) ==
    /\ background[r].do \in {"store", "delete"}
    /\ \E failing \in {{r}, Listeners, Listeners \cup {r}} : EmitError(failing)
    /\ UNCHANGED cache

BackgroundReturns(r) ==
    /\ Stored(r) \/ Removed(r) \/ BackgroundFails(r)
    /\ background' = [background EXCEPT ![r] = Idle]
    /\ UNCHANGED <<origin, step, options, revalidate, answer, connection, now>>

\* Mutant: what has arrived of the body is stored.
Cut_Stored(r) ==
    /\ background' = [background EXCEPT ![r].do = IF @ = "read" THEN "store" ELSE @]
    /\ outcome' = outcome

\* A body that is cut short is an error.
Cut(r) ==
    IF background[r].do = "read"
    THEN /\ background' = [background EXCEPT ![r] = Idle]
         /\ outcome' = [outcome EXCEPT ![r].failed = TRUE]
    ELSE UNCHANGED <<background, outcome>>

\* Mutant: the end of a request that emitted no response goes unnoticed.
Unregistered_OnEventsOnly(r) == listening

\* The listener on the cache goes with the request.
Unregistered(r) == [listening EXCEPT ![r] = FALSE]

\* The request closes: after the response, or before, by an error or abort; a
\* handler that waits for the end of its response then waits for ever.
Close(r) ==
    /\ connection[r] = "open"
    /\ connection' = [connection EXCEPT ![r] = "closed"]
    /\ Done(r)
    /\ Cut(r)
    /\ listening' = Unregistered(r)
    /\ UNCHANGED <<cache, origin, now>>

----------------------------------------------------------------------------
(* The rest of the world *)

Edit ==
    /\ origin.version < MaxVersion
    /\ origin' = [version |-> origin.version + 1,
                  replaced |-> [origin.replaced EXCEPT ![origin.version] = now]]
    /\ UNCHANGED <<cache, step, options, revalidate, answer, connection, background,
                   listening, outcome, now>>

Lose ==
    /\ cache # None
    /\ cache' = None
    /\ UNCHANGED <<origin, step, options, revalidate, answer, connection, background,
                   listening, outcome, now>>

Tick ==
    /\ now < MaxTime
    /\ \A r \in Requests : step[r] = "answered" => now - answer[r].at < MaxDelay
    /\ now' = now + 1
    /\ UNCHANGED <<cache, origin, step, options, revalidate, answer, connection,
                   background, listening, outcome>>

Init ==
    /\ cache \in Starts
    /\ origin = [version |-> 1, replaced |-> [v \in Versions |-> MaxTime]]
    /\ step = [r \in Requests |-> "idle"]
    /\ options = [r \in Requests |-> None]
    /\ revalidate = [r \in Requests |-> None]
    /\ answer = [r \in Requests |-> NoAnswer]
    /\ connection = [r \in Requests |-> "none"]
    /\ background = [r \in Requests |-> Idle]
    /\ listening = [r \in Requests |-> FALSE]
    /\ outcome = [r \in Requests |-> [response |-> None, failed |-> FALSE]]
    /\ now = 0

Next ==
    \/ \E r \in Requests :
          \/ \E o \in Options[r] : Start(r, o)
          \/ LookUp(r) \/ LookUpFails(r) \/ DeleteReturns(r)
          \/ Answer(r) \/ Handle(r) \/ Drained(r)
          \/ BodyEnds(r) \/ BackgroundReturns(r) \/ Close(r)
    \/ Edit \/ Lose \/ Tick

\* Store and origin answer or fail, what they answer is handled, and a
\* connection ends or closes.
Proceed(r) ==
    \/ LookUp(r) \/ LookUpFails(r) \/ DeleteReturns(r) \/ Answer(r) \/ Handle(r)
    \/ Drained(r) \/ Close(r)

Spec ==
    /\ Init /\ [][Next]_vars
    /\ \A r \in Requests : WF_vars(Proceed(r)) /\ WF_vars(BackgroundReturns(r))

----------------------------------------------------------------------------
(* Properties *)

Responses == [kind : {"hit", "new", "bare", "validated"}, version : Versions]

\* The variables hold what the closures of the requests and the cache hold.
TypeOK ==
    /\ cache \in Values \cup {None}
    /\ origin \in [version : Versions, replaced : [Versions -> 0 .. MaxTime]]
    /\ step \in [Requests -> {"idle", "lookUp", "delete", "sent", "answered", "drain", "done"}]
    /\ options \in [Requests -> RequestOptions \cup {None}]
    /\ \A r \in Requests : options[r] \in Options[r] \cup {None}
    /\ revalidate \in [Requests -> Values \cup {None}]
    /\ answer \in [Requests -> [etag : Versions \cup {None}, version : Versions \cup {None},
                                modified : BOOLEAN, storable : BOOLEAN, at : 0 .. MaxTime]]
    /\ connection \in [Requests -> {"none", "open", "closed"}]
    /\ background \in [Requests -> [do : {"read", "store"}, value : Values]
                                    \cup [do : {"none", "delete"}, value : {None}]]
    /\ listening \in [Requests -> BOOLEAN]
    /\ outcome \in [Requests -> [response : Responses \cup {None}, failed : BOOLEAN]]
    /\ now \in 0 .. MaxTime

\* Whatever happens to the entry between the look-up and the answer, a
\* revalidated response shows the version the origin had when it answered; and
\* only a forced refresh hands out a 304 without a body.
Responds(r) == outcome'[r].response # outcome[r].response

AnswersTrue ==
    \A r \in Requests : Responds(r) =>
        LET s == outcome'[r].response
        IN  /\ s.kind # "hit" => s.version = answer[r].version
            /\ s.kind = "bare" => options[r].forceRefresh

\* A body that was cut short is never in the cache.
WholeBodies == cache # None => cache.whole

\* A response from the cache was the origin's within MaxAge and the time an
\* answer takes to arrive, however long its body took to be read and stored.
StalenessBounded ==
    \A r \in Requests : Responds(r) =>
        LET s == outcome'[r].response
        IN  (s.kind = "hit" /\ s.version < origin.version)
                => now < origin.replaced[s.version] + MaxAge + MaxDelay

\* No step hands out a response that is older than its kind allows.
ResponsesTrue == [][AnswersTrue /\ StalenessBounded]_vars

\* A request listens to the cache only until it has a response, an error or a
\* closed connection: listeners do not add up.
ListenersReleased ==
    \A r \in Requests : listening[r] =>
        /\ outcome[r].response = None /\ ~outcome[r].failed
        /\ connection[r] # "closed"

\* Every request ends with a response, an error, or the end of its connection,
\* where the caller sees the error.
RequestsSettle ==
    \A r \in Requests :
        step[r] = "lookUp" ~> (\/ outcome[r].response # None \/ outcome[r].failed
                               \/ connection[r] = "closed")

=============================================================================
