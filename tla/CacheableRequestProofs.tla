----------------------- MODULE CacheableRequestProofs -----------------------
(***************************************************************************)
(* Theorems about CacheableRequest, for any number of requests, versions   *)
(* of the resource and times.                                              *)
(***************************************************************************)
EXTENDS CacheableRequest, TLAPS

-----------------------------------------------------------------------------
(* The inductive invariant                                                 *)

\* What a request is conditional on.  Before it is made and after it has ended
\* nothing is; while it is under way, either the entry that is revalidated, or
\* the entry a forced refresh deleted.  The answer is a 304 exactly when the
\* origin still has the version asked for, and only a 304 to the entry that is
\* revalidated is waited for.
Asked(r) ==
    /\ step[r] \in {"idle", "lookUp", "done"} => answer[r].etag = None /\ revalidate[r] = None
    /\ step[r] = "delete" => answer[r].etag # None
    /\ revalidate[r] # None =>
          /\ step[r] \in {"sent", "answered", "drain"}
          /\ answer[r].etag = revalidate[r].version
    /\ step[r] \in {"answered", "drain"} =>
          /\ answer[r].version \in Versions
          /\ answer[r].modified <=> answer[r].etag # answer[r].version
    /\ step[r] = "drain" => ~answer[r].modified /\ revalidate[r] # None
    /\ (answer[r].etag # None /\ revalidate[r] = None) => options[r].forceRefresh

-----------------------------------------------------------------------------
(* What the parts of the actions do to the types.                          *)

\* What a request has emitted stays well typed, whoever hears an error.
LEMMA EmitErrorType ==
    ASSUME TypeOK, NEW rs \in SUBSET Requests, EmitError(rs)
    PROVE  /\ listening' \in [Requests -> BOOLEAN]
           /\ outcome' \in [Requests -> [response : Responses \cup {None}, failed : BOOLEAN]]
<1>1. ASSUME NEW q \in Requests
      PROVE  outcome'[q] \in [response : Responses \cup {None}, failed : BOOLEAN]
  BY DEF EmitError, TypeOK
<1> QED  BY <1>1 DEF EmitError, TypeOK

\* Nor does handing out a response change the type of what was emitted.
LEMMA EmittedType ==
    ASSUME TypeOK, NEW r \in Requests, NEW version \in Versions,
           NEW kind \in {"hit", "new", "bare", "validated"}, Emitted(r, kind, version)
    PROVE  /\ listening' \in [Requests -> BOOLEAN]
           /\ outcome' \in [Requests -> [response : Responses \cup {None}, failed : BOOLEAN]]
<1>1. [kind |-> kind, version |-> version] \in Responses
  BY DEF Responses
<1> QED  BY <1>1 DEF Emitted, TypeOK

\* What a request asked for and was answered.
Answers == [etag : Versions \cup {None}, version : Versions \cup {None},
            modified : BOOLEAN, storable : BOOLEAN, at : 0 .. MaxTime]

\* The part of a request's state that its closure holds is well typed.
ClosureType ==
    /\ step \in [Requests -> {"idle", "lookUp", "delete", "sent", "answered", "drain", "done"}]
    /\ options \in [Requests -> RequestOptions \cup {None}]
    /\ \A r \in Requests : options[r] \in Options[r] \cup {None}
    /\ revalidate \in [Requests -> Values \cup {None}]
    /\ answer \in [Requests -> Answers]
    /\ connection \in [Requests -> {"none", "open", "closed"}]

\* A request that is about to be sent has no answer yet.
LEMMA NoAnswerType ==
    ASSUME NEW etag \in Versions \cup {None}
    PROVE  NoAnswer \in Answers /\ [NoAnswer EXCEPT !.etag = etag] \in Answers
<1>1. 0 \in 0 .. MaxTime
  BY CacheableRequestAssumption
<1> QED  BY <1>1 DEF NoAnswer, Answers

\* What is asked for may be any version.
LEMMA EtagType ==
    ASSUME NEW a \in Answers, NEW etag \in Versions \cup {None}
    PROVE  [a EXCEPT !.etag = etag] \in Answers
BY DEF Answers

\* What arrives now expires within the bounds of the model.
LEMMA ExpiryType ==
    ASSUME TypeOK
    PROVE  /\ now + MaxAge \in Times
           /\ \A e \in Values : [e EXCEPT !.expires = now + MaxAge] \in Values
<1>1. now + MaxAge \in Times
  BY CacheableRequestAssumption DEF TypeOK, Times
<1>2. ASSUME NEW e \in Values PROVE [e EXCEPT !.expires = now + MaxAge] \in Values
  BY <1>1 DEF Values
<1> QED  BY <1>1, <1>2

\* A closure that is gone leaves nothing behind.
LEMMA DoneType ==
    ASSUME TypeOK, NEW r \in Requests, Done(r),
           connection' \in [Requests -> {"none", "open", "closed"}]
    PROVE  ClosureType'
<1>1. answer' \in [Requests -> Answers]
  BY NoAnswerType DEF Done, TypeOK, Answers
<1> QED  BY <1>1 DEF Done, TypeOK, ClosureType

\* Making a request, or failing to, keeps the types.
LEMMA MakeRequestType ==
    ASSUME TypeOK, NEW r \in Requests, NEW etag \in Versions \cup {None},
           NEW entry \in Values \cup {None}, NEW failing \in SUBSET Requests,
           MakeRequest(r, etag, entry, failing)
    PROVE  /\ ClosureType'
           /\ listening' \in [Requests -> BOOLEAN]
           /\ outcome' \in [Requests -> [response : Responses \cup {None}, failed : BOOLEAN]]
<1>1. CASE Sent(r, etag, entry)
  <2>1. ClosureType'
    BY <1>1, NoAnswerType DEF Sent, TypeOK, ClosureType, Answers
  <2>2. UNCHANGED <<listening, outcome>> \/ EmitError(failing) \/ EmitError(failing \cup {r})
    BY DEF MakeRequest
  <2> QED  BY <2>1, <2>2, EmitErrorType DEF TypeOK
<1>2. CASE NotSent(r) /\ EmitError(failing \cup {r})
  BY <1>2, EmitErrorType, DoneType DEF NotSent, TypeOK
<1> QED  BY <1>1, <1>2 DEF MakeRequest

\* So does going on after a look-up that failed,
LEMMA CatchType ==
    ASSUME TypeOK, NEW r \in Requests, NEW failing \in SUBSET Requests,
           Catch(r, failing)
    PROVE  /\ ClosureType'
           /\ listening' \in [Requests -> BOOLEAN]
           /\ outcome' \in [Requests -> [response : Responses \cup {None}, failed : BOOLEAN]]
<1>1. CASE MakeRequest(r, None, None, failing \cup {r})
  BY <1>1, MakeRequestType
<1>2. CASE NotSent(r) /\ EmitError(failing \cup {r})
  BY <1>2, EmitErrorType, DoneType DEF NotSent, TypeOK
<1> QED  BY <1>1, <1>2 DEF Catch

\* and going on after one that found nothing.
LEMMA FoundNothingType ==
    ASSUME TypeOK, NEW r \in Requests, NEW failing \in SUBSET Requests,
           FoundNothing(r, failing)
    PROVE  /\ ClosureType'
           /\ listening' \in [Requests -> BOOLEAN]
           /\ outcome' \in [Requests -> [response : Responses \cup {None}, failed : BOOLEAN]]
BY CatchType, MakeRequestType DEF FoundNothing

\* What goes on behind a response.
Backgrounds == [do : {"read", "store"}, value : Values]
               \cup [do : {"none", "delete"}, value : {None}]

\* What goes on behind a response is reading, storing, deleting, or nothing.
LEMMA BehindType ==
    ASSUME NEW r \in Requests, NEW do \in {"read", "store"},
           NEW value \in Values \cup {None}
    PROVE  Behind(r, do, value) \in Backgrounds
BY DEF Behind, Backgrounds, Idle

\* An entry made of a response that has arrived.
LEMMA ValueType ==
    ASSUME TypeOK, NEW version \in Versions, NEW whole \in BOOLEAN
    PROVE  Value(version, whole) \in Values
BY ExpiryType DEF Value, Values

\* The cache, the requests and what goes on in their background are well typed.
\* The initial state is well typed.
LEMMA TypeInit == Init => TypeOK
<1> SUFFICES ASSUME Init PROVE TypeOK
  OBVIOUS
<1>1. NoAnswer \in Answers
  BY NoAnswerType
<1>2. cache \in Values \cup {None}
  BY CacheableRequestAssumption DEF Init
<1>3. origin \in [version : Versions, replaced : [Versions -> 0 .. MaxTime]]
  BY CacheableRequestAssumption DEF Init, Versions
<1>4. now \in 0 .. MaxTime
  BY CacheableRequestAssumption DEF Init
<1> QED  BY <1>1, <1>2, <1>3, <1>4 DEF Init, TypeOK, Answers, Idle

\* No step takes a variable out of its type.
LEMMA TypeStep ==
    ASSUME TypeOK, \A r \in Requests : Asked(r), [Next]_vars
    PROVE  TypeOK'
<1>0. Listeners \in SUBSET Requests
  BY DEF Listeners
<1>1. ASSUME NEW r \in Requests, NEW o \in Options[r], Start(r, o) PROVE TypeOK'
  BY <1>1, CacheableRequestAssumption DEF Start, TypeOK
<1>2. ASSUME NEW r \in Requests, LookUp(r) PROVE TypeOK'
  <2> DEFINE e == IF options[r].cache THEN cache ELSE None
  <2>1. e \in Values \cup {None}
    BY DEF TypeOK
  <2>2. UNCHANGED <<cache, origin, background, now>>
    BY <1>2 DEF LookUp
  <2>3. CASE FoundNothing(r, {})
    BY <2>2, <2>3, FoundNothingType DEF TypeOK, ClosureType, Answers
  <2>4. CASE e # None /\ FoundFresh(r, e)
    <3>1. e.version \in Versions
      BY <2>1, <2>4 DEF Values
    <3>2. CASE options[r].forceRefresh
      <4>1. [answer[r] EXCEPT !.etag = e.version] \in Answers
        BY <3>1, EtagType DEF TypeOK, Answers
      <4>2. answer' = [answer EXCEPT ![r] = [answer[r] EXCEPT !.etag = e.version]]
        BY <2>4, <3>2 DEF FoundFresh, TypeOK
      <4>3. answer' \in [Requests -> Answers]
        BY <4>1, <4>2 DEF TypeOK, Answers
      <4> QED  BY <2>2, <2>4, <3>2, <4>3 DEF FoundFresh, TypeOK, Answers
    <3>3. CASE ~options[r].forceRefresh
      BY <2>2, <2>4, <3>1, <3>3, EmittedType, DoneType
      DEF FoundFresh, TypeOK, ClosureType, Answers
    <3> QED  BY <3>2, <3>3
  <2>5. CASE e # None /\ MakeRequest(r, e.version, e, {})
    <3>1. e.version \in Versions
      BY <2>1, <2>5 DEF Values
    <3> QED
      BY <2>1, <2>2, <2>5, <3>1, MakeRequestType DEF TypeOK, ClosureType, Answers
  <2> QED  BY <1>2, <2>3, <2>4, <2>5 DEF LookUp
<1>3. ASSUME NEW r \in Requests, LookUpFails(r) PROVE TypeOK'
  <2>1. PICK heard \in SUBSET Requests : Catch(r, heard) \/ FoundNothing(r, heard)
    BY <1>0, <1>3 DEF LookUpFails
  <2> QED
    BY <1>3, <2>1, CatchType, FoundNothingType
    DEF LookUpFails, TypeOK, ClosureType, Answers
<1>4. ASSUME NEW r \in Requests, DeleteReturns(r) PROVE TypeOK'
  <2>1. answer[r].etag \in Versions \cup {None}
    BY DEF TypeOK
  <2>2. PICK heard \in SUBSET Requests :
           Catch(r, heard) \/ MakeRequest(r, answer[r].etag, None, heard)
    BY <1>0, <1>4 DEF DeleteReturns
  <2>3. cache' \in Values \cup {None}
    BY <1>4 DEF DeleteReturns, TypeOK
  <2> QED
    BY <1>4, <2>1, <2>2, <2>3, CatchType, MakeRequestType
    DEF DeleteReturns, TypeOK, ClosureType, Answers
<1>5. ASSUME NEW r \in Requests, Answer(r) PROVE TypeOK'
  <2>1. answer' \in [Requests -> Answers]
    BY <1>5 DEF Answer, TypeOK, Answers
  <2> QED  BY <1>5, <2>1 DEF Answer, TypeOK, Answers
<1>6. ASSUME NEW r \in Requests, Handle(r), Asked(r) PROVE TypeOK'
  <2>1. answer[r].version \in Versions
    BY <1>6 DEF Handle, Asked
  <2>2. CASE step' = [step EXCEPT ![r] = "drain"] /\ revalidate[r] # None
             /\ revalidate' = [revalidate EXCEPT ![r].expires = now + MaxAge]
             /\ UNCHANGED <<options, answer, background, listening, outcome>>
    <3>1. [revalidate[r] EXCEPT !.expires = now + MaxAge] \in Values
      BY <2>2, ExpiryType DEF TypeOK
    <3>2. revalidate' \in [Requests -> Values \cup {None}]
      BY <2>2, <3>1 DEF TypeOK
    <3> QED  BY <1>6, <2>2, <3>2 DEF Handle, TypeOK
  <2>3. CASE Done(r) /\ Emitted(r, IF answer[r].modified THEN "new" ELSE "bare", answer[r].version)
             /\ background' = [background EXCEPT ![r] =
                  Behind(r, "read", IF answer[r].modified THEN Value(answer[r].version, FALSE) ELSE None)]
    <3>1. Behind(r, "read", IF answer[r].modified THEN Value(answer[r].version, FALSE) ELSE None)
            \in Backgrounds
      BY <2>1, ValueType, BehindType
    <3>2. background' \in [Requests -> Backgrounds]
      BY <2>3, <3>1 DEF TypeOK, Backgrounds
    <3>3. ClosureType'
      BY <1>6, <2>3, DoneType DEF Handle, TypeOK
    <3>4. /\ listening' \in [Requests -> BOOLEAN]
          /\ outcome' \in [Requests -> [response : Responses \cup {None}, failed : BOOLEAN]]
      BY <2>1, <2>3, EmittedType
    <3> QED  BY <1>6, <3>2, <3>3, <3>4 DEF Handle, TypeOK, ClosureType, Answers, Backgrounds
  <2> QED  BY <1>6, <2>2, <2>3 DEF Handle
<1>7. ASSUME NEW r \in Requests, Drained(r), Asked(r) PROVE TypeOK'
  <2>1. revalidate[r] \in Values
    BY <1>7 DEF Drained, Asked, TypeOK
  <2>2. background' \in [Requests -> Backgrounds]
    BY <1>7, <2>1, BehindType DEF Drained, Rebuilt, TypeOK, Backgrounds
  <2>3. ClosureType'
    BY <1>7, DoneType DEF Drained, TypeOK
  <2>4. revalidate[r].version \in Versions
    BY <2>1 DEF Values
  <2>5. /\ listening' \in [Requests -> BOOLEAN]
        /\ outcome' \in [Requests -> [response : Responses \cup {None}, failed : BOOLEAN]]
    BY <1>7, <2>4, EmittedType DEF Drained, Rebuilt
  <2> QED  BY <1>7, <2>2, <2>3, <2>5 DEF Drained, TypeOK, ClosureType, Answers, Backgrounds
<1>8. ASSUME NEW r \in Requests, BodyEnds(r) PROVE TypeOK'
  <2> DEFINE b == [background[r] EXCEPT !.do = "store"]
             v == [b.value EXCEPT !.whole = TRUE]
  <2>1. background[r] \in [do : {"read", "store"}, value : Values]
    BY <1>8 DEF BodyEnds, TypeOK
  <2>2. b \in [do : {"read", "store"}, value : Values]
    BY <2>1
  <2>3. v \in Values
    BY <2>2 DEF Values
  <2>4. [b EXCEPT !.value = v] \in Backgrounds
    <3> HIDE DEF b, v
    <3> QED  BY <2>2, <2>3 DEF Backgrounds
  <2>5. background' = [background EXCEPT ![r] = [b EXCEPT !.value = v]]
    BY <1>8 DEF BodyEnds, TypeOK
  <2>6. background' \in [Requests -> Backgrounds]
    <3> HIDE DEF b, v
    <3> QED  BY <2>4, <2>5 DEF TypeOK, Backgrounds
  <2> QED  BY <1>8, <2>6 DEF BodyEnds, TypeOK, Backgrounds
<1>9. ASSUME NEW r \in Requests, BackgroundReturns(r) PROVE TypeOK'
  <2>1. background' \in [Requests -> Backgrounds]
    BY <1>9 DEF BackgroundReturns, TypeOK, Idle, Backgrounds
  <2>2. cache' \in Values \cup {None}
    BY <1>9 DEF BackgroundReturns, Stored, Removed, BackgroundFails, TypeOK
  <2>3. UNCHANGED <<listening, outcome>> \/ \E rs \in SUBSET Requests : EmitError(rs)
    BY <1>0, <1>9 DEF BackgroundReturns, Stored, Removed, BackgroundFails
  <2>4. /\ listening' \in [Requests -> BOOLEAN]
        /\ outcome' \in [Requests -> [response : Responses \cup {None}, failed : BOOLEAN]]
    BY <2>3, EmitErrorType DEF TypeOK
  <2> QED  BY <1>9, <2>1, <2>2, <2>4 DEF BackgroundReturns, TypeOK, Backgrounds
<1>10. ASSUME NEW r \in Requests, Close(r) PROVE TypeOK'
  <2>1. ClosureType'
    BY <1>10, DoneType DEF Close, TypeOK
  <2>2. background' \in [Requests -> Backgrounds]
    BY <1>10 DEF Close, Cut, TypeOK, Idle, Backgrounds
  <2>3. outcome' \in [Requests -> [response : Responses \cup {None}, failed : BOOLEAN]]
    <3>1. [outcome[r] EXCEPT !.failed = TRUE]
            \in [response : Responses \cup {None}, failed : BOOLEAN]
      <4>1. outcome[r] \in [response : Responses \cup {None}, failed : BOOLEAN]
        BY DEF TypeOK
      <4> QED  BY <4>1
    <3>2. outcome' = outcome \/ outcome' = [outcome EXCEPT ![r].failed = TRUE]
      BY <1>10 DEF Close, Cut
    <3> QED  BY <3>1, <3>2 DEF TypeOK
  <2>4. listening' \in [Requests -> BOOLEAN]
    BY <1>10 DEF Close, Unregistered, TypeOK
  <2> QED
    BY <1>10, <2>1, <2>2, <2>3, <2>4 DEF Close, TypeOK, ClosureType, Answers, Backgrounds
<1>11. CASE Edit \/ Lose \/ Tick
  <2>1. now' \in 0 .. MaxTime
    BY <1>11, CacheableRequestAssumption DEF Edit, Lose, Tick, TypeOK
  <2>2. origin' \in [version : Versions, replaced : [Versions -> 0 .. MaxTime]]
    <3>1. CASE Edit
      <4>1. origin.version + 1 \in Versions
        BY <3>1, CacheableRequestAssumption DEF Edit, TypeOK, Versions
      <4>2. [origin.replaced EXCEPT ![origin.version] = now] \in [Versions -> 0 .. MaxTime]
        BY DEF TypeOK
      <4> QED  BY <3>1, <4>1, <4>2 DEF Edit
    <3> QED  BY <1>11, <3>1 DEF Lose, Tick, TypeOK
  <2> QED  BY <1>11, <2>1, <2>2 DEF Edit, Lose, Tick, TypeOK
<1>12. CASE UNCHANGED vars
  BY <1>12 DEF vars, TypeOK
<1> QED
  BY <1>1, <1>2, <1>3, <1>4, <1>5, <1>6, <1>7, <1>8, <1>9, <1>10, <1>11, <1>12 DEF Next

-----------------------------------------------------------------------------
(* What a step does to the closure of a request                            *)

\* Nothing; the look-up begins; a forced refresh deletes the entry; the request
\* is sent; the origin answers; a 304 is waited for; the request has ended.
Kept(q) == UNCHANGED <<step[q], options[q], revalidate[q], answer[q]>>

Begun(q) ==
    /\ step[q] = "idle" /\ step'[q] = "lookUp"
    /\ UNCHANGED <<revalidate[q], answer[q]>>

Forced(q) ==
    /\ step[q] = "lookUp" /\ step'[q] = "delete"
    /\ options[q].forceRefresh
    /\ answer'[q].etag \in Versions
    /\ UNCHANGED <<options[q], revalidate[q]>>

SentFor(q, etag, entry) ==
    /\ step'[q] = "sent"
    /\ answer'[q] = [NoAnswer EXCEPT !.etag = etag]
    /\ revalidate'[q] = entry
    /\ UNCHANGED options[q]

\* Conditional on the entry there is, or on the one a forced refresh deleted.
Requested(q) ==
    \E etag \in Versions \cup {None}, entry \in Values \cup {None} :
        /\ SentFor(q, etag, entry)
        /\ entry # None => entry = cache /\ etag = entry.version
        /\ (etag # None /\ entry = None) => options[q].forceRefresh

Answered(q) ==
    /\ step[q] = "sent" /\ step'[q] = "answered"
    /\ answer'[q].etag = answer[q].etag
    /\ answer'[q].version = origin.version
    /\ answer'[q].modified <=> answer[q].etag # origin.version
    /\ answer'[q].at = now
    /\ UNCHANGED <<options[q], revalidate[q], origin, now>>

Awaited(q) ==
    /\ step[q] = "answered" /\ step'[q] = "drain"
    /\ ~answer[q].modified /\ revalidate[q] # None
    /\ revalidate'[q] = [revalidate[q] EXCEPT !.expires = now + MaxAge]
    /\ UNCHANGED <<options[q], answer[q], origin, now>>

Ended(q) == step'[q] = "done" /\ answer'[q] = NoAnswer /\ revalidate'[q] = None

Moved(q) ==
    \/ Kept(q) \/ Begun(q) \/ Forced(q) \/ Requested(q) \/ Answered(q)
    \/ Awaited(q) \/ Ended(q)

\* A closure is ended by its own request only.
LEMMA DoneMoves ==
    ASSUME TypeOK, NEW r \in Requests, NEW q \in Requests, Done(r)
    PROVE  Ended(q) \/ Kept(q)
BY DEF Done, Ended, Kept, TypeOK

\* The request is sent for what it was told to ask for, or has ended.
LEMMA MakeRequestMoves ==
    ASSUME TypeOK, NEW r \in Requests, NEW q \in Requests, NEW etag, NEW entry, NEW failing,
           MakeRequest(r, etag, entry, failing)
    PROVE  Ended(q) \/ Kept(q) \/ (q = r /\ SentFor(q, etag, entry))
<1>1. CASE Sent(r, etag, entry)
  BY <1>1 DEF Sent, SentFor, Kept, TypeOK
<1>2. CASE NotSent(r)
  BY <1>2, DoneMoves DEF NotSent
<1> QED  BY <1>1, <1>2 DEF MakeRequest

\* A look-up that failed leads to an end or to an unconditional request.
LEMMA CatchMoves ==
    ASSUME TypeOK, NEW r \in Requests, NEW q \in Requests, NEW failing, Catch(r, failing)
    PROVE  Ended(q) \/ Kept(q) \/ Requested(q)
<1>1. CASE MakeRequest(r, None, None, failing \cup {r})
  BY <1>1, MakeRequestMoves DEF Requested
<1>2. CASE NotSent(r)
  BY <1>2, DoneMoves DEF NotSent
<1> QED  BY <1>1, <1>2 DEF Catch

\* The same of a look-up that found nothing.
LEMMA FoundNothingMoves ==
    ASSUME TypeOK, NEW r \in Requests, NEW q \in Requests, NEW failing, FoundNothing(r, failing)
    PROVE  Ended(q) \/ Kept(q) \/ Requested(q)
<1>1. CASE MakeRequest(r, None, None, failing)
  BY <1>1, MakeRequestMoves DEF Requested
<1> QED  BY <1>1, CatchMoves DEF FoundNothing

\* What any step does to the closure of any request.
LEMMA RequestMoves ==
    ASSUME TypeOK, \A r \in Requests : Asked(r), [Next]_vars, NEW q \in Requests
    PROVE  Moved(q)
<1>1. ASSUME NEW r \in Requests, NEW o \in Options[r], Start(r, o) PROVE Moved(q)
  BY <1>1 DEF Start, Moved, Kept, Begun, TypeOK
<1>2. ASSUME NEW r \in Requests, LookUp(r) PROVE Moved(q)
  <2> DEFINE e == IF options[r].cache THEN cache ELSE None
  <2>1. e = cache \/ e = None
    OBVIOUS
  <2>2. CASE FoundNothing(r, {})
    BY <2>2, FoundNothingMoves DEF Moved
  <2>3. CASE e # None /\ FoundFresh(r, e)
    <3>1. e.version \in Versions
      BY <2>1, <2>3 DEF TypeOK, Values
    <3>2. CASE options[r].forceRefresh
      BY <1>2, <2>3, <3>1, <3>2 DEF LookUp, FoundFresh, Moved, Kept, Forced, TypeOK
    <3>3. CASE ~options[r].forceRefresh
      BY <2>3, <3>3, DoneMoves DEF FoundFresh, Moved
    <3> QED  BY <3>2, <3>3
  <2>4. CASE e # None /\ MakeRequest(r, e.version, e, {})
    <3>1. e.version \in Versions /\ e \in Values
      BY <2>1, <2>4 DEF TypeOK, Values
    <3>2. Ended(q) \/ Kept(q) \/ SentFor(q, e.version, e)
      BY <2>4, MakeRequestMoves
    <3>3. SentFor(q, e.version, e) => Requested(q)
      BY <2>1, <2>4, <3>1 DEF Requested
    <3> QED  BY <3>2, <3>3 DEF Moved
  <2> QED  BY <1>2, <2>2, <2>3, <2>4 DEF LookUp
<1>3. ASSUME NEW r \in Requests, LookUpFails(r) PROVE Moved(q)
  <2>1. PICK heard : Catch(r, heard) \/ FoundNothing(r, heard)
    BY <1>3 DEF LookUpFails
  <2> QED  BY <2>1, CatchMoves, FoundNothingMoves DEF Moved
<1>4. ASSUME NEW r \in Requests, DeleteReturns(r) PROVE Moved(q)
  <2>1. PICK heard : Catch(r, heard) \/ MakeRequest(r, answer[r].etag, None, heard)
    BY <1>4 DEF DeleteReturns
  <2>2. CASE MakeRequest(r, answer[r].etag, None, heard)
    <3>1. answer[r].etag \in Versions \cup {None}
      BY DEF TypeOK
    <3>2. options[r].forceRefresh
      BY <1>4 DEF DeleteReturns, Asked
    <3>3. Ended(q) \/ Kept(q) \/ (q = r /\ SentFor(q, answer[r].etag, None))
      BY <2>2, MakeRequestMoves
    <3>4. (q = r /\ SentFor(q, answer[r].etag, None)) => Requested(q)
      BY <3>1, <3>2 DEF Requested
    <3> QED  BY <3>3, <3>4 DEF Moved
  <2> QED  BY <2>1, <2>2, CatchMoves DEF Moved
<1>5. ASSUME NEW r \in Requests, Answer(r) PROVE Moved(q)
  <2>1. PICK storable \in BOOLEAN :
           answer' = [answer EXCEPT ![r] =
             [etag |-> answer[r].etag, version |-> origin.version,
              modified |-> answer[r].etag # origin.version, storable |-> storable, at |-> now]]
    BY <1>5 DEF Answer, TypeOK
  <2>2. CASE q = r
    <3>1. answer'[q] = [etag |-> answer[r].etag, version |-> origin.version,
              modified |-> answer[r].etag # origin.version, storable |-> storable, at |-> now]
      BY <2>1, <2>2 DEF TypeOK
    <3>2. /\ answer'[q].etag = answer[q].etag
          /\ answer'[q].version = origin.version
          /\ answer'[q].at = now
      BY <2>2, <3>1
    <3>3. answer'[q].modified <=> answer[q].etag # origin.version
      <4>1. answer'[q].modified = (answer[r].etag # origin.version)
        BY <3>1
      <4> QED  BY <2>2, <4>1
    <3>4. /\ step[q] = "sent" /\ step'[q] = "answered"
          /\ UNCHANGED <<options[q], revalidate[q], origin, now>>
      BY <1>5, <2>2 DEF Answer, TypeOK
    <3> QED  BY <3>2, <3>3, <3>4 DEF Moved, Answered
  <2>3. CASE q # r
    BY <1>5, <2>1, <2>3 DEF Answer, Moved, Kept, TypeOK
  <2> QED  BY <2>2, <2>3
<1>6. ASSUME NEW r \in Requests, Handle(r) PROVE Moved(q)
  <2>1. CASE Done(r)
    BY <2>1, DoneMoves DEF Moved
  <2>2. CASE /\ step' = [step EXCEPT ![r] = "drain"] /\ revalidate[r] # None
             /\ revalidate' = [revalidate EXCEPT ![r].expires = now + MaxAge]
             /\ UNCHANGED <<options, answer>>
    <3>1. CASE q = r
      <4>1. ~answer[r].modified /\ step[r] = "answered" /\ UNCHANGED <<origin, now>>
        <5>1. step'[r] = "drain"
          BY <2>2 DEF TypeOK
        <5>2. ~Done(r)
          BY <5>1 DEF Done, TypeOK
        <5> QED  BY <1>6, <5>2 DEF Handle
      <4> QED  BY <2>2, <3>1, <4>1 DEF Moved, Awaited, TypeOK
    <3>2. CASE q # r
      BY <2>2, <3>2 DEF Moved, Kept, TypeOK
    <3> QED  BY <3>1, <3>2
  <2> QED  BY <1>6, <2>1, <2>2 DEF Handle
<1>7. ASSUME NEW r \in Requests, Drained(r) \/ Close(r) PROVE Moved(q)
  BY <1>7, DoneMoves DEF Drained, Close, Moved
<1>8. ASSUME NEW r \in Requests, BodyEnds(r) \/ BackgroundReturns(r) PROVE Moved(q)
  BY <1>8 DEF BodyEnds, BackgroundReturns, Moved, Kept
<1>9. CASE Edit \/ Lose \/ Tick \/ UNCHANGED vars
  BY <1>9 DEF Edit, Lose, Tick, vars, Moved, Kept
<1> QED  BY <1>1, <1>2, <1>3, <1>4, <1>5, <1>6, <1>7, <1>8, <1>9 DEF Next

\* The initial requests are conditional on nothing.
LEMMA AskedInit == Init => \A r \in Requests : Asked(r)
BY DEF Init, Asked, NoAnswer

\* Whatever step is taken, what a request is conditional on stays sound.
LEMMA AskedStep ==
    ASSUME TypeOK, \A r \in Requests : Asked(r), [Next]_vars
    PROVE  (\A r \in Requests : Asked(r))'
<1> SUFFICES ASSUME NEW q \in Requests PROVE Asked(q)'
  OBVIOUS
<1>1. Asked(q) /\ Moved(q)
  BY RequestMoves
<1>2. CASE Kept(q)
  BY <1>1, <1>2 DEF Kept, Asked
<1>3. CASE Begun(q) \/ Ended(q)
  BY <1>1, <1>3 DEF Begun, Ended, Asked, NoAnswer
<1>4. CASE Forced(q)
  BY <1>1, <1>4, CacheableRequestAssumption DEF Forced, Asked
<1>5. CASE Requested(q)
  BY <1>1, <1>5 DEF Requested, SentFor, Asked, NoAnswer
<1>6. CASE Answered(q)
  BY <1>1, <1>6 DEF Answered, Asked, TypeOK
<1>7. CASE Awaited(q)
  <2>1. revalidate[q] \in Values
    BY <1>7 DEF Awaited, TypeOK
  <2>2. revalidate'[q].version = revalidate[q].version /\ step'[q] = "drain" /\ step[q] = "answered"
    BY <1>7, <2>1 DEF Awaited, Values
  <2>3. revalidate'[q] # None /\ UNCHANGED <<options[q], answer[q]>>
    BY <1>7, <2>1, ExpiryType, CacheableRequestAssumption DEF Awaited
  <2> QED  BY <1>1, <1>7, <2>2, <2>3 DEF Awaited, Asked
<1> QED  BY <1>1, <1>2, <1>3, <1>4, <1>5, <1>6, <1>7 DEF Moved

\* The invariant all that follows rests on.
LEMMA RequestInvariant == Spec => [](TypeOK /\ \A r \in Requests : Asked(r))
<1>1. Init => TypeOK /\ \A r \in Requests : Asked(r)
  BY TypeInit, AskedInit
<1>2. (TypeOK /\ \A r \in Requests : Asked(r)) /\ [Next]_vars
        => (TypeOK /\ \A r \in Requests : Asked(r))'
  BY TypeStep, AskedStep
<1> QED  BY <1>1, <1>2, PTL DEF Spec

\* The variables hold what the closures of the requests and the cache hold.
THEOREM RequestsTyping == Spec => []TypeOK
BY RequestInvariant, PTL

-----------------------------------------------------------------------------
(* What a step does to the cache and to the background of a response       *)

\* Only what a response keeps in its background gets into the cache.
LEMMA CacheMoves ==
    ASSUME [Next]_vars
    PROVE  \/ UNCHANGED cache
           \/ cache' = None
           \/ \E r \in Requests : background[r].do = "store" /\ cache' = background[r].value
<1>1. CASE Edit \/ Lose \/ Tick \/ UNCHANGED vars
  BY <1>1 DEF Edit, Lose, Tick, vars
<1>2. ASSUME NEW r \in Requests, BackgroundReturns(r)
      PROVE  \/ UNCHANGED cache
             \/ cache' = None
             \/ background[r].do = "store" /\ cache' = background[r].value
  BY <1>2 DEF BackgroundReturns, Stored, Removed, BackgroundFails
<1>3. ASSUME NEW r \in Requests,
             \/ \E o \in Options[r] : Start(r, o)
             \/ LookUp(r) \/ LookUpFails(r) \/ Answer(r) \/ Handle(r) \/ Drained(r)
             \/ BodyEnds(r) \/ Close(r)
      PROVE  UNCHANGED cache
  BY <1>3 DEF Start, LookUp, LookUpFails, Answer, Handle, Drained, BodyEnds, Close
<1>4. ASSUME NEW r \in Requests, DeleteReturns(r) PROVE cache' = None \/ UNCHANGED cache
  BY <1>4 DEF DeleteReturns
<1> QED  BY <1>1, <1>2, <1>3, <1>4 DEF Next

\* The body is being read; a revalidated entry is stored; a body was read to its end.
ToRead(q) ==
    /\ step[q] = "answered" /\ answer[q].version \in Versions
    /\ background'[q] = [do |-> "read", value |-> Value(answer[q].version, FALSE)]
    /\ UNCHANGED <<origin, now>>

ToStore(q) ==
    /\ revalidate[q] \in Values
    /\ background'[q] = [do |-> "store", value |-> revalidate[q]]
    /\ UNCHANGED <<origin, now>>

ReadToEnd(q) ==
    /\ background[q].do = "read" /\ background[q].value \in Values
    /\ background'[q].do = "store"
    /\ background'[q].value = [background[q].value EXCEPT !.whole = TRUE]
    /\ UNCHANGED <<origin, now>>

InBackground(q) ==
    \/ UNCHANGED background[q]
    \/ background'[q].do \in {"none", "delete"} /\ background'[q].value = None
    \/ ToRead(q) \/ ToStore(q) \/ ReadToEnd(q)

\* What Behind makes of a response.
LEMMA BehindMoves ==
    ASSUME NEW r \in Requests, NEW do, NEW value
    PROVE  LET b == Behind(r, do, value)
           IN  \/ b.do \in {"none", "delete"} /\ b.value = None
               \/ value # None /\ b = [do |-> do, value |-> value]
BY DEF Behind, Idle

\* What any step does in the background of any response.
LEMMA BackgroundMoves ==
    ASSUME TypeOK, \A r \in Requests : Asked(r), [Next]_vars, NEW q \in Requests
    PROVE  InBackground(q)
<1>1. CASE Edit \/ Lose \/ Tick \/ UNCHANGED vars
  BY <1>1 DEF Edit, Lose, Tick, vars, InBackground
<1>2. ASSUME NEW r \in Requests,
             \/ \E o \in Options[r] : Start(r, o)
             \/ LookUp(r) \/ LookUpFails(r) \/ DeleteReturns(r) \/ Answer(r)
      PROVE  InBackground(q)
  BY <1>2 DEF Start, LookUp, LookUpFails, DeleteReturns, Answer, InBackground
<1>3. ASSUME NEW r \in Requests, Handle(r) PROVE InBackground(q)
  <2> DEFINE v == IF answer[r].modified THEN Value(answer[r].version, FALSE) ELSE None
  <2>1. answer[r].version \in Versions /\ step[r] = "answered" /\ UNCHANGED <<origin, now>>
    BY <1>3 DEF Handle, Asked
  <2>2. CASE background' = [background EXCEPT ![r] = Behind(r, "read", v)] /\ q = r
    <3>1. background'[q] = Behind(r, "read", v)
      BY <2>2 DEF TypeOK
    <3>2. v # None => v = Value(answer[r].version, FALSE)
      OBVIOUS
    <3> HIDE DEF v
    <3>3. \/ background'[q].do \in {"none", "delete"} /\ background'[q].value = None
          \/ v # None /\ background'[q] = [do |-> "read", value |-> v]
      BY <3>1, BehindMoves
    <3> QED  BY <2>1, <2>2, <3>2, <3>3 DEF InBackground, ToRead
  <2>3. UNCHANGED background \/ background' = [background EXCEPT ![r] = Behind(r, "read", v)]
    BY <1>3 DEF Handle
  <2> QED  BY <2>2, <2>3 DEF InBackground, TypeOK
<1>4. ASSUME NEW r \in Requests, Drained(r) PROVE InBackground(q)
  <2>1. revalidate[r] \in Values /\ UNCHANGED <<origin, now>>
    BY <1>4 DEF Drained, Asked, TypeOK
  <2>2. background' = [background EXCEPT ![r] = Behind(r, "store", revalidate[r])]
    BY <1>4 DEF Drained, Rebuilt
  <2>3. CASE q = r
    <3>1. background'[q] = Behind(r, "store", revalidate[r])
      BY <2>2, <2>3 DEF TypeOK
    <3> QED  BY <2>1, <2>3, <3>1, BehindMoves DEF InBackground, ToStore
  <2> QED  BY <2>2, <2>3 DEF InBackground, TypeOK
<1>5. ASSUME NEW r \in Requests, BodyEnds(r) PROVE InBackground(q)
  <2>1. background[r] \in [do : {"read", "store"}, value : Values]
    BY <1>5 DEF BodyEnds, TypeOK
  <2>2. CASE q = r
    <3> DEFINE b == [background[r] EXCEPT !.do = "store"]
               v == [background[r].value EXCEPT !.whole = TRUE]
    <3>1. b \in [do : {"read", "store"}, value : Values] /\ b.do = "store" /\ b.value = background[r].value
      BY <2>1
    <3>2. background'[r] = [b EXCEPT !.value = [b.value EXCEPT !.whole = TRUE]]
      BY <1>5 DEF BodyEnds, TypeOK
    <3>3. background'[r] = [b EXCEPT !.value = v]
      BY <3>1, <3>2
    <3>4. background'[r].do = "store" /\ background'[r].value = v
      <4> HIDE DEF b, v
      <4> QED  BY <3>1, <3>3
    <3>5. background[r].do = "read" /\ background[r].value \in Values /\ UNCHANGED <<origin, now>>
      BY <1>5, <2>1 DEF BodyEnds
    <3> QED  BY <2>2, <3>4, <3>5 DEF InBackground, ReadToEnd
  <2>3. CASE q # r
    BY <1>5, <2>3 DEF BodyEnds, InBackground, TypeOK
  <2> QED  BY <2>2, <2>3
<1>6. ASSUME NEW r \in Requests, BackgroundReturns(r) \/ Close(r) PROVE InBackground(q)
  BY <1>6 DEF BackgroundReturns, Close, Cut, InBackground, Idle, TypeOK
<1> QED  BY <1>1, <1>2, <1>3, <1>4, <1>5, <1>6 DEF Next

-----------------------------------------------------------------------------
(* Whole bodies                                                            *)

\* An entry that is about to be stored is whole: that of a response whose body
\* has been read, and the one that was revalidated.
Bodies ==
    /\ WholeBodies
    /\ \A r \in Requests : revalidate[r] # None => revalidate[r].whole
    /\ \A r \in Requests : background[r].do = "store" => background[r].value.whole

\* A body that was cut short is never in the cache, whichever responses are
\* read and stored at the same time.
THEOREM BodiesWhole == Spec => []WholeBodies
<1>1. Init => Bodies
  BY CacheableRequestAssumption DEF Init, Bodies, WholeBodies, Idle
<1>2. ASSUME TypeOK, \A r \in Requests : Asked(r), Bodies, [Next]_vars PROVE Bodies'
  <2>1. WholeBodies'
    BY <1>2, CacheMoves DEF Bodies, WholeBodies
  <2>2. ASSUME NEW q \in Requests PROVE revalidate'[q] # None => revalidate'[q].whole
    <3>1. Moved(q)
      BY <1>2, RequestMoves
    <3>2. CASE Awaited(q)
      <4>1. revalidate[q] \in Values
        BY <1>2, <3>2 DEF Awaited, TypeOK
      <4> QED  BY <1>2, <3>2, <4>1 DEF Awaited, Bodies, Values
    <3>3. CASE ~Awaited(q)
      BY <1>2, <3>1, <3>3
      DEF Moved, Kept, Begun, Forced, Requested, SentFor, Answered, Ended, Bodies, WholeBodies
    <3> QED  BY <3>2, <3>3
  <2>3. ASSUME NEW q \in Requests PROVE background'[q].do = "store" => background'[q].value.whole
    <3>1. InBackground(q)
      BY <1>2, BackgroundMoves
    <3>2. CASE ToStore(q)
      BY <1>2, <3>2, CacheableRequestAssumption DEF ToStore, Bodies
    <3>3. CASE ReadToEnd(q)
      BY <3>3 DEF ReadToEnd, Values
    <3>4. CASE ToRead(q)
      BY <3>4 DEF ToRead
    <3> QED  BY <1>2, <3>1, <3>2, <3>3, <3>4 DEF InBackground, Bodies
  <2> QED  BY <2>1, <2>2, <2>3 DEF Bodies
<1>3. Bodies => WholeBodies
  BY DEF Bodies
<1> QED  BY <1>1, <1>2, <1>3, RequestInvariant, PTL DEF Spec

-----------------------------------------------------------------------------
(* Ages                                                                    *)

\* An entry expires MaxAge after its headers arrived, which were MaxDelay on
\* their way at most: measured from when its version was replaced, that is the
\* most it can be kept.
Dated(e) ==
    e # None =>
        /\ e.expires <= now + MaxAge
        /\ e.version < origin.version =>
              e.expires <= origin.replaced[e.version] + MaxAge + MaxDelay

\* The same of an answer whose handler has not run.
OnItsWay(q) ==
    step[q] = "answered" =>
        /\ answer[q].at <= now /\ now <= answer[q].at + MaxDelay
        /\ answer[q].version < origin.version =>
              answer[q].at <= origin.replaced[answer[q].version]

Ages ==
    /\ Dated(cache)
    /\ \A r \in Requests : Dated(revalidate[r]) /\ Dated(background[r].value) /\ OnItsWay(r)

\* What is in the cache at the start is no older than that.
LEMMA AgesInit == Init => Ages
<1> SUFFICES ASSUME Init PROVE Ages
  OBVIOUS
<1>1. origin.version = 1 /\ now = 0
  BY DEF Init
<1>2. Dated(cache)
  <2>1. cache # None => cache \in Values /\ cache.expires <= MaxAge
    BY CacheableRequestAssumption DEF Init
  <2>2. cache # None => cache.version \in 1 .. MaxVersion
    BY <2>1 DEF Values, Versions
  <2> QED  BY <1>1, <2>1, <2>2, CacheableRequestAssumption DEF Dated, Values, Times
<1>3. ASSUME NEW r \in Requests
      PROVE  Dated(revalidate[r]) /\ Dated(background[r].value) /\ OnItsWay(r)
  BY DEF Init, Dated, OnItsWay, Idle
<1> QED  BY <1>2, <1>3 DEF Ages

\* The clock and the origin do not make an entry older than it may get: a
\* version is replaced at the current time, and what is fresh expires MaxAge
\* after it at the latest.
LEMMA DatedLater ==
    ASSUME TypeOK, Edit \/ Tick \/ UNCHANGED <<origin, now>>, NEW e \in Values \cup {None}, Dated(e)
    PROVE  e # None =>
             /\ e.expires <= now' + MaxAge
             /\ e.version < origin'.version =>
                   e.expires <= origin'.replaced[e.version] + MaxAge + MaxDelay
<1> SUFFICES ASSUME e # None
             PROVE  /\ e.expires <= now' + MaxAge
                    /\ e.version < origin'.version =>
                          e.expires <= origin'.replaced[e.version] + MaxAge + MaxDelay
  OBVIOUS
<1>1. /\ e.expires \in Int /\ e.version \in Int /\ e.version \in Versions
      /\ now \in Int /\ MaxAge \in Int /\ MaxDelay \in Nat
      /\ origin.version \in Int /\ origin.version \in Versions
      /\ \A v \in Versions : origin.replaced[v] \in Int
  BY CacheableRequestAssumption DEF TypeOK, Values, Times, Versions
<1>2. /\ e.expires <= now + MaxAge
      /\ e.version < origin.version =>
            e.expires <= origin.replaced[e.version] + MaxAge + MaxDelay
  BY DEF Dated
<1>3. CASE Edit
  <2>1. now' = now /\ origin'.version = origin.version + 1
        /\ origin'.replaced = [origin.replaced EXCEPT ![origin.version] = now]
    BY <1>3 DEF Edit
  <2>2. CASE e.version = origin.version
    <3>1. origin'.replaced[e.version] = now
      BY <1>1, <2>1, <2>2 DEF TypeOK
    <3> QED  BY <1>1, <1>2, <2>1, <3>1
  <2>3. CASE e.version # origin.version
    <3>1. origin'.replaced[e.version] = origin.replaced[e.version]
      BY <1>1, <2>1, <2>3 DEF TypeOK
    <3>2. e.version < origin'.version => e.version < origin.version
      BY <1>1, <2>1, <2>3
    <3> QED  BY <1>1, <1>2, <2>1, <3>1, <3>2
  <2> QED  BY <2>2, <2>3
<1>4. CASE Tick
  BY <1>1, <1>2, <1>4 DEF Tick
<1>5. CASE UNCHANGED <<origin, now>>
  BY <1>2, <1>5
<1> QED  BY <1>3, <1>4, <1>5

\* What has just arrived expires MaxAge from now, and was sent MaxDelay ago at
\* most, when the origin still had it.
LEMMA ArrivedDated ==
    ASSUME TypeOK, NEW q \in Requests, step[q] = "answered", OnItsWay(q),
           NEW e \in Values, e.version = answer[q].version, e.expires = now + MaxAge
    PROVE  Dated(e)
<1>1. /\ now \in Int /\ MaxAge \in Int /\ MaxDelay \in Nat /\ answer[q].at \in Int
      /\ e.version \in Versions
      /\ \A v \in Versions : origin.replaced[v] \in Int
  BY CacheableRequestAssumption DEF TypeOK, Values
<1> QED  BY <1>1 DEF OnItsWay, Dated

\* Only an edit and the clock change what entries are measured by.
LEMMA WorldMoves ==
    ASSUME [Next]_vars
    PROVE  \/ UNCHANGED <<origin, now>>
           \/ (Edit \/ Tick) /\ UNCHANGED <<cache, step, revalidate, answer, background>>
<1>1. CASE Edit \/ Tick
  BY <1>1 DEF Edit, Tick
<1>2. CASE Lose \/ UNCHANGED vars
  BY <1>2 DEF Lose, vars
<1>3. ASSUME NEW r \in Requests,
             \/ \E o \in Options[r] : Start(r, o)
             \/ LookUp(r) \/ LookUpFails(r) \/ DeleteReturns(r) \/ Answer(r) \/ Handle(r)
             \/ Drained(r) \/ BodyEnds(r) \/ BackgroundReturns(r) \/ Close(r)
      PROVE  UNCHANGED <<origin, now>>
  BY <1>3 DEF Start, LookUp, LookUpFails, DeleteReturns, Answer, Handle, Drained, BodyEnds,
     BackgroundReturns, Close
<1> QED  BY <1>1, <1>2, <1>3 DEF Next

\* No step makes an entry, or an answer on its way, older than that.
LEMMA AgesStep ==
    ASSUME TypeOK, \A r \in Requests : Asked(r), Ages, [Next]_vars
    PROVE  Ages'
<1>1. CASE (Edit \/ Tick) /\ UNCHANGED <<cache, step, revalidate, answer, background>>
  <2>1. Dated(cache)'
    <3>1. cache \in Values \cup {None}
      BY DEF TypeOK
    <3> QED  BY <1>1, <3>1, DatedLater DEF Ages, Dated
  <2>2. ASSUME NEW q \in Requests PROVE Dated(revalidate[q])' /\ Dated(background[q].value)'
    <3>1. revalidate[q] \in Values \cup {None} /\ background[q].value \in Values \cup {None}
      BY DEF TypeOK
    <3>2. Dated(revalidate[q]) /\ Dated(background[q].value)
      BY DEF Ages
    <3> QED  BY <1>1, <3>1, <3>2, DatedLater DEF Dated
  <2>3. ASSUME NEW q \in Requests, step[q] = "answered"
        PROVE  /\ answer[q].at <= now' /\ now' <= answer[q].at + MaxDelay
               /\ answer[q].version < origin'.version =>
                     answer[q].at <= origin'.replaced[answer[q].version]
    <3>1. /\ now \in Int /\ MaxDelay \in Nat /\ answer[q].at \in Int
          /\ answer[q].version \in Versions /\ answer[q].version \in Int
          /\ origin.version \in Versions /\ origin.version \in Int
          /\ \A v \in Versions : origin.replaced[v] \in Int
      BY <2>3, CacheableRequestAssumption DEF TypeOK, Asked, Versions
    <3>2. OnItsWay(q)
      BY DEF Ages
    <3>3. CASE Tick
      BY <2>3, <3>1, <3>2, <3>3 DEF Tick, OnItsWay
    <3>4. CASE Edit
      <4>1. now' = now /\ origin'.version = origin.version + 1
            /\ origin'.replaced = [origin.replaced EXCEPT ![origin.version] = now]
        BY <3>4 DEF Edit
      <4>2. CASE answer[q].version = origin.version
        <5>1. origin'.replaced[answer[q].version] = now
          BY <3>1, <4>1, <4>2 DEF TypeOK
        <5> QED  BY <2>3, <3>1, <3>2, <4>1, <5>1 DEF OnItsWay
      <4>3. CASE answer[q].version # origin.version
        <5>1. origin'.replaced[answer[q].version] = origin.replaced[answer[q].version]
          BY <3>1, <4>1, <4>3 DEF TypeOK
        <5>2. answer[q].version < origin'.version => answer[q].version < origin.version
          BY <3>1, <4>1, <4>3
        <5> QED  BY <2>3, <3>1, <3>2, <4>1, <5>1, <5>2 DEF OnItsWay
      <4> QED  BY <4>2, <4>3
    <3> QED  BY <1>1, <3>3, <3>4
  <2> QED  BY <1>1, <2>1, <2>2, <2>3 DEF Ages, OnItsWay
<1>2. CASE UNCHANGED <<origin, now>>
  <2>1. Dated(cache)'
    BY <1>2, CacheMoves DEF Ages, Dated
  <2>2. ASSUME NEW q \in Requests PROVE Dated(revalidate[q])'
    <3>1. Moved(q)
      BY RequestMoves
    <3>2. CASE Awaited(q)
      <4>1. revalidate[q] \in Values /\ revalidate[q].version = answer[q].version
            /\ step[q] = "answered"
        BY <3>2 DEF Awaited, Asked, TypeOK
      <4>2. revalidate'[q] \in Values
        BY <3>2, <4>1, ExpiryType DEF Awaited
      <4>3. revalidate'[q].version = answer[q].version /\ revalidate'[q].expires = now + MaxAge
        BY <3>2, <4>1 DEF Awaited, Values
      <4>4. Dated(revalidate'[q])
        BY <4>1, <4>2, <4>3, ArrivedDated DEF Ages
      <4> QED  BY <1>2, <4>4 DEF Dated
    <3>3. CASE ~Awaited(q)
      BY <1>2, <3>1, <3>3
      DEF Moved, Kept, Begun, Forced, Requested, SentFor, Answered, Ended, Ages, Dated
    <3> QED  BY <3>2, <3>3
  <2>3. ASSUME NEW q \in Requests PROVE Dated(background[q].value)'
    <3>1. InBackground(q)
      BY BackgroundMoves
    <3>2. CASE ToRead(q)
      <4> DEFINE e == Value(answer[q].version, FALSE)
      <4>1. e \in Values /\ e.version = answer[q].version /\ e.expires = now + MaxAge
        BY <3>2, ValueType DEF ToRead, Value
      <4>2. Dated(e)
        BY <3>2, <4>1, ArrivedDated DEF ToRead, Ages
      <4>3. background'[q].value = e
        BY <3>2 DEF ToRead
      <4> HIDE DEF e
      <4> QED  BY <1>2, <4>2, <4>3 DEF Dated
    <3>3. CASE ToStore(q)
      BY <1>2, <3>3 DEF ToStore, Ages, Dated
    <3>4. CASE ReadToEnd(q)
      <4>1. /\ background[q].value # None /\ background'[q].value # None
            /\ background'[q].value.version = background[q].value.version
            /\ background'[q].value.expires = background[q].value.expires
        BY <3>4, CacheableRequestAssumption DEF ReadToEnd, Values
      <4> QED  BY <1>2, <4>1 DEF Ages, Dated
    <3> QED  BY <1>2, <3>1, <3>2, <3>3, <3>4 DEF InBackground, Ages, Dated
  <2>4. ASSUME NEW q \in Requests PROVE OnItsWay(q)'
    <3>1. Moved(q)
      BY RequestMoves
    <3>2. CASE Answered(q)
      <4>1. now \in Int /\ MaxDelay \in Nat /\ origin.version \in Int
        BY CacheableRequestAssumption DEF TypeOK, Versions
      <4> QED  BY <3>2, <4>1 DEF Answered, OnItsWay
    <3>3. CASE Kept(q)
      BY <1>2, <3>3 DEF Kept, Ages, OnItsWay
    <3> QED
      BY <3>1, <3>2, <3>3
      DEF Moved, Begun, Forced, Requested, SentFor, Awaited, Ended, OnItsWay
  <2> QED  BY <2>1, <2>2, <2>3, <2>4 DEF Ages
<1> QED  BY <1>1, <1>2, WorldMoves

-----------------------------------------------------------------------------
(* Responses                                                               *)

\* From the cache; from the origin, with or without a body; from the entry revalidated.
Hit(q) ==
    /\ cache # None /\ Satisfies(cache)
    /\ outcome'[q].response = [kind |-> "hit", version |-> cache.version]

FromOrigin(q) ==
    /\ step[q] = "answered"
    /\ answer[q].modified \/ revalidate[q] = None
    /\ outcome'[q].response =
          [kind |-> IF answer[q].modified THEN "new" ELSE "bare", version |-> answer[q].version]

Validated(q) ==
    /\ step[q] = "drain"
    /\ outcome'[q].response = [kind |-> "validated", version |-> revalidate[q].version]

\* An error does not touch the response.
LEMMA ErrorsKeepResponse ==
    ASSUME TypeOK, NEW rs, EmitError(rs), NEW q \in Requests
    PROVE  ~Responds(q)
<1>1. outcome[q] \in [response : Responses \cup {None}, failed : BOOLEAN]
  BY DEF TypeOK
<1> QED  BY <1>1 DEF EmitError, Responds

\* Only the request itself has the response that is emitted.
LEMMA EmittedResponse ==
    ASSUME TypeOK, NEW r \in Requests, NEW kind, NEW version, Emitted(r, kind, version),
           NEW q \in Requests
    PROVE  \/ ~Responds(q)
           \/ q = r /\ outcome'[q].response = [kind |-> kind, version |-> version]
<1>1. outcome[r] \in [response : Responses \cup {None}, failed : BOOLEAN]
  BY DEF TypeOK
<1> QED  BY <1>1 DEF Emitted, Responds, TypeOK

\* The steps that hand out a response, and which one it is.
LEMMA ResponseMoves ==
    ASSUME TypeOK, [Next]_vars, NEW q \in Requests, Responds(q)
    PROVE  (Hit(q) \/ FromOrigin(q) \/ Validated(q)) /\ UNCHANGED <<origin, now>>
<1>1. ASSUME UNCHANGED outcome PROVE FALSE
  BY <1>1 DEF Responds
<1>2. ASSUME NEW rs, EmitError(rs) PROVE FALSE
  BY <1>2, ErrorsKeepResponse
<1>3. ASSUME NEW r, NEW etag, NEW entry, NEW failing, MakeRequest(r, etag, entry, failing)
      PROVE  FALSE
  BY <1>1, <1>2, <1>3 DEF MakeRequest
<1>4. ASSUME NEW r, NEW failing, Catch(r, failing) \/ FoundNothing(r, failing) PROVE FALSE
  BY <1>2, <1>3, <1>4 DEF Catch, FoundNothing
<1>5. ASSUME NEW r \in Requests, LookUp(r) PROVE Hit(q) /\ UNCHANGED <<origin, now>>
  <2> DEFINE e == IF options[r].cache THEN cache ELSE None
  <2>1. UNCHANGED <<origin, now>>
    BY <1>5 DEF LookUp
  <2>2. e # None /\ Satisfies(e) /\ FoundFresh(r, e)
    BY <1>3, <1>4, <1>5 DEF LookUp
  <2>3. e = cache
    BY <2>2
  <2>4. Emitted(r, "hit", cache.version)
    BY <1>1, <2>2, <2>3 DEF FoundFresh
  <2> QED  BY <2>1, <2>2, <2>3, <2>4, EmittedResponse DEF Hit
<1>6. ASSUME NEW r \in Requests, LookUpFails(r) \/ DeleteReturns(r) PROVE FALSE
  BY <1>3, <1>4, <1>6 DEF LookUpFails, DeleteReturns
<1>7. ASSUME NEW r \in Requests, Handle(r) PROVE FromOrigin(q) /\ UNCHANGED <<origin, now>>
  <2>1. /\ step[r] = "answered"
        /\ answer[r].modified \/ revalidate[r] = None
        /\ Emitted(r, IF answer[r].modified THEN "new" ELSE "bare", answer[r].version)
        /\ UNCHANGED <<origin, now>>
    BY <1>1, <1>7 DEF Handle
  <2> DEFINE kind == IF answer[r].modified THEN "new" ELSE "bare"
  <2>2. q = r /\ outcome'[q].response = [kind |-> kind, version |-> answer[r].version]
    <3>1. Emitted(r, kind, answer[r].version)
      BY <2>1
    <3> HIDE DEF kind
    <3> QED  BY <3>1, EmittedResponse
  <2> QED  BY <2>1, <2>2 DEF FromOrigin
<1>8. ASSUME NEW r \in Requests, Drained(r) PROVE Validated(q) /\ UNCHANGED <<origin, now>>
  <2>1. step[r] = "drain" /\ Emitted(r, "validated", revalidate[r].version)
        /\ UNCHANGED <<origin, now>>
    BY <1>8 DEF Drained, Rebuilt
  <2>2. q = r /\ outcome'[q].response = [kind |-> "validated", version |-> revalidate[r].version]
    BY <2>1, EmittedResponse
  <2> QED  BY <2>1, <2>2 DEF Validated
<1>9. ASSUME NEW r \in Requests, BackgroundReturns(r) PROVE FALSE
  BY <1>1, <1>2, <1>9 DEF BackgroundReturns, Stored, Removed, BackgroundFails
<1>10. ASSUME NEW r \in Requests, Close(r) PROVE FALSE
  <2>1. outcome[r] \in [response : Responses \cup {None}, failed : BOOLEAN]
    BY DEF TypeOK
  <2>2. outcome' = [outcome EXCEPT ![r].failed = TRUE]
    BY <1>1, <1>10 DEF Close, Cut
  <2> QED  BY <2>1, <2>2 DEF Responds, TypeOK
<1>11. ASSUME NEW r \in Requests, (\E o \in Options[r] : Start(r, o)) \/ Answer(r) \/ BodyEnds(r)
       PROVE  FALSE
  BY <1>1, <1>11 DEF Start, Answer, BodyEnds
<1>12. CASE Edit \/ Lose \/ Tick \/ UNCHANGED vars
  BY <1>1, <1>12 DEF Edit, Lose, Tick, vars
<1> QED
  BY <1>5, <1>6, <1>7, <1>8, <1>9, <1>10, <1>11, <1>12 DEF Next

\* No step hands out a response that is older than its kind allows.
THEOREM ResponsesAreTrue == Spec => ResponsesTrue
<1>1. Init => Ages
  BY AgesInit
<1>2. TypeOK /\ (\A r \in Requests : Asked(r)) /\ Ages /\ [Next]_vars => Ages'
  BY AgesStep
<1>3. TypeOK /\ (\A r \in Requests : Asked(r)) /\ Ages /\ [Next]_vars
        => [AnswersTrue /\ StalenessBounded]_vars
  <2> SUFFICES ASSUME TypeOK, \A r \in Requests : Asked(r), Ages, [Next]_vars,
                      NEW q \in Requests, Responds(q)
               PROVE  LET s == outcome'[q].response
                      IN  /\ s.kind # "hit" => s.version = answer[q].version
                          /\ s.kind = "bare" => options[q].forceRefresh
                          /\ (s.kind = "hit" /\ s.version < origin.version)
                                => now < origin.replaced[s.version] + MaxAge + MaxDelay
    BY DEF AnswersTrue, StalenessBounded
  <2>1. CASE Hit(q)
    <3>1. Dated(cache) /\ cache \in Values
      BY <2>1 DEF Ages, Hit, TypeOK
    <3>2. /\ now \in Int /\ cache.expires \in Int /\ cache.version \in Versions
          /\ MaxAge \in Int /\ MaxDelay \in Int
          /\ \A v \in Versions : origin.replaced[v] \in Int
      BY <3>1, CacheableRequestAssumption DEF TypeOK, Values, Times
    <3> QED  BY <2>1, <3>1, <3>2 DEF Hit, Satisfies, Dated
  <2>2. CASE FromOrigin(q)
    BY <2>2, CacheableRequestAssumption DEF FromOrigin, Asked
  <2>3. CASE Validated(q)
    BY <2>3 DEF Validated, Asked
  <2> QED  BY <2>1, <2>2, <2>3, ResponseMoves
<1> QED  BY <1>1, <1>2, <1>3, RequestInvariant, PTL DEF Spec, ResponsesTrue

-----------------------------------------------------------------------------
(* Listeners                                                               *)

\* A request that has not started has left no trace.
Silent(q) ==
    step[q] = "idle" =>
        /\ ~listening[q] /\ outcome[q].response = None /\ ~outcome[q].failed
        /\ connection[q] = "none" /\ background[q].do = "none"

Quiet == ListenersReleased /\ \A r \in Requests : Silent(r)

\* It has stopped listening; or what it emitted is as before.
Deaf(q) == ~listening'[q] /\ step[q] # "idle"

Undisturbed(q) ==
    /\ UNCHANGED <<listening[q], outcome[q]>>
    /\ connection'[q] = connection[q] \/ (connection'[q] = "open" /\ step[q] # "idle")

\* An error is heard by requests that have started only, and by those that
\* listen for the last time.
LEMMA ErrorMoves ==
    ASSUME TypeOK, Quiet, NEW r \in Requests, step[r] # "idle",
           NEW rs, rs \subseteq Listeners \cup {r}, EmitError(rs), NEW q \in Requests
    PROVE  Deaf(q) \/ UNCHANGED <<listening[q], outcome[q]>>
<1>1. CASE q \in rs
  <2>1. ~listening'[q]
    BY <1>1 DEF EmitError
  <2>2. step[q] # "idle"
    BY <1>1 DEF Quiet, Silent, Listeners
  <2> QED  BY <2>1, <2>2 DEF Deaf
<1>2. CASE q \notin rs
  BY <1>2 DEF EmitError, TypeOK
<1> QED  BY <1>1, <1>2

\* Making a request disturbs those only that hear its failure.
LEMMA MakeRequestListeners ==
    ASSUME TypeOK, Quiet, NEW r \in Requests, step[r] # "idle", NEW etag, NEW entry,
           NEW failing, failing \subseteq Listeners \cup {r},
           MakeRequest(r, etag, entry, failing), NEW q \in Requests
    PROVE  Deaf(q) \/ Undisturbed(q)
<1>1. \/ UNCHANGED <<listening, outcome>>
      \/ EmitError(failing)
      \/ EmitError(failing \cup {r})
  BY DEF MakeRequest
<1>2. failing \cup {r} \subseteq Listeners \cup {r}
  OBVIOUS
<1>3. Deaf(q) \/ UNCHANGED <<listening[q], outcome[q]>>
  BY <1>1, <1>2, ErrorMoves
<1>4. connection'[q] = connection[q] \/ (connection'[q] = "open" /\ q = r)
  BY DEF MakeRequest, Sent, NotSent, TypeOK
<1> QED  BY <1>3, <1>4 DEF Undisturbed

\* The same of going on after a look-up that failed.
LEMMA CatchListeners ==
    ASSUME TypeOK, Quiet, NEW r \in Requests, step[r] # "idle",
           NEW failing, failing \subseteq Listeners \cup {r},
           Catch(r, failing), NEW q \in Requests
    PROVE  Deaf(q) \/ Undisturbed(q)
<1>1. failing \cup {r} \subseteq Listeners \cup {r}
  OBVIOUS
<1>2. CASE MakeRequest(r, None, None, failing \cup {r})
  BY <1>1, <1>2, MakeRequestListeners
<1>3. CASE NotSent(r) /\ EmitError(failing \cup {r})
  BY <1>1, <1>3, ErrorMoves DEF NotSent, Undisturbed
<1> QED  BY <1>2, <1>3 DEF Catch

\* A request hears the error of a step, stops listening, or is not concerned.
LEMMA ListeningMoves ==
    ASSUME TypeOK, Quiet, [Next]_vars, NEW q \in Requests
    PROVE  \/ Deaf(q) \/ Undisturbed(q)
           \/ Begun(q) /\ UNCHANGED <<outcome[q], connection[q]>>
<1>0. Listeners \subseteq Requests
  BY DEF Listeners
<1>1. ASSUME NEW r \in Requests, NEW o \in Options[r], Start(r, o)
      PROVE  Undisturbed(q) \/ (Begun(q) /\ UNCHANGED <<outcome[q], connection[q]>>)
  BY <1>1 DEF Start, Undisturbed, Begun, TypeOK
<1>2. ASSUME NEW r \in Requests, NEW kind, NEW version, Emitted(r, kind, version),
             step[r] # "idle", UNCHANGED connection
      PROVE  Deaf(q) \/ Undisturbed(q)
  BY <1>2 DEF Emitted, Deaf, Undisturbed, TypeOK
<1>3. ASSUME NEW r \in Requests, LookUp(r) PROVE Deaf(q) \/ Undisturbed(q)
  <2> DEFINE e == IF options[r].cache THEN cache ELSE None
  <2>1. step[r] # "idle" /\ {} \subseteq Listeners \cup {r}
    BY <1>3 DEF LookUp
  <2>2. CASE FoundNothing(r, {})
    BY <2>1, <2>2, CatchListeners, MakeRequestListeners DEF FoundNothing
  <2>3. CASE FoundFresh(r, e)
    <3>1. \/ UNCHANGED <<connection, listening, outcome>>
          \/ Emitted(r, "hit", e.version) /\ UNCHANGED connection
      BY <2>3 DEF FoundFresh
    <3> HIDE DEF e
    <3> QED  BY <1>2, <2>1, <3>1 DEF Undisturbed
  <2>4. CASE MakeRequest(r, e.version, e, {})
    <3> HIDE DEF e
    <3> QED  BY <2>1, <2>4, MakeRequestListeners
  <2> QED  BY <1>3, <2>2, <2>3, <2>4 DEF LookUp
<1>4. ASSUME NEW r \in Requests, LookUpFails(r) PROVE Deaf(q) \/ Undisturbed(q)
  <2>1. step[r] # "idle" /\ {} \subseteq Listeners \cup {r}
    BY <1>4 DEF LookUpFails
  <2>2. PICK heard \in {{}, Listeners} : Catch(r, heard) \/ MakeRequest(r, None, None, heard)
    BY <1>4 DEF LookUpFails, FoundNothing
  <2> QED  BY <2>1, <2>2, CatchListeners, MakeRequestListeners
<1>5. ASSUME NEW r \in Requests, DeleteReturns(r) PROVE Deaf(q) \/ Undisturbed(q)
  <2>1. step[r] # "idle" /\ {} \subseteq Listeners \cup {r}
    BY <1>5 DEF DeleteReturns
  <2>2. PICK heard \in {{}, Listeners} :
           Catch(r, heard) \/ MakeRequest(r, answer[r].etag, None, heard)
    BY <1>5 DEF DeleteReturns
  <2> QED  BY <2>1, <2>2, CatchListeners, MakeRequestListeners
<1>6. ASSUME NEW r \in Requests, Handle(r) PROVE Deaf(q) \/ Undisturbed(q)
  <2> DEFINE kind == IF answer[r].modified THEN "new" ELSE "bare"
  <2>1. \/ UNCHANGED <<listening, outcome>>
        \/ Emitted(r, kind, answer[r].version)
    BY <1>6 DEF Handle
  <2>2. step[r] # "idle" /\ UNCHANGED connection
    BY <1>6 DEF Handle
  <2> HIDE DEF kind
  <2> QED  BY <1>2, <2>1, <2>2 DEF Undisturbed
<1>7. ASSUME NEW r \in Requests, Drained(r) PROVE Deaf(q) \/ Undisturbed(q)
  BY <1>2, <1>7 DEF Drained
<1>8. ASSUME NEW r \in Requests, BackgroundReturns(r) PROVE Deaf(q) \/ Undisturbed(q)
  <2>1. step[r] # "idle"
    BY <1>8 DEF BackgroundReturns, Stored, Removed, BackgroundFails, Quiet, Silent
  <2>2. \/ UNCHANGED <<listening, outcome>>
        \/ \E failing \in {{r}, Listeners, Listeners \cup {r}} : EmitError(failing)
    BY <1>8 DEF BackgroundReturns, Stored, Removed, BackgroundFails
  <2>3. UNCHANGED connection
    BY <1>8 DEF BackgroundReturns
  <2>4. Deaf(q) \/ UNCHANGED <<listening[q], outcome[q]>>
    BY <2>1, <2>2, ErrorMoves
  <2> QED  BY <2>3, <2>4 DEF Undisturbed
<1>9. ASSUME NEW r \in Requests, Close(r) PROVE Deaf(q) \/ Undisturbed(q)
  <2>1. step[r] # "idle"
    BY <1>9 DEF Close, Quiet, Silent
  <2>2. CASE q = r
    BY <1>9, <2>1, <2>2 DEF Close, Unregistered, Deaf, TypeOK
  <2>3. CASE q # r
    BY <1>9, <2>3 DEF Close, Cut, Unregistered, Undisturbed, TypeOK
  <2> QED  BY <2>2, <2>3
<1>10. ASSUME NEW r \in Requests, Answer(r) \/ BodyEnds(r) PROVE Undisturbed(q)
  BY <1>10 DEF Answer, BodyEnds, Undisturbed
<1>11. CASE Edit \/ Lose \/ Tick \/ UNCHANGED vars
  BY <1>11 DEF Edit, Lose, Tick, vars, Undisturbed
<1> QED
  BY <1>1, <1>3, <1>4, <1>5, <1>6, <1>7, <1>8, <1>9, <1>10, <1>11 DEF Next

\* A request that has not started has nothing in its background.
LEMMA IdleBackground ==
    ASSUME TypeOK, Quiet, [Next]_vars, NEW q \in Requests, step[q] = "idle"
    PROVE  UNCHANGED background[q]
<1>1. ASSUME NEW r \in Requests, Handle(r) \/ Drained(r) PROVE UNCHANGED background[q]
  BY <1>1 DEF Handle, Drained, TypeOK
<1>2. ASSUME NEW r \in Requests, BodyEnds(r) \/ BackgroundReturns(r) PROVE UNCHANGED background[q]
  <2>1. q # r
    BY <1>2 DEF BodyEnds, BackgroundReturns, Stored, Removed, BackgroundFails, Quiet, Silent
  <2> QED  BY <1>2, <2>1 DEF BodyEnds, BackgroundReturns, TypeOK
<1>3. ASSUME NEW r \in Requests, Close(r) PROVE UNCHANGED background[q]
  <2>1. q # r
    BY <1>3 DEF Close, Quiet, Silent
  <2> QED  BY <1>3, <2>1 DEF Close, Cut, TypeOK
<1>4. ASSUME NEW r \in Requests,
             \/ \E o \in Options[r] : Start(r, o)
             \/ LookUp(r) \/ LookUpFails(r) \/ DeleteReturns(r) \/ Answer(r)
      PROVE  UNCHANGED background[q]
  BY <1>4 DEF Start, LookUp, LookUpFails, DeleteReturns, Answer
<1>5. CASE Edit \/ Lose \/ Tick \/ UNCHANGED vars
  BY <1>5 DEF Edit, Lose, Tick, vars
<1> QED  BY <1>1, <1>2, <1>3, <1>4, <1>5 DEF Next

\* A request listens to the cache only until it has a response, an error or a
\* closed connection: listeners do not add up.
THEOREM ListenersGo == Spec => []ListenersReleased
<1>1. Init => Quiet
  BY DEF Init, Quiet, Silent, ListenersReleased, Idle
<1>2. ASSUME TypeOK, \A r \in Requests : Asked(r), Quiet, [Next]_vars PROVE Quiet'
  <2> SUFFICES ASSUME NEW q \in Requests
               PROVE  /\ listening'[q] => /\ outcome'[q].response = None /\ ~outcome'[q].failed
                                          /\ connection'[q] # "closed"
                      /\ Silent(q)'
    BY DEF Quiet, ListenersReleased
  <2>1. step'[q] = "idle" => step[q] = "idle"
    BY <1>2, RequestMoves
    DEF Moved, Kept, Begun, Forced, Requested, SentFor, Answered, Awaited, Ended
  <2>2. step[q] = "idle" => UNCHANGED background[q]
    BY <1>2, IdleBackground
  <2>3. CASE Deaf(q)
    BY <2>1, <2>3 DEF Deaf, Silent
  <2>4. CASE Undisturbed(q)
    BY <1>2, <2>1, <2>2, <2>4 DEF Undisturbed, Quiet, ListenersReleased, Silent
  <2>5. CASE Begun(q) /\ UNCHANGED <<outcome[q], connection[q]>>
    BY <1>2, <2>5 DEF Begun, Quiet, Silent
  <2> QED  BY <1>2, <2>3, <2>4, <2>5, ListeningMoves
<1>3. Quiet => ListenersReleased
  BY DEF Quiet
<1> QED  BY <1>1, <1>2, <1>3, RequestInvariant, PTL DEF Spec
=============================================================================
