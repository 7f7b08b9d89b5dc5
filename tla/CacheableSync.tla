----------------------------- MODULE CacheableSync -----------------------------
(***************************************************************************)
(* CacheableSync (cacheable): instances of Cacheable that replicate the sets *)
(* and deletes of one key to each other's primary stores.  An instance       *)
(* publishes after its stores have answered, under the topic of the          *)
(* namespace it has by then, and applies what others publish to the          *)
(* primary store it subscribed with.  The n-th write stores value n.         *)
(*                                                                           *)
(* The bus (Qified) is external.  What an instance asks of it takes effect   *)
(* later, in the order it was asked; a message is put before every instance  *)
(* subscribed at that moment and arrives later.  Messages arrive in order,   *)
(* or only those of one topic do: sets and deletes have different topics.    *)
(***************************************************************************)
EXTENDS Integers, Sequences, FiniteSets, SequencesExt

CONSTANTS
    Instances,
    Namespaces,
    Callers,     \* calls in flight
    None,
    MaxWrites,   \* bound of the model
    Bounds       \* further bounds: the namespaces instances start with, where
                 \* callers are, how many writes, changes and losses there are

VARIABLES
    namespace,   \* namespace of each instance, of its primary and of its sync
    primary,     \* primary[i][ns]: what i's primary store holds for the key
    bound,       \* whether the subscription's storage is the primary store
    heard,       \* namespaces whose topics the bus delivers to an instance
    requests,    \* what an instance asked of the bus, not yet in effect
    inbox,       \* messages on their way to an instance
    calls,       \* writes that are not published yet
    ordered,     \* whether messages of different topics keep their order
    bounds,      \* one of Bounds
    spent,       \* writes, changes and losses so far
    history      \* of each namespace, what its writes should have led to

vars == <<namespace, primary, bound, heard, requests, inbox, calls, ordered,
          bounds, spent, history>>

InstanceOf(c) == bounds.at[c]

Values == [n : 1 .. MaxWrites, ns : Namespaces]
Writes == [op : {"set", "delete"}, value : Values]
Messages == [op : {"set", "delete"}, value : Values, from : Instances, ns : Namespaces]

ASSUME CacheableSyncAssumption ==
    /\ MaxWrites \in Nat
    /\ Bounds \subseteq [start : [Instances -> Namespaces], at : [Callers -> Instances],
                         writes : 0 .. MaxWrites, changes : Nat, losses : Nat]
    /\ None \notin Values \cup Writes

Requests == [op : {"subscribe", "unsubscribe"}, ns : Namespaces]

(* The history of a namespace: what its last write left, the instances that *)
(* write and every message of it should have reached, whether another write *)
(* was under way then or since, and who has written at all.                 *)
Histories == [last : Values \cup {None}, due : SUBSET Instances, raced : BOOLEAN,
              writers : SUBSET Instances]

InFlight(ns) == {m \in UNION {Range(inbox[j]) : j \in Instances} : m.ns = ns}
Pending(ns) == {c \in Callers : calls[c] # None /\ calls[c].value.ns = ns}

\* Whether a write of instance i in ns meets another one.
Races(i, ns) ==
    \/ Pending(ns) # {}
    \/ \E m \in InFlight(ns) : m.from # i \/ ~ordered

Undue(i, which) ==
    [ns \in Namespaces |->
        IF ns \in which THEN [history[ns] EXCEPT !.due = @ \ {i}] ELSE history[ns]]

----------------------------------------------------------------------------
(* Cacheable: writes *)

\* Events are prefixed with the namespace they are asked for.
getPrefixedEvent(i, ns) == ns

\* The stores have answered, the primary one with the write in it.
Written(c, op, left) ==
    LET i == InstanceOf(c)
        ns == namespace[i]
        value == [n |-> spent.writes + 1, ns |-> ns]
        result == IF left THEN value ELSE None
    IN  /\ calls[c] = None /\ spent.writes < bounds.writes
        /\ spent' = [spent EXCEPT !.writes = @ + 1]
        /\ primary' = [primary EXCEPT ![i][ns] = result]
        /\ calls' = [calls EXCEPT ![c] = [op |-> op, value |-> value]]
        /\ history' = [history EXCEPT ![ns] =
                [last |-> result, due |-> {i}, raced |-> Races(i, ns),
                 writers |-> @.writers \cup {i}]]
        /\ UNCHANGED <<namespace, bound, heard, requests, inbox, ordered, bounds>>

Set(c) == Written(c, "set", TRUE)
Delete(c) == Written(c, "delete", FALSE)

\* Another store or the bus fails, or a delete found nothing: no message.
Unpublished(c) ==
    /\ calls[c] # None
    /\ calls' = [calls EXCEPT ![c] = None]
    /\ UNCHANGED <<namespace, primary, bound, heard, requests, inbox, ordered, bounds,
                   spent, history>>

\* The topic is that of the namespace the instance has by now.
Publish(c) ==
    /\ calls[c] # None
    /\ LET i == InstanceOf(c)
           w == calls[c]
           ns == getPrefixedEvent(i, namespace[i])
           m == [op |-> w.op, value |-> w.value, from |-> i, ns |-> ns]
           reached == {j \in Instances \ {i} :
                          /\ ns \in heard[j] /\ namespace[j] = ns
                          /\ requests[j] = <<>> /\ bound[j]}
       IN  /\ inbox' = [j \in Instances |->
                           IF ns \in heard[j] THEN Append(inbox[j], m) ELSE inbox[j]]
           /\ history' = [history EXCEPT ![ns] =
                 IF w.value.ns = ns
                 THEN [history[ns] EXCEPT !.due = @ \cup reached]
                 ELSE [history[ns] EXCEPT !.raced = TRUE, !.writers = @ \cup {i}]]
    /\ calls' = [calls EXCEPT ![c] = None]
    /\ UNCHANGED <<namespace, primary, bound, heard, requests, ordered, bounds, spent>>

----------------------------------------------------------------------------
(* CacheableSync: handlers *)

\* The next message of some topic to arrive at i.
Arriving(i) ==
    {k \in DOMAIN inbox[i] :
        IF ordered THEN k = 1
        ELSE \A l \in 1 .. k - 1 :
                <<inbox[i][l].op, inbox[i][l].ns>> # <<inbox[i][k].op, inbox[i][k].ns>>}

\* Mutant: an instance applies its own messages.
Ignored_Never(i, m) == m.ns \notin heard[i]

\* Without a handler for its topic a message is lost on i, and the handlers
\* ignore what i itself has published.
Ignored(i, m) == m.ns \notin heard[i] \/ m.from = i

\* Mutant: only sets are applied.
Applied_SetsOnly(m, old) == IF m.op = "set" THEN m.value ELSE old

Applied(m, old) == IF m.op = "set" THEN m.value ELSE None

\* The store puts its own namespace before the key, whatever the message's.
Deliver(i) ==
    \E k \in Arriving(i) :
        LET m == inbox[i][k]
            ns == namespace[i]
        IN  /\ inbox' = [inbox EXCEPT ![i] = RemoveAt(@, k)]
            /\ IF Ignored(i, m) \/ ~bound[i]
               THEN UNCHANGED <<primary, history>>
               ELSE /\ primary' = [primary EXCEPT ![i][ns] = Applied(m, @)]
                    /\ history' = IF m.ns = ns THEN history
                                  ELSE [history EXCEPT ![ns].raced = TRUE,
                                                       ![ns].writers = @ \cup {m.from}]
            /\ UNCHANGED <<namespace, bound, heard, requests, calls, ordered, bounds, spent>>

\* The bus carries out the oldest request of i.
Subscription(i) ==
    /\ requests[i] # <<>>
    /\ LET r == Head(requests[i])
       IN  heard' = [heard EXCEPT ![i] = IF r.op = "subscribe" THEN @ \cup {r.ns}
                                                               ELSE @ \ {r.ns}]
    /\ requests' = [requests EXCEPT ![i] = Tail(@)]
    /\ UNCHANGED <<namespace, primary, bound, inbox, calls, ordered, bounds, spent, history>>

----------------------------------------------------------------------------
(* Settings, losses and restarts *)

Change == spent.changes < bounds.changes /\ spent' = [spent EXCEPT !.changes = @ + 1]

subscribe(i, ns) == <<[op |-> "subscribe", ns |-> getPrefixedEvent(i, ns)]>>
unsubscribe(i, ns) == <<[op |-> "unsubscribe", ns |-> getPrefixedEvent(i, ns)]>>

\* Mutant: the events to leave are those of the new namespace.
Resubscribe_LeavesNew(i, ns) == unsubscribe(i, ns) \o subscribe(i, ns)

\* Mutant: the old events stay subscribed.
Resubscribe_KeepsOld(i, ns) == subscribe(i, ns)

\* The namespace setter leaves the old events before it joins the new ones,
\* and waits for neither.
Resubscribe(i, ns) == unsubscribe(i, namespace[i]) \o subscribe(i, ns)

\* A message on its way may come too late for the store's old namespace.
SetNamespace(i, ns) ==
    /\ Change
    /\ namespace' = [namespace EXCEPT ![i] = ns]
    /\ requests' = [requests EXCEPT ![i] = @ \o Resubscribe(i, ns)]
    /\ history' = Undue(i, {m.ns : m \in Range(inbox[i])})
    /\ UNCHANGED <<primary, bound, heard, inbox, calls, ordered, bounds>>

\* The sync goes on with the store it subscribed with.
SetPrimary(i) ==
    /\ Change
    /\ primary' = [primary EXCEPT ![i] = [ns \in Namespaces |-> None]]
    /\ bound' = [bound EXCEPT ![i] = FALSE]
    /\ history' = Undue(i, Namespaces)
    /\ UNCHANGED <<namespace, heard, requests, inbox, calls, ordered, bounds>>

\* The sync setter subscribes the present store.
SetSync(i) ==
    /\ Change
    /\ bound' = [bound EXCEPT ![i] = TRUE]
    /\ requests' = [requests EXCEPT ![i] = @ \o subscribe(i, namespace[i])]
    /\ UNCHANGED <<namespace, primary, heard, inbox, calls, ordered, bounds, history>>

Loss == spent.losses < bounds.losses /\ spent' = [spent EXCEPT !.losses = @ + 1]

\* clear, expiry, eviction: others are not told.
Drop(i) ==
    LET ns == namespace[i]
    IN  /\ primary[i][ns] # None
        /\ Loss
        /\ primary' = [primary EXCEPT ![i][ns] = None]
        /\ history' = Undue(i, {ns})
        /\ UNCHANGED <<namespace, bound, heard, requests, inbox, calls, ordered, bounds>>

LoseMessage(i) ==
    /\ inbox[i] # <<>>
    /\ Loss
    /\ inbox' = [inbox EXCEPT ![i] = Tail(@)]
    /\ history' = Undue(i, {Head(inbox[i]).ns})
    /\ UNCHANGED <<namespace, primary, bound, heard, requests, calls, ordered, bounds>>

\* The process of i dies, and another takes its place.
Restart(i) ==
    /\ Loss
    /\ primary' = [primary EXCEPT ![i] = [ns \in Namespaces |-> None]]
    /\ bound' = [bound EXCEPT ![i] = TRUE]
    /\ heard' = [heard EXCEPT ![i] = {}]
    /\ requests' = [requests EXCEPT ![i] = subscribe(i, namespace[i])]
    /\ inbox' = [inbox EXCEPT ![i] = <<>>]
    /\ calls' = [c \in Callers |-> IF InstanceOf(c) = i THEN None ELSE calls[c]]
    /\ history' = Undue(i, Namespaces)
    /\ UNCHANGED <<namespace, ordered, bounds>>

----------------------------------------------------------------------------

Init ==
    /\ bounds \in Bounds
    /\ namespace = bounds.start
    /\ primary = [i \in Instances |-> [ns \in Namespaces |-> None]]
    /\ bound = [i \in Instances |-> TRUE]
    /\ heard = [i \in Instances |-> {namespace[i]}]
    /\ requests = [i \in Instances |-> <<>>]
    /\ inbox = [i \in Instances |-> <<>>]
    /\ calls = [c \in Callers |-> None]
    /\ ordered \in BOOLEAN
    /\ spent = [writes |-> 0, changes |-> 0, losses |-> 0]
    /\ history = [ns \in Namespaces |->
                    [last |-> None, due |-> {}, raced |-> FALSE, writers |-> {}]]

Next ==
    \/ \E c \in Callers : Set(c) \/ Delete(c) \/ Publish(c) \/ Unpublished(c)
    \/ \E i \in Instances :
          \/ Deliver(i) \/ Subscription(i)
          \/ \E ns \in Namespaces : SetNamespace(i, ns)
          \/ SetPrimary(i) \/ SetSync(i)
          \/ Drop(i) \/ LoseMessage(i) \/ Restart(i)

\* Stores answer, and the bus delivers what it does not lose.
Spec ==
    /\ Init /\ [][Next]_vars
    /\ \A c \in Callers : WF_vars(Publish(c) \/ Unpublished(c))
    /\ \A i \in Instances : WF_vars(Deliver(i)) /\ WF_vars(Subscription(i))

----------------------------------------------------------------------------
(* Properties *)

\* The variables hold what the fields of the instances and the bus hold;
\* requests and messages are of the instances' namespaces.
TypeOK ==
    /\ namespace \in [Instances -> Namespaces]
    /\ primary \in [Instances -> [Namespaces -> Values \cup {None}]]
    /\ bound \in [Instances -> BOOLEAN]
    /\ heard \in [Instances -> SUBSET Namespaces]
    /\ requests \in [Instances -> Seq(Requests)]
    /\ inbox \in [Instances -> Seq(Messages)]
    /\ calls \in [Callers -> Writes \cup {None}]
    /\ ordered \in BOOLEAN
    /\ spent \in [writes : 0 .. MaxWrites, changes : Nat, losses : Nat]
    /\ bounds \in Bounds
    /\ history \in [Namespaces -> Histories]

\* When the messages of a namespace have arrived, everyone the last write was
\* published to holds it, unless another write overlapped with it.  Two writes
\* of one instance do not overlap when the second began after the first was
\* published and the bus keeps the order of sets and deletes.
Agreement ==
    \A ns \in Namespaces :
        (Pending(ns) = {} /\ InFlight(ns) = {} /\ ~history[ns].raced) =>
            \A i \in history[ns].due : primary[i][ns] = history[ns].last

\* While one instance alone writes, no message changes what it wrote: neither
\* its own, however late, nor one of another namespace.
OwnWritesStand ==
    \A i \in Instances, ns \in Namespaces :
        (history[ns].writers = {i} /\ i \in history[ns].due) =>
            primary[i][ns] = history[ns].last

\* A value of one namespace reaches a store of another only as long as the
\* request to leave the old topics has not taken effect, or if the namespace
\* of the publishing instance changed between its write and its message.
Isolation ==
    [][\A i \in Instances :
        \A m \in Range(inbox[i]) :
            (/\ inbox'[i] # inbox[i] /\ primary'[i] # primary[i]
             /\ primary'[i][namespace[i]] = m.value)
            => m.ns = namespace[i] \/ requests[i] # <<>>]_vars

\* Once the bus has done what it was asked, an instance hears its own
\* namespace and no other, over any sequence of settings and restarts.
HearsOwnNamespace ==
    \A i \in Instances : requests[i] = <<>> => heard[i] = {namespace[i]}

\* A write reaches everyone it was published to, unless others interfere.
UpdatesArrive ==
    \A i \in Instances, ns \in Namespaces :
        i \in history[ns].due
            ~> (primary[i][ns] = history[ns].last \/ history[ns].raced
                \/ i \notin history[ns].due)

=============================================================================
