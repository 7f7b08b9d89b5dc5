-------------------------- MODULE CacheableSyncProofs --------------------------
(***************************************************************************)
(* Theorems about CacheableSync, for every number of instances, namespaces, *)
(* calls, writes, changes and losses: types, what the bus lets an instance  *)
(* hear, that nothing undoes the writes of an only writer, that namespaces  *)
(* stay apart, and that instances come to agree.                            *)
(***************************************************************************)
EXTENDS CacheableSync, SequenceTheorems, TLAPS

-----------------------------------------------------------------------------
(* Sequences.                                                               *)

\* A sequence without one of its elements has elements of the same set.
LEMMA RemoveAtType ==
    ASSUME NEW S, NEW s \in Seq(S), NEW k \in DOMAIN s
    PROVE  RemoveAt(s, k) \in Seq(S)
<1>1. k \in 1 .. Len(s) /\ Len(s) \in Nat /\ \A l \in 1 .. Len(s) : s[l] \in S
    BY LenProperties, ElementOfSeq
<1>2. SubSeq(s, 1, k - 1) \in Seq(S)
    BY <1>1, SubSeqProperties
<1>3. SubSeq(s, k + 1, Len(s)) \in Seq(S)
    BY <1>1, SubSeqProperties
<1> QED
    BY <1>2, <1>3, ConcatProperties DEF RemoveAt

-----------------------------------------------------------------------------
(* Types.                                                                   *)

LEMMA BoundsType ==
    ASSUME TypeOK
    PROVE  /\ \A c \in Callers : InstanceOf(c) \in Instances
           /\ bounds.writes \in 0 .. MaxWrites
BY CacheableSyncAssumption DEF TypeOK, InstanceOf

LEMMA UndueType ==
    ASSUME history \in [Namespaces -> Histories], NEW i \in Instances, NEW which
    PROVE  /\ Undue(i, which) \in [Namespaces -> Histories]
           /\ \A ns \in Namespaces :
                  /\ Undue(i, which)[ns].last = history[ns].last
                  /\ Undue(i, which)[ns].writers = history[ns].writers
                  /\ Undue(i, which)[ns].due \subseteq history[ns].due
                  /\ ns \in which => i \notin Undue(i, which)[ns].due
<1>1. ASSUME NEW ns \in Namespaces
      PROVE  /\ Undue(i, which)[ns] \in Histories
             /\ Undue(i, which)[ns].last = history[ns].last
             /\ Undue(i, which)[ns].writers = history[ns].writers
             /\ Undue(i, which)[ns].due \subseteq history[ns].due
             /\ ns \in which => i \notin Undue(i, which)[ns].due
    <2>1. history[ns] \in Histories
        OBVIOUS
    <2>2. Undue(i, which)[ns] =
              IF ns \in which THEN [history[ns] EXCEPT !.due = @ \ {i}]
                              ELSE history[ns]
        BY DEF Undue
    <2> QED
        BY <2>1, <2>2 DEF Histories
<1> QED
    BY <1>1 DEF Undue

\* What a write does to the history, the store and the calls.
LEMMA WrittenType ==
    ASSUME TypeOK, NEW c \in Callers, NEW op \in {"set", "delete"},
           NEW left \in BOOLEAN, Written(c, op, left),
           NEW i \in Instances, i = InstanceOf(c),
           NEW ns \in Namespaces, ns = namespace[i]
    PROVE  /\ TypeOK'
           /\ calls' = [calls EXCEPT ![c] = calls'[c]]
           /\ calls'[c] \in Writes /\ calls'[c].value.ns = ns
           /\ primary'[i][ns] = history'[ns].last
           /\ \A j \in Instances, x \in Namespaces :
                  j # i \/ x # ns => primary'[j][x] = primary[j][x]
           /\ history'[ns].due = {i}
           /\ history'[ns].writers = history[ns].writers \cup {i}
           /\ \A x \in Namespaces \ {ns} : history'[x] = history[x]
           /\ UNCHANGED <<namespace, heard, requests, inbox, bounds>>
<1> DEFINE value == [n |-> spent.writes + 1, ns |-> ns]
           result == IF left THEN value ELSE None
           next == [last |-> result, due |-> {i}, raced |-> Races(i, ns),
                    writers |-> history[ns].writers \cup {i}]
<1>1. spent.writes < bounds.writes /\ spent.writes \in Nat
      /\ spent.writes + 1 \in 1 .. MaxWrites
    BY BoundsType, CacheableSyncAssumption DEF Written, TypeOK
<1>2. value \in Values /\ result \in Values \cup {None}
      /\ [op |-> op, value |-> value] \in Writes
    BY <1>1 DEF Values, Writes
<1>3. Races(i, ns) \in BOOLEAN
    BY DEF Races
<1>4. next \in Histories
    BY <1>2, <1>3 DEF Histories, TypeOK
<1>5. /\ primary' = [primary EXCEPT ![i][ns] = result]
      /\ calls' = [calls EXCEPT ![c] = [op |-> op, value |-> value]]
      /\ history' = [history EXCEPT ![ns] = next]
      /\ spent' = [spent EXCEPT !.writes = @ + 1]
      /\ UNCHANGED <<namespace, bound, heard, requests, inbox, ordered, bounds>>
    BY DEF Written
<1>6. /\ next.due = {i} /\ next.last = result
      /\ next.writers = history[ns].writers \cup {i}
      /\ [op |-> op, value |-> value].value.ns = ns
    OBVIOUS
<1> HIDE DEF value, result, next
<1>7. /\ history' \in [Namespaces -> Histories] /\ history'[ns] = next
      /\ \A x \in Namespaces \ {ns} : history'[x] = history[x]
    BY <1>4, <1>5 DEF TypeOK
<1>8. /\ primary' \in [Instances -> [Namespaces -> Values \cup {None}]]
      /\ primary'[i][ns] = result
      /\ \A j \in Instances, x \in Namespaces :
             j # i \/ x # ns => primary'[j][x] = primary[j][x]
    BY <1>2, <1>5 DEF TypeOK
<1>9. /\ calls' \in [Callers -> Writes \cup {None}]
      /\ calls'[c] = [op |-> op, value |-> value]
      /\ calls' = [calls EXCEPT ![c] = calls'[c]]
    BY <1>2, <1>5 DEF TypeOK
<1>10. spent' \in [writes : 0 .. MaxWrites, changes : Nat, losses : Nat]
    <2>1. spent \in [writes : 0 .. MaxWrites, changes : Nat, losses : Nat]
        BY DEF TypeOK
    <2> QED
        BY <1>1, <1>5, <2>1
<1>11. TypeOK'
    BY <1>5, <1>7, <1>8, <1>9, <1>10 DEF TypeOK
<1>12. calls'[c] \in Writes /\ calls'[c].value.ns = ns
    BY <1>2, <1>6, <1>9
<1>13. /\ primary'[i][ns] = history'[ns].last
       /\ history'[ns].due = {i}
       /\ history'[ns].writers = history[ns].writers \cup {i}
    BY <1>6, <1>7, <1>8
<1>14. UNCHANGED <<namespace, heard, requests, inbox, bounds>>
    BY <1>5
<1>15. \A x \in Namespaces \ {ns} : history'[x] = history[x]
    BY <1>7
<1>16. \A j \in Instances, x \in Namespaces :
           j # i \/ x # ns => primary'[j][x] = primary[j][x]
    BY <1>8
<1> QED
    BY <1>9, <1>11, <1>12, <1>13, <1>14, <1>15, <1>16, Zenon

\* What the publication of a write does; only others than the publisher may
\* come to be due.
LEMMA PublishType ==
    ASSUME TypeOK, NEW c \in Callers, Publish(c),
           NEW i \in Instances, i = InstanceOf(c),
           NEW ns \in Namespaces, ns = namespace[i]
    PROVE  /\ TypeOK'
           /\ calls[c] \in Writes
           /\ calls' = [calls EXCEPT ![c] = None]
           /\ \E m \in Messages :
                  /\ m.from = i /\ m.ns = ns
                  /\ inbox' = [j \in Instances |->
                         IF ns \in heard[j] THEN Append(inbox[j], m) ELSE inbox[j]]
           /\ \A x \in Namespaces \ {ns} : history'[x] = history[x]
           /\ history'[ns].last = history[ns].last
           /\ i \in history'[ns].due <=> i \in history[ns].due
           /\ IF calls[c].value.ns = ns
              THEN history'[ns].writers = history[ns].writers
              ELSE /\ history'[ns].writers = history[ns].writers \cup {i}
                   /\ history'[ns].due = history[ns].due
           /\ UNCHANGED <<namespace, primary, heard, requests, bounds>>
<1> DEFINE w == calls[c]
           m == [op |-> w.op, value |-> w.value, from |-> i, ns |-> ns]
           After(reached) ==
               IF w.value.ns = ns
               THEN [history[ns] EXCEPT !.due = @ \cup reached]
               ELSE [history[ns] EXCEPT !.raced = TRUE, !.writers = @ \cup {i}]
<1>1. w \in Writes /\ history[ns] \in Histories
    BY DEF Publish, TypeOK
<1>2. m \in Messages /\ m.from = i /\ m.ns = ns
    BY <1>1 DEF Messages, Writes
<1>3. /\ inbox' = [j \in Instances |->
                      IF ns \in heard[j] THEN Append(inbox[j], m) ELSE inbox[j]]
      /\ calls' = [calls EXCEPT ![c] = None]
      /\ UNCHANGED <<namespace, primary, bound, heard, requests, ordered, bounds,
                     spent>>
    BY DEF Publish, getPrefixedEvent
<1>4. PICK reached \in SUBSET (Instances \ {i}) :
          history' = [history EXCEPT ![ns] = After(reached)]
    <2> DEFINE Reached == {j \in Instances \ {i} :
                              /\ ns \in heard[j] /\ namespace[j] = ns
                              /\ requests[j] = <<>> /\ bound[j]}
    <2>1. history' = [history EXCEPT ![ns] = After(Reached)]
        BY SMT DEF Publish, getPrefixedEvent
    <2>2. Reached \in SUBSET (Instances \ {i})
        OBVIOUS
    <2> HIDE DEF Reached
    <2> HIDE DEF After
    <2> QED
        BY <2>1, <2>2
<1> DEFINE next == After(reached)
<1>5. /\ next \in Histories /\ next.last = history[ns].last
      /\ i \in next.due <=> i \in history[ns].due
      /\ IF w.value.ns = ns
         THEN next.writers = history[ns].writers
         ELSE /\ next.writers = history[ns].writers \cup {i}
              /\ next.due = history[ns].due
    BY <1>1, <1>4 DEF Histories
<1>6. history' = [history EXCEPT ![ns] = next]
    BY <1>4
<1> HIDE DEF next, m
<1>7. /\ history' \in [Namespaces -> Histories] /\ history'[ns] = next
      /\ \A x \in Namespaces \ {ns} : history'[x] = history[x]
    BY <1>5, <1>6 DEF TypeOK
<1>8. inbox' \in [Instances -> Seq(Messages)]
    BY <1>2, <1>3, AppendProperties DEF TypeOK
<1>9. calls' \in [Callers -> Writes \cup {None}]
    BY <1>3 DEF TypeOK
<1>10. TypeOK'
    BY <1>3, <1>7, <1>8, <1>9 DEF TypeOK
<1> QED
    BY <1>1, <1>2, <1>3, <1>5, <1>7, <1>10

\* What a message that arrives does: it leaves the inbox, and if it is applied
\* it comes from another instance.
LEMMA DeliverType ==
    ASSUME TypeOK, NEW i \in Instances, Deliver(i),
           NEW ns \in Namespaces, ns = namespace[i]
    PROVE  /\ TypeOK'
           /\ \E k \in DOMAIN inbox[i] :
                  LET m == inbox[i][k]
                  IN  /\ m \in Messages
                      /\ inbox' = [inbox EXCEPT ![i] = RemoveAt(@, k)]
                      /\ \/ UNCHANGED <<primary, history>>
                         \/ /\ m.from # i
                            /\ primary' = [primary EXCEPT ![i][ns] = primary'[i][ns]]
                            /\ IF m.ns = ns THEN UNCHANGED history
                               ELSE /\ history'[ns].last = history[ns].last
                                    /\ history'[ns].due = history[ns].due
                                    /\ history'[ns].writers =
                                           history[ns].writers \cup {m.from}
                                    /\ \A x \in Namespaces \ {ns} :
                                           history'[x] = history[x]
           /\ UNCHANGED <<namespace, heard, requests, calls, bounds>>
<1>1. PICK k \in Arriving(i) :
          LET m == inbox[i][k]
          IN  /\ inbox' = [inbox EXCEPT ![i] = RemoveAt(@, k)]
              /\ IF Ignored(i, m) \/ ~bound[i]
                 THEN UNCHANGED <<primary, history>>
                 ELSE /\ primary' = [primary EXCEPT ![i][ns] = Applied(m, @)]
                      /\ history' = IF m.ns = ns THEN history
                                    ELSE [history EXCEPT ![ns].raced = TRUE,
                                             ![ns].writers = @ \cup {m.from}]
              /\ UNCHANGED <<namespace, bound, heard, requests, calls, ordered,
                             bounds, spent>>
    BY DEF Deliver
<1> DEFINE m == inbox[i][k]
<1>2. k \in DOMAIN inbox[i] /\ inbox[i] \in Seq(Messages)
    BY DEF Arriving, TypeOK
<1>3. m \in Messages
    BY <1>2, ElementOfSeq, LenProperties
<1>4. inbox' \in [Instances -> Seq(Messages)]
    <2>1. RemoveAt(inbox[i], k) \in Seq(Messages)
        BY <1>2, RemoveAtType
    <2> QED
        BY <1>1, <2>1 DEF TypeOK
<1>5. UNCHANGED <<namespace, bound, heard, requests, calls, ordered, bounds, spent>>
    BY <1>1
<1>6. CASE Ignored(i, m) \/ ~bound[i]
    <2>1. UNCHANGED <<primary, history>>
        BY <1>1, <1>6
    <2>2. TypeOK'
        BY <1>4, <1>5, <2>1 DEF TypeOK
    <2> QED
        BY <1>1, <1>2, <1>3, <1>5, <2>1, <2>2
<1>7. CASE ~ (Ignored(i, m) \/ ~bound[i])
    <2> DEFINE applied == Applied(m, primary[i][ns])
    <2>1. m.from # i
        BY <1>7 DEF Ignored
    <2>2. applied \in Values \cup {None}
        BY <1>3 DEF Applied, Messages
    <2>3. primary' = [primary EXCEPT ![i][ns] = applied]
        BY <1>1, <1>7
    <2> HIDE DEF applied
    <2>4. /\ primary' \in [Instances -> [Namespaces -> Values \cup {None}]]
          /\ primary' = [primary EXCEPT ![i][ns] = primary'[i][ns]]
        BY <2>2, <2>3 DEF TypeOK
    <2>5. CASE m.ns = ns
        <3>1. history' = history
            BY <1>1, <1>7, <2>5
        <3>2. TypeOK'
            BY <1>4, <1>5, <2>4, <3>1 DEF TypeOK
        <3> QED
            BY <1>1, <1>2, <1>3, <1>5, <2>1, <2>4, <2>5, <3>1, <3>2
    <2>6. CASE m.ns # ns
        <3> DEFINE next == [history[ns] EXCEPT !.raced = TRUE,
                                               !.writers = @ \cup {m.from}]
        <3>1. m.from \in Instances /\ history[ns] \in Histories
            BY <1>3 DEF Messages, TypeOK
        <3>2. history' = [history EXCEPT ![ns].raced = TRUE,
                                         ![ns].writers = @ \cup {m.from}]
            BY <1>1, <1>7, <2>6
        <3> HIDE DEF m
        <3>3. /\ history' \in [Namespaces -> Histories]
              /\ history'[ns].last = history[ns].last
              /\ history'[ns].due = history[ns].due
              /\ history'[ns].writers = history[ns].writers \cup {m.from}
              /\ \A x \in Namespaces \ {ns} : history'[x] = history[x]
            <4>1. history \in [Namespaces -> Histories]
                BY DEF TypeOK
            <4> QED
                BY <3>1, <3>2, <4>1 DEF Histories
        <3>4. TypeOK'
            BY <1>4, <1>5, <2>4, <3>3 DEF TypeOK
        <3> QED
            BY <1>1, <1>2, <1>3, <1>5, <2>1, <2>4, <2>6, <3>3, <3>4 DEF m
    <2> QED
        BY <2>5, <2>6
<1> QED
    BY <1>6, <1>7

LEMMA RequestsType ==
    ASSUME NEW i, NEW n \in Namespaces
    PROVE  /\ subscribe(i, n) \in Seq(Requests)
           /\ unsubscribe(i, n) \in Seq(Requests)
           /\ Len(subscribe(i, n)) = 1 /\ Len(unsubscribe(i, n)) = 1
           /\ subscribe(i, n)[1] = [op |-> "subscribe", ns |-> n]
           /\ unsubscribe(i, n)[1] = [op |-> "unsubscribe", ns |-> n]
<1>1. /\ [op |-> "subscribe", ns |-> n] \in Requests
      /\ [op |-> "unsubscribe", ns |-> n] \in Requests
    BY DEF Requests
<1> QED
    BY <1>1 DEF subscribe, unsubscribe, getPrefixedEvent

LEMMA SpentType ==
    ASSUME TypeOK, Change \/ Loss
    PROVE  spent' \in [writes : 0 .. MaxWrites, changes : Nat, losses : Nat]
<1>1. spent \in [writes : 0 .. MaxWrites, changes : Nat, losses : Nat]
    BY DEF TypeOK
<1> QED
    BY <1>1 DEF Change, Loss

LEMMA TypeInit == Init => TypeOK
<1> SUFFICES ASSUME Init PROVE TypeOK
    OBVIOUS
<1>1. bounds.start \in [Instances -> Namespaces] /\ 0 \in 0 .. MaxWrites
    BY CacheableSyncAssumption DEF Init
<1>2. history \in [Namespaces -> Histories]
    BY DEF Init, Histories
<1>3. /\ inbox \in [Instances -> Seq(Messages)]
      /\ requests \in [Instances -> Seq(Requests)]
    BY EmptySeq DEF Init
<1>4. spent \in [writes : 0 .. MaxWrites, changes : Nat, losses : Nat]
    BY <1>1 DEF Init
<1>5. namespace \in [Instances -> Namespaces]
    BY <1>1 DEF Init
<1>6. /\ primary \in [Instances -> [Namespaces -> Values \cup {None}]]
      /\ bound \in [Instances -> BOOLEAN]
      /\ heard \in [Instances -> SUBSET Namespaces]
    BY <1>5 DEF Init
<1>7. calls \in [Callers -> Writes \cup {None}] /\ ordered \in BOOLEAN
      /\ bounds \in Bounds
    BY DEF Init
<1> QED
    BY <1>2, <1>3, <1>4, <1>5, <1>6, <1>7 DEF TypeOK

\* Changes of settings, losses and restarts.
Interferes(i) ==
    \/ \E ns \in Namespaces : SetNamespace(i, ns)
    \/ SetPrimary(i) \/ SetSync(i)
    \/ Drop(i) \/ LoseMessage(i) \/ Restart(i)

LEMMA InterferenceType ==
    ASSUME TypeOK, NEW i \in Instances, Interferes(i)
    PROVE  TypeOK'
<1>1. \A which : Undue(i, which) \in [Namespaces -> Histories]
    BY UndueType DEF TypeOK
<1>2. ASSUME NEW ns \in Namespaces, SetNamespace(i, ns)
      PROVE  TypeOK'
    <2>1. namespace[i] \in Namespaces /\ requests[i] \in Seq(Requests)
        BY DEF TypeOK
    <2>2. Resubscribe(i, ns) \in Seq(Requests)
        BY <2>1, RequestsType, ConcatProperties DEF Resubscribe
    <2>3. requests[i] \o Resubscribe(i, ns) \in Seq(Requests)
        BY <2>1, <2>2, ConcatProperties
    <2>4. /\ requests' = [requests EXCEPT ![i] = requests[i] \o Resubscribe(i, ns)]
          /\ history' \in [Namespaces -> Histories]
        BY <1>1, <1>2 DEF SetNamespace
    <2>5. requests' \in [Instances -> Seq(Requests)]
        BY <2>3, <2>4 DEF TypeOK
    <2>6. namespace' \in [Instances -> Namespaces]
        BY <1>2 DEF SetNamespace, TypeOK
    <2>7. spent' \in [writes : 0 .. MaxWrites, changes : Nat, losses : Nat]
        BY <1>2, SpentType DEF SetNamespace
    <2> QED
        BY <1>2, <2>4, <2>5, <2>6, <2>7 DEF SetNamespace, TypeOK
<1>3. CASE SetPrimary(i)
    <2>1. spent' \in [writes : 0 .. MaxWrites, changes : Nat, losses : Nat]
        BY <1>3, SpentType DEF SetPrimary
    <2>2. history' \in [Namespaces -> Histories]
        BY <1>1, <1>3 DEF SetPrimary
    <2>3. /\ primary' \in [Instances -> [Namespaces -> Values \cup {None}]]
          /\ bound' \in [Instances -> BOOLEAN]
        BY <1>3 DEF SetPrimary, TypeOK
    <2> QED
        BY <1>3, <2>1, <2>2, <2>3 DEF SetPrimary, TypeOK
<1>4. CASE SetSync(i)
    <2>1. namespace[i] \in Namespaces /\ requests[i] \in Seq(Requests)
        BY DEF TypeOK
    <2>2. requests[i] \o subscribe(i, namespace[i]) \in Seq(Requests)
        BY <2>1, RequestsType, ConcatProperties
    <2>3. requests' = [requests EXCEPT ![i] = requests[i] \o subscribe(i, namespace[i])]
        BY <1>4 DEF SetSync
    <2>4. requests' \in [Instances -> Seq(Requests)]
        BY <2>2, <2>3 DEF TypeOK
    <2>5. spent' \in [writes : 0 .. MaxWrites, changes : Nat, losses : Nat]
        BY <1>4, SpentType DEF SetSync
    <2>6. bound' \in [Instances -> BOOLEAN]
        BY <1>4 DEF SetSync, TypeOK
    <2> QED
        BY <1>4, <2>4, <2>5, <2>6 DEF SetSync, TypeOK
<1>5. CASE Drop(i)
    <2>1. spent' \in [writes : 0 .. MaxWrites, changes : Nat, losses : Nat]
        BY <1>5, SpentType DEF Drop
    <2>2. history' \in [Namespaces -> Histories]
        BY <1>1, <1>5 DEF Drop
    <2>3. primary' \in [Instances -> [Namespaces -> Values \cup {None}]]
        BY <1>5 DEF Drop, TypeOK
    <2> QED
        BY <1>5, <2>1, <2>2, <2>3 DEF Drop, TypeOK
<1>6. CASE LoseMessage(i)
    <2>1. spent' \in [writes : 0 .. MaxWrites, changes : Nat, losses : Nat]
        BY <1>6, SpentType DEF LoseMessage
    <2>2. history' \in [Namespaces -> Histories]
        BY <1>1, <1>6 DEF LoseMessage
    <2>3. Tail(inbox[i]) \in Seq(Messages)
        BY <1>6, HeadTailProperties DEF LoseMessage, TypeOK
    <2>4. inbox' \in [Instances -> Seq(Messages)]
        BY <1>6, <2>3 DEF LoseMessage, TypeOK
    <2> QED
        BY <1>6, <2>1, <2>2, <2>4 DEF LoseMessage, TypeOK
<1>7. CASE Restart(i)
    <2>1. spent' \in [writes : 0 .. MaxWrites, changes : Nat, losses : Nat]
        BY <1>7, SpentType DEF Restart
    <2>2. history' \in [Namespaces -> Histories]
        BY <1>1, <1>7 DEF Restart
    <2>3. subscribe(i, namespace[i]) \in Seq(Requests) /\ <<>> \in Seq(Messages)
        BY RequestsType, EmptySeq DEF TypeOK
    <2>4. /\ requests' \in [Instances -> Seq(Requests)]
          /\ inbox' \in [Instances -> Seq(Messages)]
        BY <1>7, <2>3 DEF Restart, TypeOK
    <2>5. /\ primary' \in [Instances -> [Namespaces -> Values \cup {None}]]
          /\ bound' \in [Instances -> BOOLEAN]
          /\ heard' \in [Instances -> SUBSET Namespaces]
        BY <1>7 DEF Restart, TypeOK
    <2>6. calls' \in [Callers -> Writes \cup {None}]
        BY <1>7 DEF Restart, TypeOK
    <2> QED
        BY <1>7, <2>1, <2>2, <2>4, <2>5, <2>6 DEF Restart, TypeOK
<1> QED
    BY <1>2, <1>3, <1>4, <1>5, <1>6, <1>7 DEF Interferes

LEMMA SubscriptionType ==
    ASSUME TypeOK, NEW i \in Instances, Subscription(i)
    PROVE  TypeOK'
<1>1. requests[i] \in Seq(Requests) /\ requests[i] # <<>>
    BY DEF Subscription, TypeOK
<1>2. Tail(requests[i]) \in Seq(Requests) /\ Head(requests[i]) \in Requests
    BY <1>1, HeadTailProperties
<1>3. requests' \in [Instances -> Seq(Requests)]
    BY <1>2 DEF Subscription, TypeOK
<1>4. heard' \in [Instances -> SUBSET Namespaces]
    <2>1. PICK hears \in SUBSET Namespaces : heard' = [heard EXCEPT ![i] = hears]
        BY <1>2 DEF Subscription, TypeOK, Requests
    <2> QED
        BY <2>1 DEF TypeOK
<1> QED
    BY <1>3, <1>4 DEF Subscription, TypeOK

LEMMA TypeStep == TypeOK /\ [Next]_vars => TypeOK'
<1> SUFFICES ASSUME TypeOK, [Next]_vars PROVE TypeOK'
    OBVIOUS
<1>1. ASSUME NEW c \in Callers, Set(c) \/ Delete(c) \/ Publish(c) \/ Unpublished(c)
      PROVE  TypeOK'
    <2>1. InstanceOf(c) \in Instances /\ namespace[InstanceOf(c)] \in Namespaces
        BY BoundsType DEF TypeOK
    <2>2. CASE Unpublished(c)
        BY <2>2 DEF Unpublished, TypeOK
    <2> QED
        BY <1>1, <2>1, <2>2, WrittenType, PublishType DEF Set, Delete
<1>2. ASSUME NEW i \in Instances, Deliver(i) PROVE TypeOK'
    <2>1. namespace[i] \in Namespaces
        BY DEF TypeOK
    <2> QED
        BY <1>2, <2>1, DeliverType
<1>3. ASSUME NEW i \in Instances, Subscription(i) PROVE TypeOK'
    BY <1>3, SubscriptionType
<1>4. ASSUME NEW i \in Instances, Interferes(i) PROVE TypeOK'
    BY <1>4, InterferenceType
<1>5. CASE UNCHANGED vars
    BY <1>5 DEF vars, TypeOK
<1> QED
    BY <1>1, <1>2, <1>3, <1>4, <1>5 DEF Next, Interferes

\* Every variable keeps its type, for every number of instances, namespaces,
\* calls and writes.
THEOREM Typing == Spec => []TypeOK
BY TypeInit, TypeStep, PTL DEF Spec

-----------------------------------------------------------------------------
(* What an instance hears.                                                  *)

\* The requests the bus has still to carry out lead from the namespace an
\* instance is heard in, if any, step by step to the one it has.
Leads(s, hears, ns) ==
    IF s = <<>> THEN hears = {ns}
    ELSE /\ s[Len(s)] = [op |-> "subscribe", ns |-> ns]
         /\ hears \subseteq {s[1].ns}
         /\ \A k \in 1 .. Len(s) - 1 :
                s[k].op = "subscribe" => s[k + 1].ns = s[k].ns

HeardInv == \A i \in Instances : Leads(requests[i], heard[i], namespace[i])

\* The bus carries out the first of them.
LEMMA LeadsOn ==
    ASSUME NEW s \in Seq(Requests), s # <<>>, NEW hears, NEW ns \in Namespaces,
           Leads(s, hears, ns)
    PROVE  Leads(Tail(s), IF Head(s).op = "subscribe" THEN hears \cup {Head(s).ns}
                                                      ELSE hears \ {Head(s).ns}, ns)
<1> DEFINE t == Tail(s)
           next == IF s[1].op = "subscribe" THEN hears \cup {s[1].ns}
                                            ELSE hears \ {s[1].ns}
<1>1. /\ Head(s) = s[1] /\ t \in Seq(Requests) /\ Len(t) = Len(s) - 1
      /\ Len(s) \in Nat \ {0} /\ Len(t) \in Nat
      /\ \A k \in 1 .. Len(t) : t[k] = s[k + 1]
    BY HeadTailProperties, EmptySeq, LenProperties
<1>2. /\ s[Len(s)] = [op |-> "subscribe", ns |-> ns]
      /\ hears \subseteq {s[1].ns}
      /\ \A k \in 1 .. Len(s) - 1 :
             s[k].op = "subscribe" => s[k + 1].ns = s[k].ns
    BY DEF Leads
<1>3. next = IF s[1].op = "subscribe" THEN {s[1].ns} ELSE {}
    BY <1>2
<1> HIDE DEF t, next
<1>4. CASE Len(s) = 1
    <2>1. t = <<>>
        BY <1>1, <1>4, EmptySeq
    <2>2. s[1].op = "subscribe" /\ s[1].ns = ns
        BY <1>2, <1>4
    <2> QED
        BY <1>1, <1>3, <2>1, <2>2 DEF Leads, t, next
<1>5. CASE Len(s) > 1
    <2>1. t # <<>> /\ 1 \in 1 .. Len(t) /\ Len(t) \in 1 .. Len(t)
        BY <1>1, <1>5, EmptySeq
    <2>2. t[Len(t)] = [op |-> "subscribe", ns |-> ns]
        BY <1>1, <1>2, <2>1
    <2>3. next \subseteq {t[1].ns}
        BY <1>1, <1>2, <1>3, <1>5, <2>1
    <2>4. \A k \in 1 .. Len(t) - 1 : t[k].op = "subscribe" => t[k + 1].ns = t[k].ns
        BY <1>1, <1>2
    <2> QED
        BY <1>1, <2>1, <2>2, <2>3, <2>4 DEF Leads, t, next
<1> QED
    BY <1>1, <1>4, <1>5

\* A request is added: to leave the present namespace, to join it once more, or
\* to join any after leaving.
LEMMA LeadsSubscribe ==
    ASSUME NEW s \in Seq(Requests), NEW hears, NEW ns \in Namespaces,
           Leads(s, hears, ns), NEW i
    PROVE  Leads(s \o subscribe(i, ns), hears, ns)
<1> DEFINE u == subscribe(i, ns)
           t == s \o u
<1>0. u \in Seq(Requests) /\ Len(u) = 1 /\ u[1] = [op |-> "subscribe", ns |-> ns]
    BY RequestsType
<1> HIDE DEF u
<1>1. /\ Len(s) \in Nat /\ Len(t) = Len(s) + 1
      /\ \A k \in 1 .. Len(s) : t[k] = s[k]
      /\ t[Len(t)] = [op |-> "subscribe", ns |-> ns]
    <2>1. Len(s) \in Nat
        BY LenProperties
    <2>2. /\ Len(t) = Len(s) + Len(u)
          /\ \A k \in 1 .. Len(s) + Len(u) :
                 t[k] = IF k <= Len(s) THEN s[k] ELSE u[k - Len(s)]
        BY <1>0, ConcatProperties
    <2> HIDE DEF t
    <2> QED
        BY <1>0, <2>1, <2>2
<1>2. t # <<>>
    BY <1>1, EmptySeq
<1> HIDE DEF t
<1>3. ASSUME s = <<>> PROVE Leads(t, hears, ns)
    <2>1. Len(s) = 0
        BY <1>3, EmptySeq
    <2> QED
        BY <1>1, <1>2, <1>3, <2>1 DEF Leads
<1>4. ASSUME s # <<>> PROVE Leads(t, hears, ns)
    <2>1. Len(s) \in 1 .. Len(s)
        BY <1>1, <1>4, EmptySeq
    <2> QED
        BY <1>1, <1>2, <1>4, <2>1 DEF Leads
<1> QED
    BY <1>3, <1>4 DEF t, u

LEMMA LeadsResubscribe ==
    ASSUME NEW s \in Seq(Requests), NEW hears, NEW old \in Namespaces,
           NEW ns \in Namespaces, Leads(s, hears, old), NEW i
    PROVE  Leads(s \o (unsubscribe(i, old) \o subscribe(i, ns)), hears, ns)
<1> DEFINE u == unsubscribe(i, old) \o subscribe(i, ns)
           t == s \o u
<1>1. /\ u \in Seq(Requests) /\ Len(u) = 2
      /\ u[1] = [op |-> "unsubscribe", ns |-> old]
      /\ u[2] = [op |-> "subscribe", ns |-> ns]
    <2> DEFINE v == unsubscribe(i, old)
               w == subscribe(i, ns)
    <2>1. /\ v \in Seq(Requests) /\ Len(v) = 1
          /\ v[1] = [op |-> "unsubscribe", ns |-> old]
          /\ w \in Seq(Requests) /\ Len(w) = 1
          /\ w[1] = [op |-> "subscribe", ns |-> ns]
        BY RequestsType
    <2> HIDE DEF v, w
    <2>2. /\ v \o w \in Seq(Requests) /\ Len(v \o w) = Len(v) + Len(w)
          /\ \A k \in 1 .. Len(v) + Len(w) :
                 (v \o w)[k] = IF k <= Len(v) THEN v[k] ELSE w[k - Len(v)]
        BY <2>1, ConcatProperties
    <2>3. u = v \o w
        BY DEF v, w
    <2> HIDE DEF u
    <2> QED
        BY <2>1, <2>2, <2>3
<1> HIDE DEF u
<1>2. /\ Len(s) \in Nat /\ Len(t) = Len(s) + 2
      /\ \A k \in 1 .. Len(s) : t[k] = s[k]
      /\ t[Len(s) + 1] = [op |-> "unsubscribe", ns |-> old]
      /\ t[Len(s) + 2] = [op |-> "subscribe", ns |-> ns]
    <2>1. Len(s) \in Nat
        BY LenProperties
    <2>2. /\ Len(t) = Len(s) + Len(u)
          /\ \A k \in 1 .. Len(s) + Len(u) :
                 t[k] = IF k <= Len(s) THEN s[k] ELSE u[k - Len(s)]
        BY <1>1, ConcatProperties
    <2> HIDE DEF t
    <2> QED
        BY <1>1, <2>1, <2>2
<1>3. t # <<>>
    BY <1>2, EmptySeq
<1> HIDE DEF t
<1>4. CASE s = <<>>
    <2>1. Len(s) = 0
        BY <1>4, EmptySeq
    <2>2. Leads(t, hears, ns)
        BY <1>2, <1>3, <1>4, <2>1 DEF Leads
    <2> QED
        BY <2>2 DEF t, u
<1>5. CASE s # <<>>
    <2>1. Len(s) \in 1 .. Len(s)
        BY <1>2, <1>5, EmptySeq
    <2>2. /\ s[Len(s)] = [op |-> "subscribe", ns |-> old]
          /\ hears \subseteq {s[1].ns}
          /\ \A k \in 1 .. Len(s) - 1 :
                 s[k].op = "subscribe" => s[k + 1].ns = s[k].ns
        BY <1>5 DEF Leads
    <2>3. \A k \in 1 .. Len(t) - 1 : t[k].op = "subscribe" => t[k + 1].ns = t[k].ns
        <3> SUFFICES ASSUME NEW k \in 1 .. Len(t) - 1, t[k].op = "subscribe"
                     PROVE  t[k + 1].ns = t[k].ns
            OBVIOUS
        <3>1. CASE k < Len(s)
            BY <1>2, <2>2, <3>1
        <3>2. CASE k = Len(s)
            BY <1>2, <2>1, <2>2, <3>2
        <3>3. CASE k = Len(s) + 1
            BY <1>2, <3>3
        <3> QED
            BY <1>2, <3>1, <3>2, <3>3
    <2>4. Leads(t, hears, ns)
        BY <1>2, <1>3, <2>1, <2>2, <2>3 DEF Leads
    <2> QED
        BY <2>4 DEF t, u
<1> QED
    BY <1>4, <1>5

LEMMA HeardStep == TypeOK /\ HeardInv /\ [Next]_vars => HeardInv'
<1> SUFFICES ASSUME TypeOK, HeardInv, [Next]_vars PROVE HeardInv'
    OBVIOUS
<1>1. CASE UNCHANGED <<namespace, heard, requests>>
    BY <1>1 DEF HeardInv
<1>2. ASSUME NEW i \in Instances,
             /\ namespace' = [namespace EXCEPT ![i] = namespace'[i]]
             /\ heard' = [heard EXCEPT ![i] = heard'[i]]
             /\ requests' = [requests EXCEPT ![i] = requests'[i]],
             Leads(requests'[i], heard'[i], namespace'[i])
      PROVE  HeardInv'
    BY <1>2 DEF HeardInv, TypeOK
<1>3. ASSUME NEW i \in Instances, Subscription(i) PROVE HeardInv'
    <2>1. requests[i] \in Seq(Requests) /\ requests[i] # <<>>
          /\ namespace[i] \in Namespaces /\ heard[i] \in SUBSET Namespaces
        BY <1>3 DEF Subscription, TypeOK
    <2>2. Leads(requests[i], heard[i], namespace[i])
        BY DEF HeardInv
    <2> DEFINE r == Head(requests[i])
               hears == IF r.op = "subscribe" THEN heard[i] \cup {r.ns}
                                              ELSE heard[i] \ {r.ns}
    <2>3. Leads(Tail(requests[i]), hears, namespace[i])
        BY <2>1, <2>2, LeadsOn
    <2>4. /\ heard' = [heard EXCEPT ![i] = hears]
          /\ requests' = [requests EXCEPT ![i] = Tail(requests[i])]
          /\ namespace' = namespace
        BY <1>3 DEF Subscription
    <2> HIDE DEF hears
    <2>5. /\ heard'[i] = hears /\ requests'[i] = Tail(requests[i])
          /\ namespace' = [namespace EXCEPT ![i] = namespace'[i]]
          /\ heard' = [heard EXCEPT ![i] = heard'[i]]
          /\ requests' = [requests EXCEPT ![i] = requests'[i]]
        BY <2>4 DEF TypeOK
    <2> QED
        BY <1>2, <2>3, <2>4, <2>5
<1>4. ASSUME NEW i \in Instances, NEW ns \in Namespaces, SetNamespace(i, ns)
      PROVE  HeardInv'
    <2>1. /\ requests[i] \in Seq(Requests) /\ namespace[i] \in Namespaces
          /\ Leads(requests[i], heard[i], namespace[i])
        BY DEF TypeOK, HeardInv
    <2> DEFINE next == requests[i] \o (unsubscribe(i, namespace[i]) \o subscribe(i, ns))
    <2>2. Leads(next, heard[i], ns)
        BY <2>1, LeadsResubscribe
    <2>3. /\ namespace' = [namespace EXCEPT ![i] = ns]
          /\ requests' = [requests EXCEPT ![i] = next]
          /\ heard' = heard
        BY <1>4 DEF SetNamespace, Resubscribe
    <2> HIDE DEF next
    <2>4. /\ namespace'[i] = ns /\ requests'[i] = next
          /\ namespace' = [namespace EXCEPT ![i] = namespace'[i]]
          /\ heard' = [heard EXCEPT ![i] = heard'[i]]
          /\ requests' = [requests EXCEPT ![i] = requests'[i]]
        BY <2>3 DEF TypeOK
    <2> QED
        BY <1>2, <2>2, <2>3, <2>4
<1>5. ASSUME NEW i \in Instances, SetSync(i) PROVE HeardInv'
    <2>1. /\ requests[i] \in Seq(Requests) /\ namespace[i] \in Namespaces
          /\ Leads(requests[i], heard[i], namespace[i])
        BY DEF TypeOK, HeardInv
    <2> DEFINE next == requests[i] \o subscribe(i, namespace[i])
    <2>2. Leads(next, heard[i], namespace[i])
        BY <2>1, LeadsSubscribe
    <2>3. /\ requests' = [requests EXCEPT ![i] = next]
          /\ heard' = heard /\ namespace' = namespace
        BY <1>5 DEF SetSync
    <2> HIDE DEF next
    <2>4. /\ requests'[i] = next
          /\ namespace' = [namespace EXCEPT ![i] = namespace'[i]]
          /\ heard' = [heard EXCEPT ![i] = heard'[i]]
          /\ requests' = [requests EXCEPT ![i] = requests'[i]]
        BY <2>3 DEF TypeOK
    <2> QED
        BY <1>2, <2>2, <2>3, <2>4
<1>6. ASSUME NEW i \in Instances, Restart(i) PROVE HeardInv'
    <2>1. namespace[i] \in Namespaces
        BY DEF TypeOK
    <2> DEFINE next == subscribe(i, namespace[i])
    <2>2. /\ next \in Seq(Requests) /\ Len(next) = 1
          /\ next[1] = [op |-> "subscribe", ns |-> namespace[i]]
        BY <2>1, RequestsType
    <2>3. /\ requests' = [requests EXCEPT ![i] = next]
          /\ heard' = [heard EXCEPT ![i] = {}] /\ namespace' = namespace
        BY <1>6 DEF Restart
    <2> HIDE DEF next
    <2>4. Leads(next, {}, namespace[i])
        <3>1. next # <<>>
            <4>1. Len(next) = 1
                BY <2>2
            <4> QED
                BY <4>1, EmptySeq
        <3> QED
            BY <2>2, <3>1 DEF Leads
    <2>5. /\ requests'[i] = next /\ heard'[i] = {}
          /\ namespace' = [namespace EXCEPT ![i] = namespace'[i]]
          /\ heard' = [heard EXCEPT ![i] = heard'[i]]
          /\ requests' = [requests EXCEPT ![i] = requests'[i]]
        BY <2>3 DEF TypeOK
    <2> QED
        BY <1>2, <2>3, <2>4, <2>5
<1>7. ASSUME NEW c \in Callers, Set(c) \/ Delete(c) \/ Publish(c) \/ Unpublished(c)
      PROVE  UNCHANGED <<namespace, heard, requests>>
    BY <1>7 DEF Set, Delete, Written, Publish, Unpublished
<1>8. ASSUME NEW i \in Instances,
             Deliver(i) \/ SetPrimary(i) \/ Drop(i) \/ LoseMessage(i)
      PROVE  UNCHANGED <<namespace, heard, requests>>
    BY <1>8 DEF Deliver, SetPrimary, Drop, LoseMessage
<1> QED
    BY <1>1, <1>3, <1>4, <1>5, <1>6, <1>7, <1>8 DEF Next, vars

\* Once the bus has done what it was asked, an instance hears its own namespace
\* and no other, however often its settings were changed or it was restarted.
THEOREM HearsItsOwn == Spec => []HearsOwnNamespace
<1>1. Init => HeardInv
    BY DEF Init, HeardInv, Leads
<1>2. HeardInv => HearsOwnNamespace
    BY DEF HeardInv, Leads, HearsOwnNamespace
<1> QED
    BY <1>1, <1>2, HeardStep, Typing, PTL DEF Spec

-----------------------------------------------------------------------------
(* Writers.                                                                 *)

\* Whoever has a message or a call under way is known to have written.
KnownMessages == {m \in Messages : m.from \in history[m.ns].writers}

WritersKnown ==
    /\ inbox \in [Instances -> Seq(KnownMessages)]
    /\ \A c \in Callers :
           calls[c] # None => InstanceOf(c) \in history[calls[c].value.ns].writers

OwnInv ==
    /\ WritersKnown
    /\ \A ns \in Namespaces : history[ns].writers = {} => history[ns].due = {}
    /\ OwnWritesStand

\* Writers do not become unknown.
LEMMA KnownGrows ==
    ASSUME \A ns \in Namespaces : history[ns].writers \subseteq history'[ns].writers
    PROVE  KnownMessages \subseteq KnownMessages'
BY DEF KnownMessages, Messages

\* Nothing is published, written or applied, and nobody becomes due.
LEMMA OwnQuiet ==
    ASSUME TypeOK, OwnInv, NEW i \in Instances,
           inbox' \in [Instances -> Seq(KnownMessages)],
           \A c \in Callers : calls'[c] \in {None, calls[c]},
           UNCHANGED bounds,
           \A ns \in Namespaces :
               /\ history'[ns].last = history[ns].last
               /\ history'[ns].writers = history[ns].writers
               /\ history'[ns].due \subseteq history[ns].due,
           \A j \in Instances, ns \in Namespaces :
               primary'[j][ns] # primary[j][ns] => j = i /\ i \notin history'[ns].due
    PROVE  OwnInv'
<1>1. inbox' \in [Instances -> Seq(KnownMessages')]
    <2>1. KnownMessages \subseteq KnownMessages'
        BY KnownGrows
    <2>2. \A j \in Instances : inbox'[j] \in Seq(KnownMessages')
        BY <2>1, SeqMonotonic
    <2> QED
        BY <2>2
<1>2. \A c \in Callers :
          calls'[c] # None =>
              InstanceOf(c)' \in history'[calls'[c].value.ns].writers
    <2> SUFFICES ASSUME NEW c \in Callers, calls'[c] # None
                 PROVE  InstanceOf(c)' \in history'[calls'[c].value.ns].writers
        OBVIOUS
    <2>1. calls'[c] = calls[c] /\ calls[c].value.ns \in Namespaces
        BY DEF TypeOK, Writes, Values
    <2>2. InstanceOf(c)' = InstanceOf(c)
        BY DEF InstanceOf
    <2> QED
        BY <2>1, <2>2 DEF OwnInv, WritersKnown
<1>3. (\A ns \in Namespaces : history[ns].writers = {} => history[ns].due = {})'
    BY DEF OwnInv
<1>4. OwnWritesStand'
    BY DEF OwnInv, OwnWritesStand
<1> QED
    BY <1>1, <1>2, <1>3, <1>4 DEF OwnInv, WritersKnown

\* A write makes its instance a writer, and only that one due.
LEMMA OwnWritten ==
    ASSUME TypeOK, OwnInv, NEW c \in Callers, Set(c) \/ Delete(c)
    PROVE  OwnInv'
<1>1. PICK i \in Instances : i = InstanceOf(c)
    BY BoundsType
<1>2. PICK ns \in Namespaces : ns = namespace[i]
    BY DEF TypeOK
<1>3. /\ calls' = [calls EXCEPT ![c] = calls'[c]]
      /\ calls'[c] \in Writes /\ calls'[c].value.ns = ns
      /\ primary'[i][ns] = history'[ns].last
      /\ \A j \in Instances, x \in Namespaces :
             j # i \/ x # ns => primary'[j][x] = primary[j][x]
      /\ history'[ns].due = {i}
      /\ history'[ns].writers = history[ns].writers \cup {i}
      /\ \A x \in Namespaces \ {ns} : history'[x] = history[x]
      /\ UNCHANGED <<namespace, heard, requests, inbox, bounds>>
    <2>1. ASSUME NEW op \in {"set", "delete"}, NEW left \in BOOLEAN,
                 Written(c, op, left)
          PROVE  /\ calls' = [calls EXCEPT ![c] = calls'[c]]
                 /\ calls'[c] \in Writes /\ calls'[c].value.ns = ns
                 /\ primary'[i][ns] = history'[ns].last
                 /\ \A j \in Instances, x \in Namespaces :
                     j # i \/ x # ns => primary'[j][x] = primary[j][x]
                 /\ history'[ns].due = {i}
                 /\ history'[ns].writers = history[ns].writers \cup {i}
                 /\ \A x \in Namespaces \ {ns} : history'[x] = history[x]
                 /\ UNCHANGED <<namespace, heard, requests, inbox, bounds>>
        BY <2>1, <1>1, <1>2, WrittenType
    <2>2. Written(c, "set", TRUE) \/ Written(c, "delete", FALSE)
        BY DEF Set, Delete
    <2>3. "set" \in {"set", "delete"} /\ "delete" \in {"set", "delete"}
          /\ TRUE \in BOOLEAN /\ FALSE \in BOOLEAN
        OBVIOUS
    <2> QED
        BY <2>1, <2>2, <2>3, Zenon
<1>4. inbox' \in [Instances -> Seq(KnownMessages')]
    <2>1. KnownMessages \subseteq KnownMessages'
        BY <1>3, KnownGrows
    <2>2. \A j \in Instances : inbox'[j] \in Seq(KnownMessages')
        BY <1>3, <2>1, SeqMonotonic DEF OwnInv, WritersKnown
    <2> QED
        BY <1>3, <2>2 DEF TypeOK
<1>5. \A d \in Callers :
          calls'[d] # None =>
              InstanceOf(d)' \in history'[calls'[d].value.ns].writers
    <2> SUFFICES ASSUME NEW d \in Callers, calls'[d] # None
                 PROVE  InstanceOf(d)' \in history'[calls'[d].value.ns].writers
        OBVIOUS
    <2>1. InstanceOf(d)' = InstanceOf(d)
        BY <1>3 DEF InstanceOf
    <2>2. CASE d = c
        BY <1>1, <1>3, <2>1, <2>2
    <2>3. CASE d # c
        <3>1. calls'[d] = calls[d] /\ calls[d].value.ns \in Namespaces
            BY <1>3, <2>3 DEF TypeOK, Writes, Values
        <3>2. InstanceOf(d) \in history[calls[d].value.ns].writers
            BY <3>1 DEF OwnInv, WritersKnown
        <3> QED
            BY <1>3, <2>1, <3>1, <3>2
    <2> QED
        BY <2>2, <2>3
<1>6. (\A x \in Namespaces : history[x].writers = {} => history[x].due = {})'
    BY <1>3 DEF OwnInv
<1>7. OwnWritesStand'
    <2> SUFFICES ASSUME NEW j \in Instances, NEW x \in Namespaces,
                        history'[x].writers = {j}, j \in history'[x].due
                 PROVE  primary'[j][x] = history'[x].last
        BY DEF OwnWritesStand
    <2>1. CASE x = ns
        BY <1>3, <2>1
    <2>2. CASE x # ns
        BY <1>3, <2>2 DEF OwnInv, OwnWritesStand
    <2> QED
        BY <2>1, <2>2
<1> QED
    BY <1>4, <1>5, <1>6, <1>7 DEF OwnInv, WritersKnown

\* A publication makes only others due; under another namespace than that of
\* the value the publisher becomes a writer.
LEMMA OwnPublish ==
    ASSUME TypeOK, OwnInv, NEW c \in Callers, Publish(c)
    PROVE  OwnInv'
<1>1. PICK i \in Instances : i = InstanceOf(c)
    BY BoundsType
<1>2. PICK ns \in Namespaces : ns = namespace[i]
    BY DEF TypeOK
<1> DEFINE own == calls[c].value.ns = ns
<1>3. /\ calls[c] \in Writes
      /\ calls' = [calls EXCEPT ![c] = None]
      /\ \A x \in Namespaces \ {ns} : history'[x] = history[x]
      /\ history'[ns].last = history[ns].last
      /\ i \in history'[ns].due <=> i \in history[ns].due
      /\ IF own
         THEN history'[ns].writers = history[ns].writers
         ELSE /\ history'[ns].writers = history[ns].writers \cup {i}
              /\ history'[ns].due = history[ns].due
      /\ UNCHANGED <<namespace, primary, heard, requests, bounds>>
    <2>1. calls[c] \in Writes
        BY <1>1, <1>2, PublishType
    <2>2. calls' = [calls EXCEPT ![c] = None]
        BY <1>1, <1>2, PublishType
    <2>3. \A x \in Namespaces \ {ns} : history'[x] = history[x]
        BY <1>1, <1>2, PublishType
    <2>4. history'[ns].last = history[ns].last
        BY <1>1, <1>2, PublishType
    <2>5. i \in history'[ns].due <=> i \in history[ns].due
        BY <1>1, <1>2, PublishType
    <2>6. calls[c].value.ns = ns => history'[ns].writers = history[ns].writers
        BY <1>1, <1>2, PublishType
    <2>7. calls[c].value.ns # ns => history'[ns].writers = history[ns].writers \cup {i}
        BY <1>1, <1>2, PublishType
    <2>8. calls[c].value.ns # ns => history'[ns].due = history[ns].due
        BY <1>1, <1>2, PublishType
    <2>9. UNCHANGED <<namespace, primary, heard, requests, bounds>>
        BY <1>1, <1>2, PublishType
    <2> QED
        BY <2>1, <2>2, <2>3, <2>4, <2>5, <2>6, <2>7, <2>8, <2>9
<1>4. PICK m \in Messages :
          /\ m.from = i /\ m.ns = ns
          /\ inbox' = [j \in Instances |->
                 IF ns \in heard[j] THEN Append(inbox[j], m) ELSE inbox[j]]
    BY <1>1, <1>2, PublishType
<1>5. calls[c] # None
    BY DEF Publish
<1>6. i \in history'[ns].writers
    <2>1. own => i \in history[ns].writers
        BY <1>1, <1>5 DEF OwnInv, WritersKnown
    <2> QED
        BY <1>3, <2>1
<1>7. inbox' \in [Instances -> Seq(KnownMessages')]
    <2>1. KnownMessages \subseteq KnownMessages'
        BY <1>3, KnownGrows
    <2>2. m \in KnownMessages'
        BY <1>4, <1>6 DEF KnownMessages, Messages
    <2>3. \A j \in Instances : inbox[j] \in Seq(KnownMessages')
        BY <2>1, SeqMonotonic DEF OwnInv, WritersKnown
    <2>4. \A j \in Instances : inbox'[j] \in Seq(KnownMessages')
        BY <1>4, <2>2, <2>3, AppendProperties
    <2> QED
        BY <1>4, <2>4
<1>8. \A d \in Callers :
          calls'[d] # None =>
              InstanceOf(d)' \in history'[calls'[d].value.ns].writers
    <2> SUFFICES ASSUME NEW d \in Callers, calls'[d] # None
                 PROVE  InstanceOf(d)' \in history'[calls'[d].value.ns].writers
        OBVIOUS
    <2>1. InstanceOf(d)' = InstanceOf(d)
        BY <1>3 DEF InstanceOf
    <2>2. calls'[d] = calls[d] /\ calls[d].value.ns \in Namespaces
        BY <1>3 DEF TypeOK, Writes, Values
    <2>3. InstanceOf(d) \in history[calls[d].value.ns].writers
        BY <2>2 DEF OwnInv, WritersKnown
    <2> QED
        BY <1>3, <2>1, <2>2, <2>3
<1>9. (\A x \in Namespaces : history[x].writers = {} => history[x].due = {})'
    BY <1>3, <1>6 DEF OwnInv
<1>10. OwnWritesStand'
    <2> SUFFICES ASSUME NEW j \in Instances, NEW x \in Namespaces,
                        history'[x].writers = {j}, j \in history'[x].due
                 PROVE  primary'[j][x] = history'[x].last
        BY DEF OwnWritesStand
    <2>1. CASE x # ns
        BY <1>3, <2>1 DEF OwnInv, OwnWritesStand
    <2>2. CASE x = ns
        <3>1. j = i /\ i \in history[ns].due
            BY <1>3, <1>6, <2>2
        <3>2. history[ns].writers # {} /\ history[ns].writers \subseteq {i}
            BY <1>3, <2>2, <3>1 DEF OwnInv
        <3>3. history[ns].writers = {i}
            BY <3>2
        <3> QED
            BY <1>3, <2>2, <3>1, <3>3 DEF OwnInv, OwnWritesStand
    <2> QED
        BY <2>1, <2>2
<1> QED
    BY <1>7, <1>8, <1>9, <1>10 DEF OwnInv, WritersKnown

\* What an instance applies comes from another one, who then is a writer of the
\* namespace it is applied to.
LEMMA OwnDeliver ==
    ASSUME TypeOK, OwnInv, NEW i \in Instances, Deliver(i)
    PROVE  OwnInv'
<1>1. PICK ns \in Namespaces : ns = namespace[i]
    BY DEF TypeOK
<1>2. PICK k \in DOMAIN inbox[i] :
          LET m == inbox[i][k]
          IN  /\ m \in Messages
              /\ inbox' = [inbox EXCEPT ![i] = RemoveAt(@, k)]
              /\ \/ UNCHANGED <<primary, history>>
                 \/ /\ m.from # i
                    /\ primary' = [primary EXCEPT ![i][ns] = primary'[i][ns]]
                    /\ IF m.ns = ns THEN UNCHANGED history
                       ELSE /\ history'[ns].last = history[ns].last
                            /\ history'[ns].due = history[ns].due
                            /\ history'[ns].writers =
                                   history[ns].writers \cup {m.from}
                            /\ \A x \in Namespaces \ {ns} :
                                   history'[x] = history[x]
    BY <1>1, DeliverType
<1>3. calls' = calls /\ bounds' = bounds
    BY <1>1, DeliverType
<1> DEFINE m == inbox[i][k]
<1>4. inbox[i] \in Seq(KnownMessages)
    BY DEF OwnInv, WritersKnown
<1>5. m \in KnownMessages
    BY <1>4, ElementOfSeq, LenProperties
<1>6. inbox' \in [Instances -> Seq(KnownMessages)]
    <2>1. RemoveAt(inbox[i], k) \in Seq(KnownMessages)
        BY <1>4, RemoveAtType
    <2> QED
        BY <1>2, <2>1 DEF OwnInv, WritersKnown
<1>7. CASE UNCHANGED <<primary, history>>
    BY <1>3, <1>6, <1>7, OwnQuiet
<1>8. CASE /\ m.from # i
           /\ primary' = [primary EXCEPT ![i][ns] = primary'[i][ns]]
           /\ IF m.ns = ns THEN UNCHANGED history
              ELSE /\ history'[ns].last = history[ns].last
                   /\ history'[ns].due = history[ns].due
                   /\ history'[ns].writers = history[ns].writers \cup {m.from}
                   /\ \A x \in Namespaces \ {ns} : history'[x] = history[x]
    <2> HIDE DEF m
    <2>1. m.from \in history'[ns].writers
        BY <1>5, <1>8 DEF KnownMessages
    <2>2. \A x \in Namespaces :
              /\ history[x].writers \subseteq history'[x].writers
              /\ history'[x].last = history[x].last
              /\ history'[x].due = history[x].due
              /\ x # ns => history'[x] = history[x]
        BY <1>8
    <2>3. \A j \in Instances, x \in Namespaces :
              j # i \/ x # ns => primary'[j][x] = primary[j][x]
        BY <1>8 DEF TypeOK
    <2>4. inbox' \in [Instances -> Seq(KnownMessages')]
        <3>1. KnownMessages \subseteq KnownMessages'
            BY <2>2, KnownGrows
        <3>2. \A j \in Instances : inbox'[j] \in Seq(KnownMessages')
            BY <1>6, <3>1, SeqMonotonic
        <3> QED
            BY <1>6, <3>2
    <2>5. \A d \in Callers :
              calls'[d] # None =>
                  InstanceOf(d)' \in history'[calls'[d].value.ns].writers
        <3> SUFFICES ASSUME NEW d \in Callers, calls'[d] # None
                     PROVE  InstanceOf(d)' \in history'[calls'[d].value.ns].writers
            OBVIOUS
        <3>1. InstanceOf(d)' = InstanceOf(d)
            BY <1>3 DEF InstanceOf
        <3>2. calls'[d] = calls[d] /\ calls[d].value.ns \in Namespaces
            BY <1>3 DEF TypeOK, Writes, Values
        <3> QED
            BY <2>2, <3>1, <3>2 DEF OwnInv, WritersKnown
    <2>6. (\A x \in Namespaces : history[x].writers = {} => history[x].due = {})'
        <3> SUFFICES ASSUME NEW x \in Namespaces, history'[x].writers = {}
                     PROVE  history'[x].due = {}
            OBVIOUS
        <3>1. history[x].writers = {} /\ history'[x].due = history[x].due
            BY <2>2
        <3> QED
            BY <3>1 DEF OwnInv
    <2>7. OwnWritesStand'
        <3> SUFFICES ASSUME NEW j \in Instances, NEW x \in Namespaces,
                            history'[x].writers = {j}, j \in history'[x].due
                     PROVE  primary'[j][x] = history'[x].last
            BY DEF OwnWritesStand
        <3>1. j # i \/ x # ns
            BY <1>8, <2>1
        <3>2. primary'[j][x] = primary[j][x] /\ j \in history[x].due
              /\ history'[x].last = history[x].last
            BY <2>2, <2>3, <3>1
        <3>3. history[x].writers \subseteq {j} /\ history[x].writers # {}
            BY <2>2, <3>2 DEF OwnInv
        <3>4. history[x].writers = {j}
            BY <3>3
        <3> QED
            BY <3>2, <3>4 DEF OwnInv, OwnWritesStand
    <2> QED
        BY <2>4, <2>5, <2>6, <2>7 DEF OwnInv, WritersKnown
<1> QED
    BY <1>2, <1>7, <1>8

\* Whoever may miss a write is not due any more.
LEMMA OwnInterference ==
    ASSUME TypeOK, OwnInv, NEW i \in Instances, Interferes(i)
    PROVE  OwnInv'
<1>1. ASSUME NEW which, history' = Undue(i, which)
      PROVE  \A ns \in Namespaces :
                 /\ history'[ns].last = history[ns].last
                 /\ history'[ns].writers = history[ns].writers
                 /\ history'[ns].due \subseteq history[ns].due
                 /\ ns \in which => i \notin history'[ns].due
    <2>1. history \in [Namespaces -> Histories]
        BY DEF TypeOK
    <2>2. \A ns \in Namespaces :
              /\ Undue(i, which)[ns].last = history[ns].last
              /\ Undue(i, which)[ns].writers = history[ns].writers
              /\ Undue(i, which)[ns].due \subseteq history[ns].due
              /\ ns \in which => i \notin Undue(i, which)[ns].due
        BY <2>1, UndueType
    <2> QED
        BY <1>1, <2>2
<1>2. inbox \in [Instances -> Seq(KnownMessages)]
    BY DEF OwnInv, WritersKnown
<1>3. ASSUME NEW ns \in Namespaces, SetNamespace(i, ns)
      PROVE  OwnInv'
    <2>1. UNCHANGED <<primary, inbox, calls, bounds>>
        BY <1>3 DEF SetNamespace
    <2>2. history' = Undue(i, {m.ns : m \in Range(inbox[i])})
        BY <1>3 DEF SetNamespace
    <2> QED
        BY <1>1, <1>2, <2>1, <2>2, OwnQuiet
<1>4. CASE SetPrimary(i) \/ Restart(i)
    <2>1. history' = Undue(i, Namespaces) /\ bounds' = bounds
          /\ \A c \in Callers : calls'[c] \in {None, calls[c]}
        BY <1>4 DEF SetPrimary, Restart, TypeOK
    <2>2. \A j \in Instances \ {i} : primary'[j] = primary[j]
        BY <1>4 DEF SetPrimary, Restart, TypeOK
    <2>3. inbox' \in [Instances -> Seq(KnownMessages)]
        <3>1. <<>> \in Seq(KnownMessages)
            BY EmptySeq
        <3> QED
            BY <1>2, <1>4, <3>1 DEF SetPrimary, Restart
    <2>4. \A ns \in Namespaces :
              /\ history'[ns].last = history[ns].last
              /\ history'[ns].writers = history[ns].writers
              /\ history'[ns].due \subseteq history[ns].due
              /\ i \notin history'[ns].due
        BY <1>1, <2>1
    <2> QED
        BY <2>1, <2>2, <2>3, <2>4, OwnQuiet
<1>5. CASE SetSync(i)
    <2>1. UNCHANGED <<primary, inbox, calls, bounds, history>>
        BY <1>5 DEF SetSync
    <2> QED
        BY <1>2, <2>1, OwnQuiet
<1>6. CASE Drop(i)
    <2> DEFINE ns == namespace[i]
    <2>1. UNCHANGED <<inbox, calls, bounds>> /\ history' = Undue(i, {ns})
          /\ primary' = [primary EXCEPT ![i][ns] = None]
        BY <1>6 DEF Drop
    <2>2. \A j \in Instances, x \in Namespaces :
              primary'[j][x] # primary[j][x] => j = i /\ x = ns
        BY <2>1 DEF TypeOK
    <2> HIDE DEF ns
    <2>3. \A x \in Namespaces :
              /\ history'[x].last = history[x].last
              /\ history'[x].writers = history[x].writers
              /\ history'[x].due \subseteq history[x].due
              /\ x = ns => i \notin history'[x].due
        BY <1>1, <2>1
    <2> QED
        BY <1>2, <2>1, <2>2, <2>3, OwnQuiet
<1>7. CASE LoseMessage(i)
    <2>1. UNCHANGED <<primary, calls, bounds>>
          /\ history' = Undue(i, {Head(inbox[i]).ns})
          /\ inbox[i] # <<>> /\ inbox' = [inbox EXCEPT ![i] = Tail(@)]
        BY <1>7 DEF LoseMessage
    <2>2. Tail(inbox[i]) \in Seq(KnownMessages)
        BY <1>2, <2>1, HeadTailProperties
    <2>3. inbox' \in [Instances -> Seq(KnownMessages)]
        BY <1>2, <2>1, <2>2
    <2> QED
        BY <1>1, <2>1, <2>3, OwnQuiet
<1> QED
    BY <1>3, <1>4, <1>5, <1>6, <1>7 DEF Interferes

LEMMA OwnStep == TypeOK /\ OwnInv /\ [Next]_vars => OwnInv'
<1> SUFFICES ASSUME TypeOK, OwnInv, [Next]_vars PROVE OwnInv'
    OBVIOUS
<1>1. ASSUME NEW c \in Callers, Set(c) \/ Delete(c) \/ Publish(c)
      PROVE  OwnInv'
    BY <1>1, OwnWritten, OwnPublish
<1>2. inbox \in [Instances -> Seq(KnownMessages)]
    BY DEF OwnInv, WritersKnown
<1>3. ASSUME NEW c \in Callers, Unpublished(c) PROVE OwnInv'
    <2>1. /\ UNCHANGED <<primary, inbox, bounds, history>>
          /\ \A d \in Callers : calls'[d] \in {None, calls[d]}
        BY <1>3 DEF Unpublished, TypeOK
    <2>2. InstanceOf(c) \in Instances
        BY BoundsType
    <2> QED
        BY <1>2, <2>1, <2>2, OwnQuiet
<1>4. ASSUME NEW i \in Instances, Deliver(i) \/ Interferes(i) PROVE OwnInv'
    BY <1>4, OwnDeliver, OwnInterference
<1>5. ASSUME NEW i \in Instances, Subscription(i) PROVE OwnInv'
    <2>1. UNCHANGED <<primary, inbox, calls, bounds, history>>
        BY <1>5 DEF Subscription
    <2> QED
        BY <1>2, <1>5, <2>1, OwnQuiet
<1>6. CASE UNCHANGED vars
    BY <1>6
    DEF vars, OwnInv, WritersKnown, KnownMessages, OwnWritesStand, InstanceOf
<1> QED
    BY <1>1, <1>3, <1>4, <1>5, <1>6 DEF Next, Interferes

\* While one instance alone writes a namespace, its store keeps what it wrote
\* last, whatever messages arrive late, in whichever order, or of another
\* namespace.
THEOREM OnlyWriterStands == Spec => []OwnWritesStand
<1>1. Init => OwnInv
    <2> SUFFICES ASSUME Init PROVE OwnInv
        OBVIOUS
    <2>1. inbox \in [Instances -> Seq(KnownMessages)]
        BY EmptySeq DEF Init
    <2>2. \A ns \in Namespaces : history[ns].writers = {} /\ history[ns].due = {}
        BY DEF Init
    <2>3. \A c \in Callers : calls[c] = None
        BY DEF Init
    <2> QED
        BY <2>1, <2>2, <2>3 DEF OwnInv, WritersKnown, OwnWritesStand
<1>2. OwnInv => OwnWritesStand
    BY DEF OwnInv
<1> QED
    BY <1>1, <1>2, OwnStep, Typing, PTL DEF Spec

-----------------------------------------------------------------------------
(* Messages and namespaces.                                                 *)

Sent == UNION {Range(inbox[j]) : j \in Instances}

\* Every write has a number of its own, which only its message carries on.
WritesNumbered ==
    /\ \A c \in Callers : calls[c] # None =>
           /\ calls[c].value.n <= spent.writes
           /\ \A d \in Callers :
                  calls[d] # None /\ calls[d].value.n = calls[c].value.n => d = c
           /\ \A m \in Sent : m.value.n # calls[c].value.n
    /\ \A m \in Sent :
           /\ m.value.n <= spent.writes
           /\ \A l \in Sent : l.value.n = m.value.n => l = m

LEMMA SentType ==
    ASSUME TypeOK
    PROVE  Sent \subseteq Messages
<1>1. ASSUME NEW j \in Instances PROVE Range(inbox[j]) \subseteq Messages
    <2>1. inbox[j] \in Seq(Messages)
        BY DEF TypeOK
    <2> QED
        BY <2>1, ElementOfSeq, LenProperties DEF Range
<1> QED
    BY <1>1 DEF Sent

\* What is left of a sequence without one of its elements.
LEMMA RemoveAtElements ==
    ASSUME NEW S, NEW s \in Seq(S), NEW k \in DOMAIN s
    PROVE  /\ Len(RemoveAt(s, k)) = Len(s) - 1
           /\ \A l \in 1 .. Len(s) - 1 :
                  RemoveAt(s, k)[l] = s[IF l < k THEN l ELSE l + 1]
           /\ Range(RemoveAt(s, k)) \subseteq Range(s)
<1> DEFINE before == SubSeq(s, 1, k - 1)
           after == SubSeq(s, k + 1, Len(s))
           t == RemoveAt(s, k)
<1>1. k \in 1 .. Len(s) /\ Len(s) \in Nat /\ \A l \in 1 .. Len(s) : s[l] \in S
    BY LenProperties, ElementOfSeq
<1>2. /\ before \in Seq(S) /\ Len(before) = k - 1
      /\ \A l \in 1 .. k - 1 : before[l] = s[l]
    BY <1>1, SubSeqProperties
<1>3. /\ after \in Seq(S) /\ Len(after) = Len(s) - k
      /\ \A l \in 1 .. Len(s) - k : after[l] = s[k + l]
    BY <1>1, SubSeqProperties
<1>4. t = before \o after
    BY DEF RemoveAt
<1> HIDE DEF before, after, t
<1>5. /\ t \in Seq(S) /\ Len(t) = Len(s) - 1
      /\ \A l \in 1 .. Len(t) :
             t[l] = IF l <= k - 1 THEN before[l] ELSE after[l - (k - 1)]
    <2>1. /\ t \in Seq(S) /\ Len(t) = Len(before) + Len(after)
          /\ \A l \in 1 .. Len(before) + Len(after) :
                 t[l] = IF l <= Len(before) THEN before[l]
                                            ELSE after[l - Len(before)]
        BY <1>2, <1>3, <1>4, ConcatProperties
    <2>2. Len(before) + Len(after) = Len(s) - 1
        BY <1>1, <1>2, <1>3
    <2> QED
        BY <1>2, <2>1, <2>2
<1>6. ASSUME NEW l \in 1 .. Len(s) - 1
      PROVE  t[l] = s[IF l < k THEN l ELSE l + 1]
    <2>1. CASE l < k
        BY <1>1, <1>2, <1>5, <2>1
    <2>2. CASE ~(l < k)
        <3> DEFINE j == l - (k - 1)
        <3>1. j \in 1 .. Len(s) - k /\ k + j = l + 1 /\ ~(l <= k - 1)
            BY <1>1, <2>2
        <3>2. t[l] = after[j]
            BY <1>5, <3>1
        <3> HIDE DEF j
        <3>3. after[j] = s[l + 1]
            BY <1>3, <3>1
        <3> QED
            BY <2>2, <3>2, <3>3
    <2> QED
        BY <2>1, <2>2
<1>7. Range(t) \subseteq Range(s)
    <2> SUFFICES ASSUME NEW l \in DOMAIN t PROVE t[l] \in Range(s)
        BY DEF Range
    <2>1. l \in 1 .. Len(s) - 1
        BY <1>5, LenProperties
    <2>2. t[l] = s[IF l < k THEN l ELSE l + 1]
        BY <1>6, <2>1
    <2>3. (IF l < k THEN l ELSE l + 1) \in DOMAIN s
        BY <1>1, <2>1, LenProperties
    <2> QED
        BY <2>2, <2>3 DEF Range
<1> QED
    BY <1>5, <1>6, <1>7 DEF t

\* The tail lacks the first.
LEMMA TailRemoves ==
    ASSUME NEW S, NEW s \in Seq(S), s # <<>>
    PROVE  /\ 1 \in DOMAIN s /\ Head(s) = s[1] /\ Tail(s) = RemoveAt(s, 1)
<1> DEFINE t == Tail(s)
           u == RemoveAt(s, 1)
<1>1. Len(s) \in Nat \ {0} /\ 1 \in DOMAIN s
    BY LenProperties, EmptySeq
<1>2. /\ t \in Seq(S) /\ Len(t) = Len(s) - 1
      /\ \A l \in 1 .. Len(s) - 1 : t[l] = s[l + 1]
    BY <1>1, HeadTailProperties
<1>3. /\ u \in Seq(S) /\ Len(u) = Len(s) - 1
      /\ \A l \in 1 .. Len(s) - 1 : u[l] = s[IF l < 1 THEN l ELSE l + 1]
    BY <1>1, RemoveAtType, RemoveAtElements
<1>4. Head(s) = s[1]
    BY <1>1
<1> HIDE DEF t, u
<1>5. \A l \in 1 .. Len(t) : t[l] = u[l]
    BY <1>1, <1>2, <1>3
<1>6. t = u
    BY <1>2, <1>3, <1>5, SeqEqual
<1> QED
    BY <1>1, <1>4, <1>6 DEF t, u

LEMMA AppendElements ==
    ASSUME NEW S, NEW s \in Seq(S), NEW x \in S
    PROVE  /\ Len(Append(s, x)) = Len(s) + 1
           /\ Append(s, x)[Len(s) + 1] = x
           /\ \A l \in 1 .. Len(s) : Append(s, x)[l] = s[l]
           /\ Range(Append(s, x)) = Range(s) \cup {x}
<1> DEFINE t == Append(s, x)
<1>1. /\ Len(s) \in Nat /\ t \in Seq(S) /\ Len(t) = Len(s) + 1
      /\ t[Len(s) + 1] = x
      /\ \A l \in 1 .. Len(s) : t[l] = s[l]
    BY AppendProperties, LenProperties
<1>2. DOMAIN t = 1 .. Len(s) + 1 /\ DOMAIN s = 1 .. Len(s)
    BY <1>1, LenProperties
<1> HIDE DEF t
<1>3. Range(t) = Range(s) \cup {x}
    BY <1>1, <1>2 DEF Range
<1> QED
    BY <1>1, <1>3 DEF t

\* Messages only leave the inboxes, unless one is published.
LEMMA InboxShrinks ==
    ASSUME TypeOK, NEW i \in Instances,
           Deliver(i) \/ Subscription(i) \/ Interferes(i)
    PROVE  /\ \A j \in Instances : Range(inbox'[j]) \subseteq Range(inbox[j])
           /\ \A c \in Callers : calls'[c] \in {None, calls[c]}
           /\ spent'.writes = spent.writes /\ bounds' = bounds
           /\ ordered' = ordered
<1>1. /\ inbox \in [Instances -> Seq(Messages)]
      /\ calls \in [Callers -> Writes \cup {None}]
      /\ spent \in [writes : 0 .. MaxWrites, changes : Nat, losses : Nat]
    BY DEF TypeOK
<1>2. ASSUME inbox' = inbox
      PROVE  \A j \in Instances : Range(inbox'[j]) \subseteq Range(inbox[j])
    BY <1>2
<1>3. ASSUME NEW k \in DOMAIN inbox[i], inbox' = [inbox EXCEPT ![i] = RemoveAt(@, k)]
      PROVE  \A j \in Instances : Range(inbox'[j]) \subseteq Range(inbox[j])
    <2>1. Range(RemoveAt(inbox[i], k)) \subseteq Range(inbox[i])
        BY <1>1, RemoveAtElements
    <2> QED
        BY <1>1, <1>3, <2>1
<1>4. CASE Deliver(i)
    <2>1. PICK k \in Arriving(i) : inbox' = [inbox EXCEPT ![i] = RemoveAt(@, k)]
        BY <1>4 DEF Deliver
    <2>2. k \in DOMAIN inbox[i]
        BY DEF Arriving
    <2>3. UNCHANGED <<calls, ordered, bounds, spent>>
        BY <1>4 DEF Deliver
    <2> QED
        BY <1>3, <2>1, <2>2, <2>3
<1>5. CASE Subscription(i)
    BY <1>2, <1>5 DEF Subscription
<1>6. ASSUME NEW ns \in Namespaces, SetNamespace(i, ns)
      PROVE  UNCHANGED <<inbox, calls, ordered, bounds>> /\ spent'.writes = spent.writes
    BY <1>1, <1>6 DEF SetNamespace, Change
<1>7. ASSUME SetPrimary(i) \/ SetSync(i)
      PROVE  UNCHANGED <<inbox, calls, ordered, bounds>> /\ spent'.writes = spent.writes
    BY <1>1, <1>7 DEF SetPrimary, SetSync, Change
<1>8. ASSUME Drop(i)
      PROVE  UNCHANGED <<inbox, calls, ordered, bounds>> /\ spent'.writes = spent.writes
    BY <1>1, <1>8 DEF Drop, Loss
<1>9. CASE LoseMessage(i)
    <2>1. /\ inbox[i] # <<>> /\ inbox' = [inbox EXCEPT ![i] = Tail(@)]
          /\ UNCHANGED <<calls, ordered, bounds>> /\ spent'.writes = spent.writes
        BY <1>1, <1>9 DEF LoseMessage, Loss
    <2>2. 1 \in DOMAIN inbox[i] /\ Tail(inbox[i]) = RemoveAt(inbox[i], 1)
        BY <1>1, <2>1, TailRemoves
    <2> QED
        BY <1>3, <2>1, <2>2
<1>10. CASE Restart(i)
    <2>1. /\ inbox' = [inbox EXCEPT ![i] = <<>>]
          /\ calls' = [c \in Callers |-> IF InstanceOf(c) = i THEN None ELSE calls[c]]
          /\ UNCHANGED <<ordered, bounds>> /\ spent'.writes = spent.writes
        BY <1>1, <1>10 DEF Restart, Loss
    <2>2. Range(<<>>) = {}
        BY DEF Range
    <2> QED
        BY <1>1, <2>1, <2>2
<1> QED
    BY <1>2, <1>4, <1>5, <1>6, <1>7, <1>8, <1>9, <1>10 DEF Interferes

\* A publication takes a call and sends its write on.
LEMMA PublishSends ==
    ASSUME TypeOK, NEW c \in Callers, Publish(c)
    PROVE  /\ calls[c] \in Writes /\ calls' = [calls EXCEPT ![c] = None]
           /\ \E m \in Messages :
                  /\ m.op = calls[c].op /\ m.value = calls[c].value
                  /\ m.from = InstanceOf(c) /\ m.ns = namespace[InstanceOf(c)]
                  /\ inbox' = [j \in Instances |->
                         IF m.ns \in heard[j] THEN Append(inbox[j], m) ELSE inbox[j]]
                  /\ \A j \in Instances :
                         Range(inbox'[j]) \subseteq Range(inbox[j]) \cup {m}
           /\ UNCHANGED <<namespace, primary, bound, heard, requests, ordered, bounds,
                          spent>>
<1> DEFINE i == InstanceOf(c)
           w == calls[c]
           ns == namespace[i]
           m == [op |-> w.op, value |-> w.value, from |-> i, ns |-> ns]
<1>1. w \in Writes /\ i \in Instances /\ ns \in Namespaces
    BY BoundsType DEF Publish, TypeOK
<1>2. m \in Messages
    BY <1>1 DEF Messages, Writes
<1>3. /\ inbox' = [j \in Instances |->
                      IF ns \in heard[j] THEN Append(inbox[j], m) ELSE inbox[j]]
      /\ calls' = [calls EXCEPT ![c] = None]
      /\ UNCHANGED <<namespace, primary, bound, heard, requests, ordered, bounds,
                     spent>>
    BY DEF Publish, getPrefixedEvent
<1>4. m.op = w.op /\ m.value = w.value /\ m.from = i /\ m.ns = ns
    OBVIOUS
<1> HIDE DEF m
<1>5. \A j \in Instances : Range(inbox'[j]) \subseteq Range(inbox[j]) \cup {m}
    <2> SUFFICES ASSUME NEW j \in Instances
                 PROVE  Range(inbox'[j]) \subseteq Range(inbox[j]) \cup {m}
        OBVIOUS
    <2>1. inbox[j] \in Seq(Messages)
        BY DEF TypeOK
    <2>2. Range(Append(inbox[j], m)) = Range(inbox[j]) \cup {m}
        BY <1>2, <2>1, AppendElements
    <2> QED
        BY <1>3, <2>2
<1> QED
    BY <1>1, <1>2, <1>3, <1>4, <1>5

\* A write is the first with its number.
LEMMA WrittenNumbers ==
    ASSUME TypeOK, NEW c \in Callers, Set(c) \/ Delete(c)
    PROVE  /\ calls' = [calls EXCEPT ![c] = calls'[c]]
           /\ calls'[c] \in Writes /\ calls'[c].value.n = spent.writes + 1
           /\ spent'.writes = spent.writes + 1
           /\ UNCHANGED <<namespace, bound, heard, requests, inbox, ordered, bounds>>
<1>1. ASSUME NEW op \in {"set", "delete"}, NEW left \in BOOLEAN, Written(c, op, left)
      PROVE  /\ calls' = [calls EXCEPT ![c] = calls'[c]]
             /\ calls'[c] \in Writes /\ calls'[c].value.n = spent.writes + 1
             /\ spent'.writes = spent.writes + 1
             /\ UNCHANGED <<namespace, bound, heard, requests, inbox, ordered, bounds>>
    <2> DEFINE value == [n |-> spent.writes + 1, ns |-> namespace[InstanceOf(c)]]
    <2>1. InstanceOf(c) \in Instances /\ namespace[InstanceOf(c)] \in Namespaces
        BY BoundsType DEF TypeOK
    <2>2. calls' = [calls EXCEPT ![c] = [op |-> op, value |-> value]]
          /\ spent' = [spent EXCEPT !.writes = @ + 1]
          /\ UNCHANGED <<namespace, bound, heard, requests, inbox, ordered, bounds>>
        BY <1>1 DEF Written
    <2>3. calls'[c] \in Writes
        BY <1>1, <2>1, WrittenType
    <2>4. calls'[c] = [op |-> op, value |-> value]
        BY <2>2 DEF TypeOK
    <2>5. calls' = [calls EXCEPT ![c] = calls'[c]]
        BY <2>2, <2>4
    <2>6. spent'.writes = spent.writes + 1
        BY <2>2 DEF TypeOK
    <2>7. calls'[c].value.n = spent.writes + 1
        BY <2>4
    <2> QED
        BY <2>2, <2>3, <2>5, <2>6, <2>7
<1> QED
    BY <1>1 DEF Set, Delete

LEMMA NumberedStep == TypeOK /\ WritesNumbered /\ [Next]_vars => WritesNumbered'
<1> SUFFICES ASSUME TypeOK, WritesNumbered, [Next]_vars PROVE WritesNumbered'
    OBVIOUS
<1>0. /\ spent.writes \in Nat /\ Sent \subseteq Messages
      /\ \A m \in Messages : m.value.n \in Nat
      /\ \A w \in Writes : w.value.n \in Nat
      /\ \A c \in Callers : calls[c] # None => calls[c] \in Writes
    <2>1. \A v \in Values : v.n \in Nat
        BY CacheableSyncAssumption DEF Values
    <2>2. \A m \in Messages : m.value \in Values
        BY DEF Messages
    <2>3. \A w \in Writes : w.value \in Values
        BY DEF Writes
    <2>4. spent.writes \in Nat
        BY CacheableSyncAssumption DEF TypeOK
    <2>5. \A c \in Callers : calls[c] # None => calls[c] \in Writes
        BY DEF TypeOK
    <2> QED
        BY <2>1, <2>2, <2>3, <2>4, <2>5, SentType
<1>1. ASSUME Sent' \subseteq Sent, \A c \in Callers : calls'[c] \in {None, calls[c]},
             spent'.writes = spent.writes
      PROVE  WritesNumbered'
    BY <1>1 DEF WritesNumbered
<1>2. ASSUME NEW c \in Callers, Set(c) \/ Delete(c) PROVE WritesNumbered'
    <2> DEFINE w == calls'[c]
    <2>1. /\ Sent' = Sent /\ w.value.n = spent.writes + 1
          /\ spent'.writes = spent.writes + 1
        BY <1>2, WrittenNumbers DEF Sent
    <2>2. \A d \in Callers : calls'[d] = IF d = c THEN w ELSE calls[d]
        BY <1>2, WrittenNumbers DEF TypeOK
    <2> HIDE DEF w
    <2>3. \A m \in Sent : m.value.n <= spent.writes /\ m.value.n \in Nat
        BY <1>0 DEF WritesNumbered
    <2>4. \A d \in Callers : calls[d] # None =>
              calls[d].value.n <= spent.writes /\ calls[d].value.n \in Nat
        BY <1>0 DEF WritesNumbered
    <2>5. \A d \in Callers \ {c} : calls'[d] = calls[d]
        BY <2>2
    <2>6. ASSUME NEW d \in Callers, calls'[d] # None
          PROVE  /\ calls'[d].value.n <= spent'.writes
                 /\ \A e \in Callers :
                        calls'[e] # None /\ calls'[e].value.n = calls'[d].value.n
                        => e = d
                 /\ \A m \in Sent' : m.value.n # calls'[d].value.n
        <3>1. CASE d = c
            <4>1. calls'[d].value.n = spent.writes + 1
                BY <2>1, <2>2, <3>1
            <4> QED
                BY <1>0, <2>1, <2>3, <2>4, <2>5, <3>1, <4>1
        <3>2. CASE d # c
            <4>1. calls'[d] = calls[d] /\ calls[d].value.n # spent.writes + 1
                  /\ calls[d].value.n <= spent'.writes
                BY <1>0, <2>1, <2>4, <2>5, <2>6, <3>2
            <4>2. calls'[c].value.n = spent.writes + 1
                BY <2>1 DEF w
            <4> QED
                BY <2>1, <2>5, <2>6, <3>2, <4>1, <4>2 DEF WritesNumbered
        <3> QED
            BY <3>1, <3>2
    <2>7. ASSUME NEW m \in Sent'
          PROVE  /\ m.value.n <= spent'.writes
                 /\ \A l \in Sent' : l.value.n = m.value.n => l = m
        BY <1>0, <2>1, <2>3, <2>7 DEF WritesNumbered
    <2> QED
        BY <2>6, <2>7 DEF WritesNumbered
<1>3. ASSUME NEW c \in Callers, Publish(c) PROVE WritesNumbered'
    <2>1. PICK m \in Messages :
              /\ m.value = calls[c].value
              /\ \A j \in Instances :
                     Range(inbox'[j]) \subseteq Range(inbox[j]) \cup {m}
        BY <1>3, PublishSends
    <2>2. /\ calls[c] # None /\ calls' = [calls EXCEPT ![c] = None]
          /\ spent' = spent
        BY <1>3, PublishSends DEF Publish
    <2>3. Sent' \subseteq Sent \cup {m}
        BY <2>1 DEF Sent
    <2>4. \A d \in Callers : calls'[d] # None => d # c /\ calls'[d] = calls[d]
        BY <2>2 DEF TypeOK
    <2>5. \A l \in Sent : l.value.n # m.value.n
        BY <2>1, <2>2 DEF WritesNumbered
    <2>6. \A d \in Callers : calls'[d] # None => calls'[d].value.n # m.value.n
        BY <2>1, <2>2, <2>4 DEF WritesNumbered
    <2>7. m.value.n <= spent.writes
        BY <2>1, <2>2 DEF WritesNumbered
    <2> QED
        BY <2>2, <2>3, <2>4, <2>5, <2>6, <2>7 DEF WritesNumbered
<1>4. ASSUME NEW c \in Callers, Unpublished(c) PROVE WritesNumbered'
    BY <1>1, <1>4 DEF Unpublished, TypeOK, Sent
<1>5. ASSUME NEW i \in Instances, Deliver(i) \/ Subscription(i) \/ Interferes(i)
      PROVE  WritesNumbered'
    <2>1. Sent' \subseteq Sent
        BY <1>5, InboxShrinks DEF Sent
    <2> QED
        BY <1>1, <1>5, <2>1, InboxShrinks
<1>6. CASE UNCHANGED vars
    BY <1>6 DEF vars, WritesNumbered, Sent
<1> QED
    BY <1>2, <1>3, <1>4, <1>5, <1>6 DEF Next, Interferes

\* A message that changes a store is of the store's namespace, unless the bus
\* has something left to do for the instance, or the write and its message
\* met different namespaces of the publishing instance.
THEOREM NamespacesApart == Spec => Isolation
<1>1. Init => WritesNumbered
    BY DEF Init, WritesNumbered, Sent, Range
<1>2. Spec => []WritesNumbered
    BY <1>1, NumberedStep, Typing, PTL DEF Spec
<1> DEFINE Step ==
        \A i \in Instances :
            \A m \in Range(inbox[i]) :
                (/\ inbox'[i] # inbox[i] /\ primary'[i] # primary[i]
                 /\ primary'[i][namespace[i]] = m.value)
                => m.ns = namespace[i] \/ requests[i] # <<>>
<1>3. TypeOK /\ WritesNumbered /\ HearsOwnNamespace /\ [Next]_vars => [Step]_vars
    <2> SUFFICES ASSUME TypeOK, WritesNumbered, HearsOwnNamespace, [Next]_vars,
                        NEW i \in Instances, NEW m \in Range(inbox[i]),
                        inbox'[i] # inbox[i], primary'[i] # primary[i],
                        primary'[i][namespace[i]] = m.value,
                        requests[i] = <<>>
                 PROVE  m.ns = namespace[i]
        OBVIOUS
    <2>1. m \in Sent /\ m \in Messages
        BY SentType DEF Sent
    <2>2. ASSUME NEW j \in Instances, Deliver(j) PROVE m.ns = namespace[i]
        <3>1. PICK k \in Arriving(j) :
                  LET n == inbox[j][k]
                      ns == namespace[j]
                  IN  /\ inbox' = [inbox EXCEPT ![j] = RemoveAt(@, k)]
                      /\ IF Ignored(j, n) \/ ~bound[j]
                         THEN UNCHANGED <<primary, history>>
                         ELSE primary' = [primary EXCEPT ![j][ns] = Applied(n, @)]
            BY <2>2 DEF Deliver
        <3> DEFINE n == inbox[j][k]
        <3>2. j = i
            BY <3>1 DEF TypeOK
        <3>3. k \in DOMAIN inbox[i] /\ n \in Sent
            BY <3>2 DEF Arriving, Sent, Range
        <3>4. /\ n.ns \in heard[i]
              /\ primary' = [primary EXCEPT ![i][namespace[i]] = Applied(n, @)]
            BY <3>1, <3>2 DEF Ignored
        <3> HIDE DEF n
        <3>5. m.value \in Values /\ namespace[i] \in Namespaces
            BY <2>1 DEF Messages, TypeOK
        <3>6. primary'[i][namespace[i]] = Applied(n, primary[i][namespace[i]])
            BY <3>4, <3>5 DEF TypeOK
        <3>7. n.value = m.value
            BY <3>5, <3>6, CacheableSyncAssumption DEF Applied
        <3>8. n = m
            BY <2>1, <3>3, <3>7 DEF WritesNumbered
        <3> QED
            BY <3>4, <3>8 DEF HearsOwnNamespace
    <2>3. ASSUME NEW c \in Callers, Set(c) \/ Delete(c) \/ Publish(c) \/ Unpublished(c)
          PROVE  FALSE
        <3>1. CASE Set(c) \/ Delete(c)
            BY <3>1, WrittenNumbers
        <3>2. CASE Publish(c) \/ Unpublished(c)
            BY <3>2 DEF Publish, Unpublished
        <3> QED
            BY <2>3, <3>1, <3>2
    <2>4. ASSUME NEW j \in Instances, Restart(j) PROVE FALSE
        <3>1. primary' = [primary EXCEPT ![j] = [ns \in Namespaces |-> None]]
              /\ inbox' = [inbox EXCEPT ![j] = <<>>]
            BY <2>4 DEF Restart
        <3>2. i = j /\ primary'[i][namespace[i]] = None
            BY <3>1 DEF TypeOK
        <3> QED
            BY <2>1, <3>2, CacheableSyncAssumption DEF Messages
    <2>5. ASSUME NEW j \in Instances,
                 \/ Subscription(j) \/ SetPrimary(j) \/ SetSync(j)
                 \/ Drop(j) \/ LoseMessage(j)
                 \/ \E ns \in Namespaces : SetNamespace(j, ns)
          PROVE  FALSE
        BY <2>5 DEF Subscription, SetPrimary, SetSync, Drop, LoseMessage, SetNamespace
    <2>6. CASE UNCHANGED vars
        BY <2>6 DEF vars
    <2> QED
        BY <2>2, <2>3, <2>4, <2>5, <2>6 DEF Next
<1> QED
    BY <1>2, <1>3, Typing, HearsItsOwn, PTL DEF Spec, Isolation

-----------------------------------------------------------------------------
(* Agreement.                                                               *)

\* Messages of others in ns on their way to i.
Coming(ns, i) ==
    {k \in DOMAIN inbox[i] : inbox[i][k].ns = ns /\ inbox[i][k].from # i}

\* All that is under way in a namespace is of one instance, its last write is
\* the only one not published, and nobody else can be due before it is.
OneWriter(ns) ==
    /\ \A m, n \in InFlight(ns) : m.from = n.from
    /\ \A c \in Pending(ns) :
          /\ \A d \in Pending(ns) : d = c
          /\ \A m \in InFlight(ns) : m.from = InstanceOf(c) /\ ordered
          /\ history[ns].due \subseteq {InstanceOf(c)}
          /\ Applied(calls[c], None) = history[ns].last

\* An instance that is due holds the last write, or is on its way to it: what
\* comes last is the last write, and it will be applied.
UpToDate(ns, i) ==
    /\ Coming(ns, i) = {} => primary[i][ns] = history[ns].last
    /\ Coming(ns, i) # {} =>
          /\ namespace[i] = ns /\ bound[i] /\ ns \in heard[i]
          /\ \A r \in Range(requests[i]) : r.op = "subscribe"
          /\ ordered \/ \A k, l \in Coming(ns, i) : k = l
          /\ \A k \in Coming(ns, i) :
                (\A l \in Coming(ns, i) : l <= k)
                => Applied(inbox[i][k], None) = history[ns].last

AgreeInv ==
    \A ns \in Namespaces :
        ~history[ns].raced =>
            OneWriter(ns) /\ \A i \in history[ns].due : UpToDate(ns, i)

\* Without one of its messages, what comes keeps its order.
LEMMA ComingRemoved ==
    ASSUME TypeOK, NEW i \in Instances, NEW ns, NEW k \in DOMAIN inbox[i],
           inbox'[i] = RemoveAt(inbox[i], k)
    PROVE  /\ Coming(ns, i)' = {} <=> Coming(ns, i) \ {k} = {}
           /\ (\A x, y \in Coming(ns, i) : x = y) => \A x, y \in Coming(ns, i)' : x = y
           /\ \A l \in Coming(ns, i)' : (\A x \in Coming(ns, i)' : x <= l) =>
                  \E j \in Coming(ns, i) \ {k} :
                      /\ inbox'[i][l] = inbox[i][j]
                      /\ \A x \in Coming(ns, i) \ {k} : x <= j
<1> DEFINE s == inbox[i]
           t == inbox'[i]
           Old(l) == IF l < k THEN l ELSE l + 1
           New(j) == IF j < k THEN j ELSE j - 1
           before == Coming(ns, i)
           after == Coming(ns, i)'
<1>1. s \in Seq(Messages) /\ t \in Seq(Messages)
    BY RemoveAtType DEF TypeOK
<1>2. /\ Len(s) \in Nat /\ DOMAIN s = 1 .. Len(s)
      /\ Len(t) = Len(s) - 1 /\ DOMAIN t = 1 .. Len(s) - 1
      /\ \A l \in 1 .. Len(s) - 1 : t[l] = s[Old(l)]
    BY <1>1, RemoveAtElements, LenProperties
<1>3. /\ before = {j \in 1 .. Len(s) : s[j].ns = ns /\ s[j].from # i}
      /\ after = {l \in 1 .. Len(s) - 1 : t[l].ns = ns /\ t[l].from # i}
    BY <1>2 DEF Coming
<1> HIDE DEF s, t, before, after
<1>4. k \in 1 .. Len(s)
    BY <1>2 DEF s
<1>5. \A l \in after : Old(l) \in before \ {k} /\ t[l] = s[Old(l)]
    BY <1>2, <1>3, <1>4
<1>6. \A j \in before \ {k} : New(j) \in after /\ Old(New(j)) = j
    BY <1>2, <1>3, <1>4
<1>7. \A x, y \in 1 .. Len(s) : x <= y <=> Old(x) <= Old(y)
    BY <1>4
<1>8. after \subseteq 1 .. Len(s) /\ before \subseteq 1 .. Len(s)
    BY <1>2, <1>3
<1>9. after = {} <=> before \ {k} = {}
    BY <1>5, <1>6
<1>10. ASSUME \A x, y \in before : x = y, NEW x \in after, NEW y \in after
       PROVE  x = y
    <2>1. Old(x) = Old(y)
        BY <1>5, <1>10
    <2>2. x \in 1 .. Len(s) /\ y \in 1 .. Len(s)
        BY <1>8
    <2> QED
        BY <1>4, <2>1, <2>2
<1>11. ASSUME NEW l \in after, \A x \in after : x <= l
       PROVE  \E j \in before \ {k} :
                  t[l] = s[j] /\ \A x \in before \ {k} : x <= j
    <2>1. ASSUME NEW x \in before \ {k} PROVE x <= Old(l)
        <3>1. New(x) <= l /\ Old(New(x)) = x /\ New(x) \in 1 .. Len(s)
            BY <1>6, <1>8, <1>11
        <3> HIDE DEF New, Old
        <3> QED
            BY <1>7, <1>8, <3>1
    <2> QED
        BY <1>5, <2>1
<1> QED
    BY <1>9, <1>10, <1>11 DEF s, t, before, after

\* Nothing changes for what comes to i.
LEMMA UpToDateAlike ==
    ASSUME NEW i, NEW ns, UpToDate(ns, i),
           Coming(ns, i)' = Coming(ns, i),
           \A k \in Coming(ns, i) : inbox'[i][k] = inbox[i][k],
           primary'[i][ns] = primary[i][ns], namespace'[i] = namespace[i],
           bound'[i] = bound[i], heard'[i] = heard[i], requests'[i] = requests[i],
           ordered' = ordered, history'[ns].last = history[ns].last
    PROVE  UpToDate(ns, i)'
BY DEF UpToDate, Applied

\* Only i is affected; nothing is written or published, and nobody gets due.
LEMMA AgreeCalm ==
    ASSUME TypeOK, AgreeInv, NEW i \in Instances,
           \A c \in Callers : calls'[c] \in {None, calls[c]},
           bounds' = bounds, ordered' = ordered,
           \A j \in Instances : Range(inbox'[j]) \subseteq Range(inbox[j]),
           \A j \in Instances \ {i} :
               /\ inbox'[j] = inbox[j] /\ primary'[j] = primary[j]
               /\ namespace'[j] = namespace[j] /\ bound'[j] = bound[j]
               /\ heard'[j] = heard[j] /\ requests'[j] = requests[j],
           \A ns \in Namespaces :
               /\ history'[ns].last = history[ns].last
               /\ ~history'[ns].raced => ~history[ns].raced
               /\ history'[ns].due \subseteq history[ns].due,
           \A ns \in Namespaces :
               /\ ~history'[ns].raced /\ i \in history'[ns].due /\ UpToDate(ns, i)
               => UpToDate(ns, i)'
    PROVE  AgreeInv'
<1> SUFFICES ASSUME NEW ns \in Namespaces, ~history'[ns].raced
             PROVE  OneWriter(ns)' /\ \A j \in history'[ns].due : UpToDate(ns, j)'
    BY DEF AgreeInv
<1>1. OneWriter(ns) /\ \A j \in history[ns].due : UpToDate(ns, j)
    BY DEF AgreeInv
<1>2. InFlight(ns)' \subseteq InFlight(ns)
    BY DEF InFlight
<1>3. Pending(ns)' \subseteq Pending(ns)
      /\ \A c \in Pending(ns)' : calls'[c] = calls[c]
    BY DEF Pending
<1>4. \A c \in Callers : InstanceOf(c)' = InstanceOf(c)
    BY DEF InstanceOf
<1>5. OneWriter(ns)'
    <2>1. Pending(ns) \subseteq Callers
        BY DEF Pending
    <2> QED
        BY <1>1, <1>2, <1>3, <1>4, <2>1 DEF OneWriter, Applied
<1>6. ASSUME NEW j \in history'[ns].due PROVE UpToDate(ns, j)'
    <2>1. j \in history[ns].due /\ UpToDate(ns, j) /\ j \in Instances
        BY <1>1, <1>6 DEF TypeOK, Histories
    <2>2. CASE j = i
        BY <1>6, <2>1, <2>2
    <2>3. CASE j # i
        <3>1. Coming(ns, j)' = Coming(ns, j) /\ inbox'[j] = inbox[j]
            BY <2>1, <2>3 DEF Coming
        <3> QED
            BY <2>1, <2>3, <3>1, UpToDateAlike
    <2> QED
        BY <2>2, <2>3
<1> QED
    BY <1>5, <1>6

\* A message that arrives is applied where it counts.
LEMMA AgreeDeliver ==
    ASSUME TypeOK, AgreeInv, NEW i \in Instances, Deliver(i)
    PROVE  AgreeInv'
<1>1. PICK k \in Arriving(i) :
          LET m == inbox[i][k]
              ns == namespace[i]
          IN  /\ inbox' = [inbox EXCEPT ![i] = RemoveAt(@, k)]
              /\ IF Ignored(i, m) \/ ~bound[i]
                 THEN UNCHANGED <<primary, history>>
                 ELSE /\ primary' = [primary EXCEPT ![i][ns] = Applied(m, @)]
                      /\ history' = IF m.ns = ns THEN history
                                    ELSE [history EXCEPT ![ns].raced = TRUE,
                                             ![ns].writers = @ \cup {m.from}]
    BY DEF Deliver
<1>2. UNCHANGED <<namespace, bound, heard, requests, calls, ordered, bounds>>
    BY DEF Deliver
<1> DEFINE m == inbox[i][k]
           home == namespace[i]
<1>3. /\ k \in DOMAIN inbox[i] /\ (ordered => k = 1)
      /\ inbox'[i] = RemoveAt(inbox[i], k)
      /\ \A j \in Instances \ {i} : inbox'[j] = inbox[j]
    BY <1>1 DEF Arriving, TypeOK
<1>4. \A j \in Instances : Range(inbox'[j]) \subseteq Range(inbox[j])
    BY InboxShrinks
<1>5. \A j \in Instances \ {i} : primary'[j] = primary[j]
    BY <1>1 DEF TypeOK
<1>6. \A ns \in Namespaces :
          /\ history'[ns].last = history[ns].last
          /\ history'[ns].due = history[ns].due
          /\ ~history'[ns].raced => ~history[ns].raced
    <2>1. history \in [Namespaces -> Histories] /\ home \in Namespaces
        BY DEF TypeOK
    <2> QED
        BY <1>1, <2>1 DEF Histories
<1>7. CASE Ignored(i, m) \/ ~bound[i]
    <2>1. UNCHANGED <<primary, history>>
        BY <1>1, <1>7
    <2>2. ASSUME NEW ns \in Namespaces, UpToDate(ns, i) PROVE UpToDate(ns, i)'
        <3>1. k \notin Coming(ns, i)
            BY <1>7, <2>2 DEF Coming, UpToDate, Ignored
        <3>2. Coming(ns, i) \ {k} = Coming(ns, i)
            BY <3>1
        <3> HIDE DEF m, home
        <3> QED
            BY <1>2, <1>3, <2>1, <2>2, <3>2, ComingRemoved DEF UpToDate, Applied
    <2> QED
        BY <1>2, <1>3, <1>4, <1>5, <1>6, <2>2, AgreeCalm
<1>8. CASE ~(Ignored(i, m) \/ ~bound[i])
    <2>1. /\ primary' = [primary EXCEPT ![i][home] = Applied(m, @)]
          /\ history' = IF m.ns = home THEN history
                        ELSE [history EXCEPT ![home].raced = TRUE,
                                             ![home].writers = @ \cup {m.from}]
        BY <1>1, <1>8
    <2>2. m.from # i
        BY <1>8 DEF Ignored
    <2>3. /\ home \in Namespaces
          /\ primary'[i][home] = Applied(m, None)
          /\ \A ns \in Namespaces \ {home} : primary'[i][ns] = primary[i][ns]
        BY <2>1 DEF TypeOK, Applied
    <2>4. m.ns # home => history'[home].raced
        <3>1. history \in [Namespaces -> Histories]
            BY DEF TypeOK
        <3> QED
            BY <2>1, <2>3, <3>1 DEF Histories
    <2>5. ASSUME NEW ns \in Namespaces, ~history'[ns].raced, UpToDate(ns, i)
          PROVE  UpToDate(ns, i)'
        <3> DEFINE before == Coming(ns, i)
                   after == Coming(ns, i)'
        <3>1. /\ after = {} <=> before \ {k} = {}
              /\ (\A x, y \in before : x = y) => \A x, y \in after : x = y
              /\ \A l \in after : (\A x \in after : x <= l) =>
                     \E j \in before \ {k} :
                         /\ inbox'[i][l] = inbox[i][j]
                         /\ \A x \in before \ {k} : x <= j
            BY <1>3, ComingRemoved
        <3>2. /\ before = {} => primary[i][ns] = history[ns].last
              /\ before # {} =>
                    /\ namespace[i] = ns /\ bound[i] /\ ns \in heard[i]
                    /\ \A r \in Range(requests[i]) : r.op = "subscribe"
                    /\ ordered \/ \A x, y \in before : x = y
                    /\ \A x \in before :
                          (\A l \in before : l <= x)
                          => Applied(inbox[i][x], None) = history[ns].last
            BY <2>5 DEF UpToDate
        <3>3. k \in before => m.ns = ns /\ m.from # i
            BY DEF Coming
        <3>4. m.ns = ns => k \in before
            BY <1>3, <2>2 DEF Coming
        <3>5. before \subseteq DOMAIN inbox[i]
            BY DEF Coming
        <3>6. \A x \in before : x \in Nat /\ x >= 1
            <4>1. inbox[i] \in Seq(Messages)
                BY DEF TypeOK
            <4> QED
                BY <3>5, <4>1, LenProperties
        <3> HIDE DEF before, after, m, home
        <3>7. CASE k \notin before
            <4>1. before \ {k} = before
                BY <3>7
            <4>2. home # ns
                BY <2>4, <2>5, <3>4, <3>7
            <4>3. primary'[i][ns] = primary[i][ns]
                BY <2>3, <4>2
            <4>4. after = {} => primary'[i][ns] = history'[ns].last
                BY <1>6, <3>1, <3>2, <4>1, <4>3
            <4>5. after # {} =>
                      /\ namespace'[i] = ns /\ bound'[i] /\ ns \in heard'[i]
                      /\ \A r \in Range(requests'[i]) : r.op = "subscribe"
                      /\ ordered' \/ \A x, y \in after : x = y
                BY <1>2, <3>1, <3>2, <4>1
            <4>6. ASSUME NEW l \in after, \A x \in after : x <= l
                  PROVE  Applied(inbox'[i][l], None) = history'[ns].last
                BY <1>6, <3>1, <3>2, <4>1, <4>6
            <4> QED
                BY <4>4, <4>5, <4>6 DEF UpToDate, after, Applied
        <3>8. CASE k \in before
            <4>1. home = ns
                BY <3>2, <3>8 DEF home
            <4>2. primary'[i][ns] = Applied(inbox[i][k], None)
                BY <2>3, <4>1 DEF m
            <4>3. before \ {k} = {} => \A l \in before : l <= k
                BY <3>6
            <4>4. after = {} => primary'[i][ns] = history'[ns].last
                BY <1>6, <3>1, <3>2, <3>8, <4>2, <4>3
            <4>5. after # {} =>
                      /\ namespace'[i] = ns /\ bound'[i] /\ ns \in heard'[i]
                      /\ \A r \in Range(requests'[i]) : r.op = "subscribe"
                      /\ ordered' \/ \A x, y \in after : x = y
                BY <1>2, <3>1, <3>2, <3>8
            <4>6. ASSUME NEW l \in after, \A x \in after : x <= l
                  PROVE  Applied(inbox'[i][l], None) = history'[ns].last
                <5>1. PICK j \in before \ {k} :
                          /\ inbox'[i][l] = inbox[i][j]
                          /\ \A x \in before \ {k} : x <= j
                    BY <3>1, <4>6
                <5>2. ordered /\ k = 1
                    BY <1>3, <3>2, <3>8, <5>1
                <5>3. \A x \in before : x <= j
                    BY <3>6, <5>1, <5>2
                <5> QED
                    BY <1>6, <3>2, <3>8, <5>1, <5>3
            <4> QED
                BY <4>4, <4>5, <4>6 DEF UpToDate, after, Applied
        <3> QED
            BY <3>7, <3>8
    <2> QED
        BY <1>2, <1>3, <1>4, <1>5, <1>6, <2>5, AgreeCalm
<1> QED
    BY <1>7, <1>8

\* The bus carries out a request: an instance that is due waits for topics
\* only, and leaves none.
LEMMA AgreeSubscription ==
    ASSUME TypeOK, AgreeInv, NEW i \in Instances, Subscription(i)
    PROVE  AgreeInv'
<1> DEFINE r == Head(requests[i])
<1>1. /\ requests[i] # <<>>
      /\ heard' = [heard EXCEPT ![i] = IF r.op = "subscribe" THEN @ \cup {r.ns}
                                                             ELSE @ \ {r.ns}]
      /\ requests' = [requests EXCEPT ![i] = Tail(@)]
      /\ UNCHANGED <<namespace, primary, bound, inbox, calls, ordered, bounds, history>>
    BY DEF Subscription
<1>2. requests[i] \in Seq(Requests)
    BY DEF TypeOK
<1>3. /\ r \in Range(requests[i])
      /\ Range(Tail(requests[i])) \subseteq Range(requests[i])
    BY <1>1, <1>2, TailRemoves, RemoveAtElements DEF Range
<1> HIDE DEF r
<1>4. ASSUME NEW ns \in Namespaces, UpToDate(ns, i) PROVE UpToDate(ns, i)'
    <2>1. Coming(ns, i)' = Coming(ns, i) /\ inbox' = inbox
        BY <1>1 DEF Coming
    <2>2. requests'[i] = Tail(requests[i])
          /\ (r.op = "subscribe" => heard[i] \subseteq heard'[i])
        BY <1>1 DEF TypeOK
    <2> QED
        BY <1>1, <1>3, <1>4, <2>1, <2>2 DEF UpToDate, Applied
<1>5. \A j \in Instances \ {i} : heard'[j] = heard[j] /\ requests'[j] = requests[j]
    BY <1>1 DEF TypeOK
<1> QED
    BY <1>1, <1>4, <1>5, AgreeCalm

\* Undue changes who is due, and nothing else of a history.
LEMMA UndueKeeps ==
    ASSUME TypeOK, NEW i \in Instances, NEW which, history' = Undue(i, which)
    PROVE  \A ns \in Namespaces :
               /\ history'[ns].last = history[ns].last
               /\ history'[ns].raced = history[ns].raced
               /\ history'[ns].due \subseteq history[ns].due
               /\ ns \in which => i \notin history'[ns].due
<1>1. history \in [Namespaces -> Histories]
    BY DEF TypeOK
<1> QED
    BY <1>1 DEF Undue, Histories

\* Who may miss a write is not due any more.
LEMMA AgreeInterference ==
    ASSUME TypeOK, AgreeInv, NEW i \in Instances, Interferes(i)
    PROVE  AgreeInv'
<1>1. /\ \A j \in Instances : Range(inbox'[j]) \subseteq Range(inbox[j])
      /\ \A c \in Callers : calls'[c] \in {None, calls[c]}
      /\ bounds' = bounds /\ ordered' = ordered
    BY InboxShrinks
<1>2. inbox[i] \in Seq(Messages) /\ requests[i] \in Seq(Requests)
    BY DEF TypeOK
<1>3. ASSUME NEW home \in Namespaces, SetNamespace(i, home) PROVE AgreeInv'
    <2>1. /\ namespace' = [namespace EXCEPT ![i] = home]
          /\ requests' = [requests EXCEPT ![i] = @ \o Resubscribe(i, home)]
          /\ history' = Undue(i, {m.ns : m \in Range(inbox[i])})
          /\ UNCHANGED <<primary, bound, heard, inbox>>
        BY <1>3 DEF SetNamespace
    <2>2. ASSUME NEW ns \in Namespaces, i \in history'[ns].due, UpToDate(ns, i)
          PROVE  UpToDate(ns, i)'
        <3>1. Coming(ns, i) = {}
            <4>1. ns \notin {m.ns : m \in Range(inbox[i])}
                BY <2>1, <2>2, UndueKeeps
            <4> QED
                BY <4>1 DEF Coming, Range
        <3>2. Coming(ns, i)' = {}
            BY <2>1, <3>1 DEF Coming
        <3> QED
            BY <2>1, <2>2, <3>1, <3>2, UndueKeeps DEF UpToDate
    <2>3. \A j \in Instances \ {i} :
              namespace'[j] = namespace[j] /\ requests'[j] = requests[j]
        BY <2>1 DEF TypeOK
    <2> QED
        BY <1>1, <2>1, <2>2, <2>3, UndueKeeps, AgreeCalm
<1>4. CASE SetPrimary(i) \/ Restart(i)
    <2>1. history' = Undue(i, Namespaces) /\ namespace' = namespace
        BY <1>4 DEF SetPrimary, Restart
    <2>2. \A j \in Instances \ {i} :
              /\ inbox'[j] = inbox[j] /\ primary'[j] = primary[j]
              /\ bound'[j] = bound[j]
              /\ heard'[j] = heard[j] /\ requests'[j] = requests[j]
        BY <1>4 DEF SetPrimary, Restart, TypeOK
    <2>3. \A ns \in Namespaces : i \notin history'[ns].due
        BY <2>1, UndueKeeps
    <2> QED
        BY <1>1, <2>1, <2>2, <2>3, UndueKeeps, AgreeCalm
<1>5. CASE SetSync(i)
    <2> DEFINE more == subscribe(i, namespace[i])
    <2>1. /\ bound' = [bound EXCEPT ![i] = TRUE]
          /\ requests' = [requests EXCEPT ![i] = @ \o more]
          /\ UNCHANGED <<namespace, primary, heard, inbox, history>>
        BY <1>5 DEF SetSync
    <2>2. /\ more \in Seq(Requests) /\ Len(more) = 1 /\ more[1].op = "subscribe"
        <3>1. namespace[i] \in Namespaces
            BY DEF TypeOK
        <3>2. /\ more \in Seq(Requests) /\ Len(more) = 1
              /\ more[1] = [op |-> "subscribe", ns |-> namespace[i]]
            BY <3>1, RequestsType
        <3> QED
            BY <3>2
    <2> HIDE DEF more
    <2>3. \A r \in Range(requests[i] \o more) :
              r \in Range(requests[i]) \/ r.op = "subscribe"
        <3> DEFINE s == requests[i]
                   t == s \o more
        <3>1. /\ Len(s) \in Nat /\ DOMAIN s = 1 .. Len(s)
              /\ t \in Seq(Requests) /\ DOMAIN t = 1 .. Len(s) + 1
              /\ \A l \in 1 .. Len(s) + 1 :
                     t[l] = IF l <= Len(s) THEN s[l] ELSE more[l - Len(s)]
            BY <1>2, <2>2, ConcatProperties, LenProperties
        <3> HIDE DEF s, t
        <3>2. ASSUME NEW l \in 1 .. Len(s) + 1
              PROVE  t[l] \in Range(s) \/ t[l].op = "subscribe"
            <4>1. CASE l <= Len(s)
                BY <3>1, <4>1 DEF Range
            <4>2. CASE l = Len(s) + 1
                BY <2>2, <3>1, <4>2
            <4> QED
                BY <3>1, <4>1, <4>2
        <3> QED
            BY <3>1, <3>2 DEF Range, s, t
    <2>4. requests'[i] = requests[i] \o more /\ bound'[i] = TRUE
          /\ \A j \in Instances \ {i} :
                 bound'[j] = bound[j] /\ requests'[j] = requests[j]
        BY <2>1 DEF TypeOK
    <2>5. ASSUME NEW ns \in Namespaces, UpToDate(ns, i) PROVE UpToDate(ns, i)'
        <3>1. Coming(ns, i)' = Coming(ns, i)
            BY <2>1 DEF Coming
        <3> QED
            BY <1>1, <2>1, <2>3, <2>4, <2>5, <3>1 DEF UpToDate, Applied
    <2> QED
        BY <1>1, <2>1, <2>4, <2>5, AgreeCalm
<1>6. CASE Drop(i)
    <2> DEFINE home == namespace[i]
    <2>1. /\ primary' = [primary EXCEPT ![i][home] = None]
          /\ history' = Undue(i, {home})
          /\ UNCHANGED <<namespace, bound, heard, requests, inbox>>
        BY <1>6 DEF Drop
    <2>2. ASSUME NEW ns \in Namespaces, i \in history'[ns].due, UpToDate(ns, i)
          PROVE  UpToDate(ns, i)'
        <3>1. ns # home
            BY <2>1, <2>2, UndueKeeps
        <3>2. primary'[i][ns] = primary[i][ns]
            BY <2>1, <3>1 DEF TypeOK
        <3>3. Coming(ns, i)' = Coming(ns, i)
            BY <2>1 DEF Coming
        <3> QED
            BY <1>1, <2>1, <2>2, <3>2, <3>3, UndueKeeps, UpToDateAlike
    <2>3. \A j \in Instances \ {i} : primary'[j] = primary[j]
        BY <2>1 DEF TypeOK
    <2> QED
        BY <1>1, <2>1, <2>2, <2>3, UndueKeeps, AgreeCalm
<1>7. CASE LoseMessage(i)
    <2>1. /\ inbox[i] # <<>> /\ inbox' = [inbox EXCEPT ![i] = Tail(@)]
          /\ history' = Undue(i, {Head(inbox[i]).ns})
          /\ UNCHANGED <<namespace, primary, bound, heard, requests>>
        BY <1>7 DEF LoseMessage
    <2>2. /\ 1 \in DOMAIN inbox[i] /\ inbox'[i] = RemoveAt(inbox[i], 1)
          /\ history' = Undue(i, {inbox[i][1].ns})
          /\ \A j \in Instances \ {i} : inbox'[j] = inbox[j]
        <3>1. inbox'[i] = Tail(inbox[i])
              /\ \A j \in Instances \ {i} : inbox'[j] = inbox[j]
            BY <2>1 DEF TypeOK
        <3> QED
            BY <1>2, <2>1, <3>1, TailRemoves
    <2>3. ASSUME NEW ns \in Namespaces, i \in history'[ns].due, UpToDate(ns, i)
          PROVE  UpToDate(ns, i)'
        <3>1. 1 \notin Coming(ns, i)
            BY <2>2, <2>3, UndueKeeps DEF Coming
        <3>2. Coming(ns, i) \ {1} = Coming(ns, i)
            BY <3>1
        <3>3. history'[ns].last = history[ns].last
            BY <2>1, UndueKeeps
        <3>4. /\ Coming(ns, i)' = {} <=> Coming(ns, i) = {}
              /\ (\A x, y \in Coming(ns, i) : x = y) => \A x, y \in Coming(ns, i)' : x = y
              /\ \A l \in Coming(ns, i)' : (\A x \in Coming(ns, i)' : x <= l) =>
                     \E j \in Coming(ns, i) :
                         /\ inbox'[i][l] = inbox[i][j]
                         /\ \A x \in Coming(ns, i) : x <= j
            BY <2>2, <3>2, ComingRemoved
        <3>5. Coming(ns, i)' = {} => primary'[i][ns] = history'[ns].last
            BY <2>1, <2>3, <3>3, <3>4 DEF UpToDate
        <3>6. Coming(ns, i)' # {} =>
                  /\ namespace'[i] = ns /\ bound'[i] /\ ns \in heard'[i]
                  /\ \A r \in Range(requests'[i]) : r.op = "subscribe"
                  /\ ordered' \/ \A x, y \in Coming(ns, i)' : x = y
            BY <1>1, <2>1, <2>3, <3>4 DEF UpToDate
        <3>7. ASSUME NEW l \in Coming(ns, i)', \A x \in Coming(ns, i)' : x <= l
              PROVE  Applied(inbox'[i][l], None) = history'[ns].last
            <4>1. PICK j \in Coming(ns, i) :
                      /\ inbox'[i][l] = inbox[i][j]
                      /\ \A x \in Coming(ns, i) : x <= j
                BY <3>4, <3>7
            <4> QED
                BY <2>3, <3>3, <4>1 DEF UpToDate
        <3> QED
            BY <3>5, <3>6, <3>7 DEF UpToDate, Applied
    <2>4. \A ns \in Namespaces :
              /\ history'[ns].last = history[ns].last
              /\ ~history'[ns].raced => ~history[ns].raced
              /\ history'[ns].due \subseteq history[ns].due
        BY <2>1, UndueKeeps
    <2>5. \A j \in Instances \ {i} : inbox'[j] = inbox[j]
        BY <2>2
    <2> QED
        BY <1>1, <2>1, <2>3, <2>4, <2>5, AgreeCalm
<1> QED
    BY <1>3, <1>4, <1>5, <1>6, <1>7 DEF Interferes

\* What a write leaves, in its store, its call and its history.
LEMMA WrittenStarts ==
    ASSUME TypeOK, NEW c \in Callers, Set(c) \/ Delete(c),
           NEW i \in Instances, i = InstanceOf(c),
           NEW ns \in Namespaces, ns = namespace[i]
    PROVE  /\ calls[c] = None /\ calls' = [calls EXCEPT ![c] = calls'[c]]
           /\ calls'[c] # None /\ calls'[c].value.ns = ns
           /\ Applied(calls'[c], None) = history'[ns].last
           /\ primary'[i][ns] = history'[ns].last
           /\ \A j \in Instances, x \in Namespaces :
                  j # i \/ x # ns => primary'[j][x] = primary[j][x]
           /\ history'[ns].due = {i} /\ history'[ns].raced = Races(i, ns)
           /\ \A x \in Namespaces \ {ns} : history'[x] = history[x]
           /\ UNCHANGED <<namespace, bound, heard, requests, inbox, ordered, bounds>>
<1>1. ASSUME NEW op \in {"set", "delete"}, NEW left \in BOOLEAN, left <=> op = "set",
             Written(c, op, left)
      PROVE  /\ calls[c] = None /\ calls' = [calls EXCEPT ![c] = calls'[c]]
             /\ calls'[c] # None /\ calls'[c].value.ns = ns
             /\ Applied(calls'[c], None) = history'[ns].last
             /\ primary'[i][ns] = history'[ns].last
             /\ \A j \in Instances, x \in Namespaces :
                    j # i \/ x # ns => primary'[j][x] = primary[j][x]
             /\ history'[ns].due = {i} /\ history'[ns].raced = Races(i, ns)
             /\ \A x \in Namespaces \ {ns} : history'[x] = history[x]
             /\ UNCHANGED <<namespace, bound, heard, requests, inbox, ordered, bounds>>
    <2> DEFINE value == [n |-> spent.writes + 1, ns |-> ns]
               result == IF left THEN value ELSE None
               next == [last |-> result, due |-> {i}, raced |-> Races(i, ns),
                        writers |-> history[ns].writers \cup {i}]
    <2>1. /\ calls[c] = None
          /\ calls' = [calls EXCEPT ![c] = [op |-> op, value |-> value]]
          /\ history' = [history EXCEPT ![ns] = next]
          /\ UNCHANGED <<namespace, bound, heard, requests, inbox, ordered, bounds>>
        BY <1>1 DEF Written
    <2>2. /\ calls' = [calls EXCEPT ![c] = calls'[c]]
          /\ calls'[c] \in Writes /\ calls'[c].value.ns = ns
          /\ primary'[i][ns] = history'[ns].last
          /\ \A x \in Namespaces \ {ns} : history'[x] = history[x]
        BY <1>1, WrittenType
    <2>3. \A j \in Instances, x \in Namespaces :
              j # i \/ x # ns => primary'[j][x] = primary[j][x]
        BY <1>1, WrittenType
    <2>4. calls'[c] = [op |-> op, value |-> value]
        BY <2>1 DEF TypeOK
    <2>5. history'[ns] = next
        BY <2>1 DEF TypeOK
    <2>6. calls'[c].op = op /\ calls'[c].value = value
          /\ next.due = {i} /\ next.raced = Races(i, ns) /\ next.last = result
        BY <2>4
    <2> HIDE DEF value, next
    <2>7. Applied(calls'[c], None) = history'[ns].last
        BY <1>1, <2>5, <2>6 DEF Applied
    <2>8. history'[ns].due = {i} /\ history'[ns].raced = Races(i, ns)
        BY <2>5, <2>6
    <2> QED
        BY <2>1, <2>2, <2>3, <2>7, <2>8, CacheableSyncAssumption
<1> QED
    BY <1>1 DEF Set, Delete

\* A write that meets no other starts anew.
LEMMA AgreeWritten ==
    ASSUME TypeOK, AgreeInv, NEW c \in Callers, Set(c) \/ Delete(c)
    PROVE  AgreeInv'
<1>1. PICK i \in Instances : i = InstanceOf(c)
    BY BoundsType
<1>2. PICK home \in Namespaces : home = namespace[i]
    BY DEF TypeOK
<1>3. /\ calls[c] = None /\ calls' = [calls EXCEPT ![c] = calls'[c]]
      /\ calls'[c] # None /\ calls'[c].value.ns = home
      /\ Applied(calls'[c], None) = history'[home].last
      /\ primary'[i][home] = history'[home].last
      /\ history'[home].due = {i} /\ history'[home].raced = Races(i, home)
      /\ \A x \in Namespaces \ {home} : history'[x] = history[x]
      /\ UNCHANGED <<namespace, bound, heard, requests, inbox, ordered, bounds>>
    BY <1>1, <1>2, WrittenStarts
<1>4. \A j \in Instances, x \in Namespaces :
          j # i \/ x # home => primary'[j][x] = primary[j][x]
    BY <1>1, <1>2, WrittenStarts
<1>5. \A d \in Callers \ {c} : calls'[d] = calls[d]
    BY <1>3 DEF TypeOK
<1>6. \A d \in Callers : InstanceOf(d)' = InstanceOf(d)
    BY <1>3 DEF InstanceOf
<1>7. \A ns : InFlight(ns)' = InFlight(ns) /\ \A j : Coming(ns, j)' = Coming(ns, j)
    BY <1>3 DEF InFlight, Coming
<1>8. ASSUME NEW ns \in Namespaces, ns # home, ~history'[ns].raced
      PROVE  OneWriter(ns)' /\ \A j \in history'[ns].due : UpToDate(ns, j)'
    <2>1. history'[ns] = history[ns]
        BY <1>3, <1>8
    <2>2. OneWriter(ns) /\ \A j \in history[ns].due : UpToDate(ns, j)
        BY <1>8, <2>1 DEF AgreeInv
    <2>3. /\ Pending(ns)' = Pending(ns) /\ Pending(ns) \subseteq Callers \ {c}
        BY <1>3, <1>5, <1>8 DEF Pending
    <2>4. OneWriter(ns)'
        BY <1>3, <1>5, <1>6, <1>7, <2>1, <2>2, <2>3 DEF OneWriter, Applied
    <2>5. ASSUME NEW j \in history'[ns].due PROVE UpToDate(ns, j)'
        <3>1. j \in Instances /\ UpToDate(ns, j)
            BY <2>1, <2>2, <2>5 DEF TypeOK, Histories
        <3> QED
            BY <1>3, <1>4, <1>7, <1>8, <2>1, <3>1, UpToDateAlike
    <2> QED
        BY <2>4, <2>5
<1>9. ASSUME ~history'[home].raced
      PROVE  OneWriter(home)' /\ \A j \in history'[home].due : UpToDate(home, j)'
    <2>1. /\ Pending(home) = {}
          /\ \A m \in InFlight(home) : m.from = i /\ ordered
        BY <1>3, <1>9 DEF Races
    <2>2. Pending(home)' = {c}
        BY <1>3, <1>5, <2>1 DEF Pending
    <2>3. OneWriter(home)'
        BY <1>1, <1>3, <1>6, <1>7, <2>1, <2>2 DEF OneWriter
    <2>4. Coming(home, i) = {}
        BY <2>1 DEF Coming, InFlight, Range
    <2>5. UpToDate(home, i)'
        BY <1>3, <1>7, <2>4 DEF UpToDate
    <2> QED
        BY <1>3, <2>3, <2>5
<1> QED
    BY <1>8, <1>9 DEF AgreeInv

\* A publication puts the last write last before everyone who gets due.
LEMMA AgreePublish ==
    ASSUME TypeOK, AgreeInv, NEW c \in Callers, Publish(c)
    PROVE  AgreeInv'
<1>1. PICK i \in Instances : i = InstanceOf(c)
    BY BoundsType
<1>2. PICK home \in Namespaces : home = namespace[i]
    BY DEF TypeOK
<1>3. PICK m \in Messages :
          /\ m.op = calls[c].op /\ m.value = calls[c].value
          /\ m.from = i /\ m.ns = home
          /\ inbox' = [j \in Instances |->
                 IF home \in heard[j] THEN Append(inbox[j], m) ELSE inbox[j]]
          /\ \A j \in Instances :
                 Range(inbox'[j]) \subseteq Range(inbox[j]) \cup {m}
    <2>1. PICK m \in Messages :
              /\ m.op = calls[c].op /\ m.value = calls[c].value
              /\ m.from = InstanceOf(c) /\ m.ns = namespace[InstanceOf(c)]
              /\ inbox' = [j \in Instances |->
                     IF m.ns \in heard[j] THEN Append(inbox[j], m) ELSE inbox[j]]
              /\ \A j \in Instances :
                     Range(inbox'[j]) \subseteq Range(inbox[j]) \cup {m}
        BY PublishSends
    <2>2. m.from = i /\ m.ns = home
        BY <1>1, <1>2, <2>1
    <2> QED
        BY <2>1, <2>2
<1>4. /\ calls[c] # None /\ calls' = [calls EXCEPT ![c] = None]
      /\ UNCHANGED <<namespace, primary, bound, heard, requests, ordered, bounds>>
    BY PublishSends DEF Publish
<1>5. \A d \in Callers :
          /\ InstanceOf(d)' = InstanceOf(d)
          /\ calls'[d] # None => d # c /\ calls'[d] = calls[d]
    BY <1>4 DEF InstanceOf, TypeOK
<1> DEFINE own == calls[c].value.ns = home
           reached == {j \in Instances \ {i} :
                          /\ home \in heard[j] /\ namespace[j] = home
                          /\ requests[j] = <<>> /\ bound[j]}
<1>6. /\ \A x \in Namespaces \ {home} : history'[x] = history[x]
      /\ ~own => history'[home].raced
      /\ own => /\ history'[home].last = history[home].last
                /\ history'[home].raced = history[home].raced
                /\ history'[home].due = history[home].due \cup reached
    <2> DEFINE next == IF own THEN [history[home] EXCEPT !.due = @ \cup reached]
                       ELSE [history[home] EXCEPT !.raced = TRUE, !.writers = @ \cup {i}]
    <2>1. history' = [history EXCEPT ![home] = next]
        BY <1>1, <1>2, SMT DEF Publish, getPrefixedEvent
    <2>2. history[home] \in Histories /\ history \in [Namespaces -> Histories]
        BY DEF TypeOK
    <2> HIDE DEF reached
    <2>3. /\ ~own => next.raced
          /\ own => /\ next.last = history[home].last
                    /\ next.raced = history[home].raced
                    /\ next.due = history[home].due \cup reached
        BY <2>2 DEF Histories
    <2> HIDE DEF next
    <2> QED
        BY <2>1, <2>2, <2>3
<1>7. ASSUME NEW j \in Instances
      PROVE  /\ inbox[j] \in Seq(Messages)
             /\ inbox'[j] = IF home \in heard[j] THEN Append(inbox[j], m) ELSE inbox[j]
             /\ Len(Append(inbox[j], m)) = Len(inbox[j]) + 1
             /\ Append(inbox[j], m)[Len(inbox[j]) + 1] = m
             /\ \A l \in 1 .. Len(inbox[j]) : Append(inbox[j], m)[l] = inbox[j][l]
             /\ Len(inbox[j]) \in Nat
             /\ DOMAIN inbox[j] = 1 .. Len(inbox[j])
             /\ DOMAIN Append(inbox[j], m) = 1 .. Len(inbox[j]) + 1
    <2>1. inbox[j] \in Seq(Messages)
        BY DEF TypeOK
    <2>2. Append(inbox[j], m) \in Seq(Messages)
        BY <2>1, AppendProperties
    <2> QED
        BY <1>3, <2>1, <2>2, AppendElements, LenProperties
<1>8. ASSUME NEW j \in Instances, NEW ns \in Namespaces, ns # home \/ j = i
      PROVE  /\ Coming(ns, j)' = Coming(ns, j)
             /\ \A k \in Coming(ns, j) : inbox'[j][k] = inbox[j][k]
    BY <1>3, <1>7, <1>8 DEF Coming
<1>9. ASSUME NEW ns \in Namespaces, NEW j \in Instances, UpToDate(ns, j),
             ns # home \/ j = i,
             history'[ns].last = history[ns].last
      PROVE  UpToDate(ns, j)'
    BY <1>4, <1>8, <1>9, UpToDateAlike
<1>10. ASSUME NEW ns \in Namespaces, ns # home, ~history'[ns].raced
       PROVE  OneWriter(ns)' /\ \A j \in history'[ns].due : UpToDate(ns, j)'
    <2>1. history'[ns] = history[ns]
        BY <1>6, <1>10
    <2>2. OneWriter(ns) /\ \A j \in history[ns].due : UpToDate(ns, j)
        BY <1>10, <2>1 DEF AgreeInv
    <2>3. InFlight(ns)' \subseteq InFlight(ns) /\ Pending(ns)' \subseteq Pending(ns)
          /\ Pending(ns) \subseteq Callers
          /\ \A d \in Pending(ns)' : calls'[d] = calls[d]
        BY <1>3, <1>5, <1>10 DEF InFlight, Pending
    <2>4. OneWriter(ns)'
        BY <1>4, <1>5, <2>1, <2>2, <2>3 DEF OneWriter, Applied
    <2>5. ASSUME NEW j \in history'[ns].due PROVE UpToDate(ns, j)'
        <3>1. j \in Instances /\ UpToDate(ns, j)
            BY <2>1, <2>2, <2>5 DEF TypeOK, Histories
        <3> QED
            BY <1>9, <1>10, <2>1, <3>1
    <2> QED
        BY <2>4, <2>5
<1>11. ASSUME ~history'[home].raced
       PROVE  OneWriter(home)' /\ \A j \in history'[home].due : UpToDate(home, j)'
    <2>1. /\ own /\ ~history[home].raced
          /\ history'[home].last = history[home].last
          /\ history'[home].due = history[home].due \cup reached
        BY <1>6, <1>11
    <2>2. OneWriter(home) /\ \A j \in history[home].due : UpToDate(home, j)
        BY <2>1 DEF AgreeInv
    <2>3. c \in Pending(home)
        BY <1>4, <2>1 DEF Pending
    <2>4. /\ \A d \in Pending(home) : d = c
          /\ \A n \in InFlight(home) : n.from = i /\ ordered
          /\ history[home].due \subseteq {i}
          /\ Applied(m, None) = history[home].last
        <3>1. /\ \A d \in Pending(home) : d = c
              /\ \A n \in InFlight(home) : n.from = InstanceOf(c) /\ ordered
              /\ history[home].due \subseteq {InstanceOf(c)}
              /\ Applied(calls[c], None) = history[home].last
            BY <2>2, <2>3 DEF OneWriter
        <3>2. Applied(m, None) = Applied(calls[c], None)
            BY <1>3 DEF Applied
        <3> QED
            BY <1>1, <3>1, <3>2
    <2>5. Pending(home)' = {} /\ InFlight(home)' \subseteq InFlight(home) \cup {m}
        <3>1. ASSUME NEW d \in Pending(home)' PROVE FALSE
            <4>1. d \in Callers /\ calls'[d] # None /\ calls'[d].value.ns = home
                BY <3>1 DEF Pending
            <4>2. d # c /\ d \in Pending(home)
                BY <1>5, <4>1 DEF Pending
            <4> QED
                BY <2>4, <4>2
        <3>2. InFlight(home)' \subseteq InFlight(home) \cup {m}
            BY <1>3 DEF InFlight
        <3> QED
            BY <3>1, <3>2
    <2>6. OneWriter(home)'
        BY <1>3, <2>4, <2>5 DEF OneWriter
    <2>7. ASSUME NEW j \in reached PROVE UpToDate(home, j)'
        <3>1. /\ j \in Instances /\ j # i /\ home \in heard[j] /\ namespace[j] = home
              /\ requests[j] = <<>> /\ bound[j]
            OBVIOUS
        <3> DEFINE last == Len(inbox[j]) + 1
        <3>2. Coming(home, j)' = Coming(home, j) \cup {last} /\ inbox'[j][last] = m
            BY <1>3, <1>7, <3>1 DEF Coming
        <3>3. \A k \in Coming(home, j) : k \in Nat /\ k < last
            BY <1>7, <3>1 DEF Coming
        <3>4. last \in Nat
            BY <1>7, <3>1
        <3>5. ordered \/ Coming(home, j) = {}
            BY <2>4, <3>1 DEF Coming, InFlight, Range
        <3> HIDE DEF last
        <3>6. \A k \in Coming(home, j)' :
                  (\A l \in Coming(home, j)' : l <= k) => k = last
            BY <3>2, <3>3, <3>4
        <3>7. Range(requests'[j]) = {}
            BY <1>4, <3>1 DEF Range
        <3>8. ordered' \/ \A k, l \in Coming(home, j)' : k = l
            BY <1>4, <3>2, <3>5
        <3>9. Coming(home, j)' # {}
            BY <3>2
        <3>10. Applied(inbox'[j][last], None) = history'[home].last
            BY <2>1, <2>4, <3>2
        <3> QED
            BY <1>4, <3>1, <3>6, <3>7, <3>8, <3>9, <3>10 DEF UpToDate, Applied
    <2>8. ASSUME NEW j \in history[home].due PROVE UpToDate(home, j)'
        BY <1>9, <2>1, <2>2, <2>4, <2>8
    <2> QED
        BY <2>1, <2>6, <2>7, <2>8
<1> QED
    BY <1>10, <1>11 DEF AgreeInv

LEMMA AgreeStep == TypeOK /\ AgreeInv /\ [Next]_vars => AgreeInv'
<1> SUFFICES ASSUME TypeOK, AgreeInv, [Next]_vars PROVE AgreeInv'
    OBVIOUS
<1>1. ASSUME NEW c \in Callers, Unpublished(c) PROVE AgreeInv'
    <2>1. PICK i \in Instances : i = InstanceOf(c)
        BY BoundsType
    <2>2. /\ UNCHANGED <<namespace, primary, bound, heard, requests, inbox, ordered,
                         bounds, history>>
          /\ \A d \in Callers : calls'[d] \in {None, calls[d]}
        BY <1>1 DEF Unpublished, TypeOK
    <2>3. \A ns \in Namespaces : UpToDate(ns, i) => UpToDate(ns, i)'
        BY <2>2 DEF UpToDate, Coming, Applied
    <2> QED
        BY <2>2, <2>3, AgreeCalm
<1>2. CASE UNCHANGED vars
    BY <1>2 DEF vars, AgreeInv, OneWriter, UpToDate, Coming, InFlight, Pending, Applied,
                InstanceOf
<1> QED
    BY <1>1, <1>2, AgreeWritten, AgreePublish, AgreeDeliver, AgreeSubscription,
       AgreeInterference DEF Next, Interferes

\* When a namespace's messages have arrived, every instance its last write was
\* published to holds it, unless that write raced with another: for any number
\* of instances and writes, and whatever the bus delays, reorders or loses.
THEOREM DueAgree == Spec => []Agreement
<1>1. Init => AgreeInv
    <2> SUFFICES ASSUME Init PROVE AgreeInv
        OBVIOUS
    <2>1. \A ns \in Namespaces : history[ns].due = {} /\ ~history[ns].raced
        BY DEF Init
    <2>2. \A ns : Pending(ns) = {} /\ InFlight(ns) = {}
        BY DEF Init, Pending, InFlight, Range
    <2> QED
        BY <2>1, <2>2 DEF AgreeInv, OneWriter
<1>2. TypeOK /\ AgreeInv => Agreement
    <2> SUFFICES ASSUME TypeOK, AgreeInv, NEW ns \in Namespaces,
                        InFlight(ns) = {}, ~history[ns].raced,
                        NEW i \in history[ns].due
                 PROVE  primary[i][ns] = history[ns].last
        BY DEF Agreement
    <2>1. i \in Instances /\ UpToDate(ns, i)
        BY DEF AgreeInv, TypeOK, Histories
    <2>2. Coming(ns, i) = {}
        BY <2>1 DEF Coming, InFlight, Range
    <2> QED
        BY <2>1, <2>2 DEF UpToDate
<1> QED
    BY <1>1, <1>2, AgreeStep, Typing, PTL DEF Spec
=============================================================================
