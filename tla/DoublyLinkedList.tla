-------------------------- MODULE DoublyLinkedList --------------------------
(***************************************************************************)
(* The list in which CacheableMemory keeps its keys, most recently used     *)
(* first: nodes with pointers both ways, and a map from a value to its      *)
(* node.  The list does not look whether it holds a value already: adding   *)
(* it again leaves the older node in the chain, without an entry in the     *)
(* map.  A node that has been taken out is forgotten (the program's is      *)
(* collected), so that a pointer left to it shows.                          *)
(***************************************************************************)
EXTENDS Naturals, Sequences, FiniteSets, SequencesExt

CONSTANTS
    Values,
    MaxCopies,  \* bound on the nodes of a list with the same value
    undefined   \* no node, no value

\* Nodes are told apart by the value they are made for and a number.
Nodes == Values \X (1..MaxCopies)

Lists ==
    [head : Nodes \cup {undefined},
     tail : Nodes \cup {undefined},
     next : [Nodes -> Nodes \cup {undefined}],
     prev : [Nodes -> Nodes \cup {undefined}],
     value : [Nodes -> Values \cup {undefined}],
     nodesMap : [Values -> Nodes \cup {undefined}]]

EmptyList ==
    [head |-> undefined, tail |-> undefined,
     next |-> [n \in Nodes |-> undefined], prev |-> [n \in Nodes |-> undefined],
     value |-> [n \in Nodes |-> undefined],
     nodesMap |-> [v \in Values |-> undefined]]

InUse(l) == {n \in Nodes : l.value[n] # undefined}

\* A bound of the model: there is a node left for v.
HasRoom(l, v) == \E i \in 1..MaxCopies : <<v, i>> \notin InUse(l)

Or(node, other) == IF node = undefined THEN other ELSE node

\* Assigns b to the pointer of node a, if there is a node a.
Link(pointer, a, b) ==
    IF a = undefined THEN pointer ELSE [pointer EXCEPT ![a] = b]

Forget(l, n) ==
    [l EXCEPT !.next[n] = undefined, !.prev[n] = undefined, !.value[n] = undefined]

addToFront(l, v) ==
    LET newNode == CHOOSE n \in {v} \X (1..MaxCopies) : n \notin InUse(l)
    IN  [l EXCEPT !.head = newNode,
                  !.tail = IF l.head = undefined THEN newNode ELSE @,
                  !.next[newNode] = l.head,
                  !.prev = Link(@, l.head, newNode),
                  !.value[newNode] = v,
                  !.nodesMap[v] = newNode]

\* Mutant: a value at the end of the list stays there.
moveToFront_NotTail(l, v) ==
    LET node == l.nodesMap[v]
        before == l.prev[node]
        after == l.next[node]
    IN  IF node \in {undefined, l.head, l.tail} THEN l
        ELSE [l EXCEPT !.head = node,
                       !.next = [Link(@, before, after) EXCEPT ![node] = l.head],
                       !.prev = Link([Link(@, after, before)
                                        EXCEPT ![node] = undefined], l.head, node)]

moveToFront(l, v) ==
    LET node == l.nodesMap[v]
        before == l.prev[node]
        after == l.next[node]
    IN  IF node \in {undefined, l.head} THEN l
        ELSE [l EXCEPT !.head = node,
                       !.tail = Or(IF node = @ THEN before ELSE @, node),
                       !.next = [Link(@, before, after) EXCEPT ![node] = l.head],
                       !.prev = Link([Link(@, after, before)
                                        EXCEPT ![node] = undefined], l.head, node)]

getOldest(l) == IF l.tail = undefined THEN undefined ELSE l.value[l.tail]

\* Mutant: the map keeps the value.
removeOldest_KeepsKey(l) ==
    LET oldest == l.tail
        before == l.prev[oldest]
    IN  IF oldest = undefined THEN l
        ELSE Forget([l EXCEPT !.tail = before,
                              !.head = IF before = undefined THEN undefined ELSE @,
                              !.next = Link(@, before, undefined)],
                    oldest)

removeOldest(l) ==
    LET oldest == l.tail
        before == l.prev[oldest]
    IN  IF oldest = undefined THEN l
        ELSE Forget([l EXCEPT !.tail = before,
                              !.head = IF before = undefined THEN undefined ELSE @,
                              !.next = Link(@, before, undefined),
                              !.nodesMap[l.value[oldest]] = undefined],
                    oldest)

remove(l, v) ==
    LET node == l.nodesMap[v]
        before == l.prev[node]
        after == l.next[node]
    IN  IF node = undefined THEN l
        ELSE Forget([l EXCEPT !.head = IF before = undefined THEN after ELSE @,
                              !.tail = IF after = undefined THEN before ELSE @,
                              !.next = Link(@, before, after),
                              !.prev = Link(@, after, before),
                              !.nodesMap[v] = undefined],
                    node)

Held(l) == {v \in Values : l.nodesMap[v] # undefined}

size(l) == Cardinality(Held(l))

-----------------------------------------------------------------------------
(* What a reader who follows the pointers sees.                             *)

\* The nodes from the first one on, by a pointer; one more than there are in use
\* if the way does not end.
Walk(l, first, pointer) ==
    LET Steps == 1..(Cardinality(InUse(l)) + 1)
        at[i \in Steps] ==
            IF i = 1 THEN first
            ELSE LET previous == at[i - 1]
                 IN  IF previous = undefined THEN undefined ELSE pointer[previous]
    IN  [i \in 1..Cardinality({i \in Steps : at[i] # undefined}) |-> at[i]]

Order(l) ==
    LET nodes == Walk(l, l.head, l.next)
    IN  [i \in 1..Len(nodes) |-> l.value[nodes[i]]]

\* Which value comes before which.
Before(l) ==
    LET order == Order(l)
        positions == DOMAIN order
    IN  {<<order[p[1]], order[p[2]]>> : p \in {p \in positions \X positions : p[1] < p[2]}}

\* Both ways through the chain are the same, meet every node once, and the
\* map leads to the newest node of each value it has.
Sound(l) ==
    LET nodes == Walk(l, l.head, l.next)
    IN  /\ Walk(l, l.tail, l.prev) = Reverse(nodes)
        /\ IsInjective(nodes)
        /\ ToSet(nodes) = InUse(l)
        /\ \A v \in Held(l) : \E i \in DOMAIN nodes :
             /\ nodes[i] = l.nodesMap[v] /\ Order(l)[i] = v
             /\ \A j \in 1..(i - 1) : Order(l)[j] # v
=============================================================================
