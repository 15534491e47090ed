------------------------------ MODULE HashRing ------------------------------
(***************************************************************************)
(* class ConsistentHashRing (consistent_hash.h, consistent_hash.cpp): the  *)
(* placement of keys on nodes.                                             *)
(*                                                                         *)
(* A ring is a record of                                                   *)
(*   at     the map ring, from positions to the node whose virtual node    *)
(*          hashes to it; NoNode at a position that the map does not hold  *)
(*   nodes  the keys of the map nodes                                      *)
(*                                                                         *)
(* Positions stand for the 64-bit hash values.  The operators take the     *)
(* positions that the hash function gives to a key (p) and to the virtual  *)
(* nodes of a node (marks) as parameters, so that the modules that use     *)
(* them choose the hash function.  An iterator into the map ring that has  *)
(* wrapped around is a number of places walked clockwise from p.           *)
(***************************************************************************)
EXTENDS KeyList

CONSTANTS Nodes,      \* the nodes that may be in the cluster
          NoNode,     \* nullptr, or no node at a position
          RingSize    \* the number of hash values, 2^64 in the code

ASSUME RingAssumption ==
    /\ NoNode \notin Nodes
    /\ RingSize \in Nat \ {0}

Positions == 0 .. RingSize - 1

Rings == [at : [Positions -> Nodes \cup {NoNode}], nodes : SUBSET Nodes]

EmptyRing == [at |-> [q \in Positions |-> NoNode], nodes |-> {}]

\* addNode and addVirtualNodes.
RingAdd(r, n, marks) ==
    IF n \in r.nodes THEN r
    ELSE [at    |-> [q \in Positions |-> IF q \in marks THEN n ELSE r.at[q]],
          nodes |-> r.nodes \cup {n}]

\* A wrong form of removeNode, for the mutation checks: the loop over the
\* virtual nodes ends one too early.
RingRemoveAllButOne(r, n, marks) ==
    IF n \notin r.nodes THEN r
    ELSE [at    |-> [q \in Positions |->
                        IF q \in marks /\ \E x \in marks : x < q
                        THEN NoNode ELSE r.at[q]],
          nodes |-> r.nodes \ {n}]

\* Another wrong form: the ring's places go, the member stays.
RingRemoveKeepsMember(r, n, marks) ==
    [r EXCEPT !.at = [q \in Positions |-> IF q \in marks THEN NoNode ELSE @[q]]]

\* removeNode and removeVirtualNodes: what is at the node's positions goes,
\* whichever node put it there.
RingRemove(r, n, marks) ==
    IF n \notin r.nodes THEN r
    ELSE [at    |-> [q \in Positions |-> IF q \in marks THEN NoNode ELSE r.at[q]],
          nodes |-> r.nodes \ {n}]

----------------------------------------------------------------------------
(* Lookups.                                                                *)

\* The position d steps clockwise from p, round the end to the beginning, and
\* how many steps lead from p to q.
Ahead(p, d) == (p + d) % RingSize
Steps(p, q) == (q - p) % RingSize

\* The node at the place reached from p in d steps of one position.
NodeAt(r, p, d) == r.at[Ahead(p, d)]

\* A wrong form of the primary's search, for the mutation checks: it takes
\* the place it starts at, failed or not.
HealthyOrFirst(r, p, d, failed) ==
    /\ NodeAt(r, p, d) # NoNode
    /\ \/ NodeAt(r, p, d) \notin failed
       \/ \A x \in 0 .. d - 1 : NodeAt(r, p, x) = NoNode

\* There is a place d steps from p, and the loop stops at its node.
HealthyAt(r, p, d, failed) ==
    NodeAt(r, p, d) # NoNode /\ NodeAt(r, p, d) \notin failed

\* findPrimaryNodeIt: the loop starts at lower_bound, steps over the places
\* of failed nodes, and gives up when it is back where it started.
HasPrimary(r, p, failed) == \E d \in Positions : HealthyAt(r, p, d, failed)

PrimaryPlace(r, p, failed) ==
    LET steps == CHOOSE d \in Positions :
                     /\ HealthyAt(r, p, d, failed)
                     /\ \A x \in 0 .. d - 1 : ~HealthyAt(r, p, x, failed)
    IN  Ahead(p, steps)

\* findPrimaryNode(key, failedNodes).
FindPrimaryNode(r, p, failed) ==
    IF HasPrimary(r, p, failed) THEN r.at[PrimaryPlace(r, p, failed)] ELSE NoNode

\* The nodes met at the given distances from p, nearest first, until there
\* are limit.
FirstTaken(r, p, taken, limit) ==
    [i \in 1 .. (IF Cardinality(taken) < limit THEN Cardinality(taken) ELSE limit) |->
        NodeAt(r, p, AtRank(taken, i))]

\* A wrong form of the replica loop, for the mutation checks: a node with
\* several places is taken at each of them.
CollectRepeats(r, p, limit, skipped) ==
    FirstTaken(r, p, {d \in Positions : NodeAt(r, p, d) \notin skipped}, limit)

\* The loops of getReplicaNodes, once around the ring from p: take the nodes
\* met in turn, but for those that are skipped and those it has already,
\* until there are limit.  The loop is not written as a recursion, for the
\* sake of the proofs: what it takes as its i-th node is what stands at the
\* i-th smallest of the distances at which a node is met first.
Collect(r, p, limit, skipped) ==
    LET First(d) == \A x \in 0 .. d - 1 : NodeAt(r, p, x) # NodeAt(r, p, d)
    IN  FirstTaken(r, p, {d \in Positions : NodeAt(r, p, d) \notin skipped /\ First(d)},
                   limit)

\* min(nodes.size() - 1, n), for a ring with a member.
ReplicaLimit(r, n) ==
    IF n < Cardinality(r.nodes) - 1 THEN n ELSE Cardinality(r.nodes) - 1

\* A wrong form of getReplicaNodes, for the mutation checks: the place behind
\* the primary is skipped as well.
GetReplicaNodesSkipsNext(r, place, n, failed) ==
    Collect(r, Ahead(place, 2), ReplicaLimit(r, n),
            {r.at[place], NoNode} \cup failed)

\* getReplicaNodes(key, n, failedNodes), called only when there is a primary:
\* it finds the primary's place once more; the walk starts behind that place
\* and ends with it.
GetReplicaNodes(r, place, n, failed) ==
    Collect(r, Ahead(place, 1), ReplicaLimit(r, n),
            {r.at[place], NoNode} \cup failed)

\* getReplicaNodes(key, n), without failed nodes, has the same loop but for
\* its end: it has no check for having gone round, and walks until it has
\* all the nodes that it wants.  KeyReplicas is what it returns then.
KeyReplicas(r, p, n) == GetReplicaNodes(r, PrimaryPlace(r, p, {}), n, {})

WalkEnds(r, p, n) ==
    HasPrimary(r, p, {}) => Len(KeyReplicas(r, p, n)) = ReplicaLimit(r, n)

\* getExpectedNodesForKey, and the nodes that set, setWithTtl and del reach:
\* the primary, then the n replicas; none if no node is healthy.
ExpectedNodes(r, p, n, failed) ==
    IF HasPrimary(r, p, failed)
    THEN LET place == PrimaryPlace(r, p, failed)
         IN  <<r.at[place]>> \o GetReplicaNodes(r, place, n, failed)
    ELSE <<>>
=============================================================================
