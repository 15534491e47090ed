----------------------------- MODULE Placement ------------------------------
(***************************************************************************)
(* A hash ring whose nodes come, fail and leave, for whatever positions    *)
(* the hash function gives to the virtual nodes, be they all different or  *)
(* not.  A node's failure is never taken back, not even when the node is   *)
(* removed and added again (DistributedCache keeps failedNodes apart).     *)
(*                                                                         *)
(*   ring    the ring                                                      *)
(*   failed  failedNodes                                                   *)
(*   marks   the positions of each node's virtual nodes: chosen once, by   *)
(*           the hash function                                             *)
(***************************************************************************)
EXTENDS HashRing

CONSTANT VirtualNodes   \* numVirtualNodes

ASSUME VirtualNodesAssumption == VirtualNodes \in Nat \ {0}

VARIABLES ring, failed, marks

vars == <<ring, failed, marks>>

\* Any positions: virtual nodes of one node, or of two, may collide.
Hashes ==
    [Nodes -> {S \in SUBSET Positions : Cardinality(S) \in 1 .. VirtualNodes}]

Init ==
    /\ ring = EmptyRing
    /\ failed = {}
    /\ marks \in Hashes

AddNode(n) ==
    /\ n \notin ring.nodes
    /\ ring' = RingAdd(ring, n, marks[n])
    /\ UNCHANGED <<failed, marks>>

RemoveNode(n) ==
    /\ n \in ring.nodes
    /\ ring' = RingRemove(ring, n, marks[n])
    /\ UNCHANGED <<failed, marks>>

MarkNodeFailed(n) ==
    /\ n \in ring.nodes \ failed
    /\ failed' = failed \cup {n}
    /\ UNCHANGED <<ring, marks>>

Next == \E n \in Nodes : AddNode(n) \/ RemoveNode(n) \/ MarkNodeFailed(n)

Spec == Init /\ [][Next]_vars

----------------------------------------------------------------------------
(* Properties.                                                             *)

TypeOK ==
    /\ ring \in Rings
    /\ failed \in SUBSET Nodes
    /\ marks \in Hashes

\* No two nodes have a virtual node at the same position.
CollisionFree ==
    \A x, y \in Nodes : x # y => marks[x] \cap marks[y] = {}

\* A position of the ring leads to a member that has a virtual node there:
\* one left behind would route keys to a node without a cache, for which
\* getNodeCache throws.  That holds also when virtual nodes collide, where
\* adding a node takes a place from another, and removing either of the two
\* erases it for both.  Without collisions every member keeps all of its
\* places (consistent_hash.cpp:25-69).
MapsAgree ==
    \A q \in Positions, x \in Nodes :
        /\ ring.at[q] = x => x \in ring.nodes /\ q \in marks[x]
        /\ CollisionFree /\ x \in ring.nodes /\ q \in marks[x] => ring.at[q] = x

Copies == 0 .. Cardinality(Nodes)

\* How far clockwise from p the nearest place of node n is.
Nearest(n, p) ==
    CHOOSE d \in {Steps(p, q) : q \in marks[n]} :
        \A q \in marks[n] : d <= Steps(p, q)

\* A key at p belongs to the healthy members nearest to it clockwise, in the
\* order of their distance, and to as many of them as there are copies to
\* hold: the lookup loops, with their wrapping around and their skipping of
\* failed nodes, the primary and nodes met twice, find just those.  The
\* number of replicas may exceed the number of nodes, as it does when a
\* replication factor of 0 wraps around (consistent_hash.cpp:90-149, 204-275).
ExpectedAreNearest ==
    CollisionFree => \A p \in Positions, n \in Copies :
        LET expected == ExpectedNodes(ring, p, n, failed)
            healthy  == ring.nodes \ failed
            closer(x) == {y \in healthy : Nearest(y, p) < Nearest(x, p)}
        IN  /\ Elements(expected) = {x \in healthy : Cardinality(closer(x)) <= n}
            /\ \A i \in DOMAIN expected :
                  Cardinality(closer(expected[i])) = i - 1

\* The walk for the replicas of a key that does not skip failed nodes comes
\* to its end: the ring leads to as many nodes as it waits for, which are
\* counted by the other map.  It holds the cluster's lock, so that nothing
\* else would ever move again if it did not (consistent_hash.cpp:151-201).
ReplicaWalkEnds ==
    CollisionFree => \A p \in Positions, n \in Copies : WalkEnds(ring, p, n)

\* Adding a node moves keys to that node only: the nodes of every key stay
\* the same and in the same order, but for the new node and the one it
\* pushes out at the end ("Minimal key redistribution when nodes are
\* added/removed", consistent_hash.h:40).
AddMovesKeysToNewNodeOnly ==
    [][\A x \in Nodes : AddNode(x) /\ CollisionFree =>
          \A p \in Positions, n \in Copies :
              Prefix(Without(ExpectedNodes(ring', p, n, failed), {x}),
                     ExpectedNodes(ring, p, n, failed))]_vars

\* A node that is removed, or marked as failed, hands its place to the nodes
\* behind it: the others stay, in the same order, and one is appended at
\* most.  So the first replica becomes the primary, and holds the data.
LossPromotesReplicas ==
    [][\A x \in Nodes : (RemoveNode(x) \/ MarkNodeFailed(x)) /\ CollisionFree =>
          \A p \in Positions, n \in Copies :
              Prefix(Without(ExpectedNodes(ring, p, n, failed), {x}),
                     ExpectedNodes(ring', p, n, failed'))]_vars
=============================================================================
