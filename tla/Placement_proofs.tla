-------------------------- MODULE Placement_proofs --------------------------
(***************************************************************************)
(* Proofs about Placement, for any number of nodes, of virtual nodes and   *)
(* of positions, and for every hash function.                              *)
(***************************************************************************)
EXTENDS Placement, HashRing_proofs

\* The inductive invariant: both maps are well typed and agree.  It is the
\* first part of MapsAgree that makes removal clear every place of the node:
\* whatever place leads to it is one of its own positions.
Inv == TypeOK /\ MapsAgree

\* Every state of the ring has the inductive invariant.
THEOREM InvTheorem == Spec => []Inv
<1>1. Init => Inv
  BY RingAssumption DEF Init, Inv, TypeOK, MapsAgree, EmptyRing, Rings
<1>2. Inv /\ [Next]_vars => Inv'
  <2> SUFFICES ASSUME Inv, [Next]_vars PROVE Inv'
    OBVIOUS
  <2> USE DEF Inv, TypeOK, MapsAgree
  <2>1. CollisionFree' <=> CollisionFree
    BY DEF Next, AddNode, RemoveNode, MarkNodeFailed, vars, CollisionFree
  <2>2. ASSUME NEW n \in Nodes, AddNode(n)
        PROVE  Inv'
    <3>1. /\ ring'.at = [q \in Positions |-> IF q \in marks[n] THEN n
                                                              ELSE ring.at[q]]
          /\ ring'.nodes = ring.nodes \cup {n}
          /\ ring' \in Rings
          /\ UNCHANGED <<failed, marks>>
      BY <2>2 DEF AddNode, RingAdd, Rings
    <3>2. MapsAgree'
      BY <2>1, <2>2, <3>1 DEF AddNode, CollisionFree
    <3> QED
      BY <3>1, <3>2
  <2>3. ASSUME NEW n \in Nodes, RemoveNode(n)
        PROVE  Inv'
    <3>1. /\ ring'.at = [q \in Positions |-> IF q \in marks[n] THEN NoNode
                                                              ELSE ring.at[q]]
          /\ ring'.nodes = ring.nodes \ {n}
          /\ ring' \in Rings
          /\ UNCHANGED <<failed, marks>>
      BY <2>3 DEF RemoveNode, RingRemove, Rings
    <3>2. MapsAgree'
      BY <2>1, <2>3, <3>1, RingAssumption DEF RemoveNode, CollisionFree
    <3> QED
      BY <3>1, <3>2
  <2>4. ASSUME NEW n \in Nodes, MarkNodeFailed(n)
        PROVE  Inv'
    BY <2>1, <2>4 DEF MarkNodeFailed
  <2>5. CASE UNCHANGED vars
    BY <2>1, <2>5 DEF vars
  <2> QED
    BY <2>2, <2>3, <2>4, <2>5 DEF Next
<1> QED
  BY <1>1, <1>2, PTL DEF Spec

\* Whatever nodes are added, removed and marked as failed, the ring leads to
\* the members and to nobody else.
THEOREM MapsAgreeTheorem == Spec => []MapsAgree
<1>1. Inv => MapsAgree
  BY DEF Inv
<1> QED
  BY <1>1, InvTheorem, PTL

----------------------------------------------------------------------------
(* What the lookups find.                                                  *)

\* Without collisions, maps that agree make the ring complete.
LEMMA AgreementFacts ==
    ASSUME NEW r \in Rings, NEW m \in Hashes,
           \A x, y \in Nodes : x # y => m[x] \cap m[y] = {},
           \A q \in Positions, x \in Nodes :
               /\ r.at[q] = x => x \in r.nodes /\ q \in m[x]
               /\ x \in r.nodes /\ q \in m[x] => r.at[q] = x
    PROVE  Separate(m) /\ Complete(r, m)
<1>1. ASSUME NEW x \in Nodes PROVE m[x] \in (SUBSET Positions) \ {{}}
  <2>1. m[x] \in SUBSET Positions /\ Cardinality(m[x]) \in 1 .. VirtualNodes
    BY DEF Hashes
  <2>2. Cardinality(m[x]) # 0
    BY <2>1, VirtualNodesAssumption
  <2>3. m[x] # {}
    BY <2>2, FS_EmptySet
  <2> QED
    BY <2>1, <2>3
<1>2. m \in [Nodes -> (SUBSET Positions) \ {{}}]
  BY <1>1 DEF Hashes
<1>3. Complete(r, m)
  BY DEF Complete
<1> QED
  BY <1>2, <1>3 DEF Separate

\* So the ring is complete in every state without collisions.
LEMMA RingFacts ==
    ASSUME Inv, CollisionFree
    PROVE  /\ Separate(marks) /\ Complete(ring, marks)
           /\ Copies \subseteq Nat
           /\ ring.nodes \ failed \in SUBSET Nodes
           /\ IsFiniteSet(ring.nodes \ failed)
<1>1. Separate(marks) /\ Complete(ring, marks)
  BY AgreementFacts DEF Inv, TypeOK, MapsAgree, CollisionFree
<1>2. IsFiniteSet(Nodes) /\ Cardinality(Nodes) \in Nat
  BY <1>1, NodesFinite, FS_CardinalityType
<1>3. ring.nodes \ failed \in SUBSET Nodes
  BY DEF Inv, TypeOK, Rings
<1> QED
  BY <1>1, <1>2, <1>3, FS_Subset DEF Copies

\* In every state of the ring, the lookups route a key to the nearest healthy
\* members, nearest first, and to as many of them as there are copies to hold.
THEOREM ExpectedTheorem == Spec => []ExpectedAreNearest
<1>1. ASSUME Inv PROVE ExpectedAreNearest
  <2> SUFFICES ASSUME CollisionFree, NEW p \in Positions, NEW n \in Copies
               PROVE  LET expected == ExpectedNodes(ring, p, n, failed)
                          healthy  == ring.nodes \ failed
                          closer(x) == {y \in healthy : Nearest(y, p) < Nearest(x, p)}
                      IN  /\ Elements(expected) = {x \in healthy : Cardinality(closer(x)) <= n}
                          /\ \A i \in DOMAIN expected :
                                Cardinality(closer(expected[i])) = i - 1
    BY DEF ExpectedAreNearest
  <2> DEFINE e       == ExpectedNodes(ring, p, n, failed)
             healthy == ring.nodes \ failed
             card(x) == Cardinality(Closer(marks, healthy, x, p))
  <2>1. /\ Separate(marks) /\ Complete(ring, marks)
        /\ n \in Nat
    BY <1>1, RingFacts
  <2>2. NearestFirst(marks, healthy, p, n + 1, e)
    BY <2>1, ExpectedFacts
  <2>3. \A x \in Nodes : Nearest(x, p) = Distance(marks, x, p)
    BY DEF Nearest, Distance
  <2>4. \A x : {y \in healthy : Nearest(y, p) < Nearest(x, p)} = Closer(marks, healthy, x, p)
    BY DEF Closer, Nearest, Distance
  <2> HIDE DEF e, healthy
  <2>5. Elements(e) = {x \in healthy : card(x) < n + 1}
    <3>1. Elements(e) = Nearby(marks, healthy, p, n + 1)
      BY <2>1, ExpectedMembers DEF e, healthy
    <3> QED
      BY <3>1 DEF Nearby
  <2>6. /\ \A x \in healthy : card(x) \in Nat
        /\ \A i \in DOMAIN e : card(e[i]) = i - 1
    BY <2>2 DEF NearestFirst
  <2> HIDE DEF card
  <2>7. Elements(e) = {x \in healthy : card(x) <= n}
    BY <2>1, <2>5, <2>6
  <2> QED
    BY <2>4, <2>6, <2>7 DEF card, e, healthy
<1> QED
  BY <1>1, InvTheorem, PTL

\* In every state of the ring, the walk that does not skip failed nodes finds
\* as many replicas as it waits for.
THEOREM WalkTheorem == Spec => []ReplicaWalkEnds
<1>1. ASSUME Inv PROVE ReplicaWalkEnds
  BY <1>1, RingFacts, WalkEndsFacts DEF ReplicaWalkEnds
<1> QED
  BY <1>1, InvTheorem, PTL

----------------------------------------------------------------------------
(* How the lookups change when nodes come and go.                          *)

\* Two rings whose healthy members differ by x list the others alike.
LEMMA PrefixFacts ==
    ASSUME NEW m, Separate(m),
           NEW r, Complete(r, m), NEW f, NEW r2, Complete(r2, m), NEW f2,
           NEW x, r2.nodes \ f2 = (r.nodes \ f) \ {x},
           NEW p \in Positions, NEW n \in Nat
    PROVE  Prefix(Without(ExpectedNodes(r, p, n, f), {x}), ExpectedNodes(r2, p, n, f2))
<1> DEFINE S  == r.nodes \ f
           s  == ExpectedNodes(r, p, n, f)
           t  == ExpectedNodes(r2, p, n, f2)
<1>1. S \in SUBSET Nodes
  BY DEF Complete, Rings
<1>2. NearestFirst(m, S, p, n + 1, s)
  BY ExpectedFacts
<1>3. NearestFirst(m, r2.nodes \ f2, p, n + 1, t)
  BY ExpectedFacts
<1> HIDE DEF s, t
<1>4. NearestFirst(m, S \ {x}, p, n + 1, t)
  BY <1>3
<1> HIDE DEF S
<1>5. Prefix(Without(s, {x}), t)
  <2> DEFINE limit == n + 1
  <2>1. limit \in Nat
    OBVIOUS
  <2>2. NearestFirst(m, S, p, limit, s) /\ NearestFirst(m, S \ {x}, p, limit, t)
    BY <1>2, <1>4
  <2> HIDE DEF limit
  <2> QED
    BY <1>1, <2>1, <2>2, LossKeepsOrder
<1> QED
  BY <1>5 DEF s, t

\* Adding a node moves keys to that node only.
THEOREM AddTheorem == Spec => AddMovesKeysToNewNodeOnly
<1>1. ASSUME Inv, Inv', NEW x \in Nodes, AddNode(x), CollisionFree,
             NEW p \in Positions, NEW n \in Copies
      PROVE  Prefix(Without(ExpectedNodes(ring', p, n, failed), {x}),
                    ExpectedNodes(ring, p, n, failed))
  <2>1. Separate(marks) /\ Complete(ring, marks) /\ n \in Nat
    BY <1>1, RingFacts
  <2>2. Complete(ring', marks)
    <3>1. marks' = marks
      BY <1>1 DEF AddNode
    <3>2. ring' \in Rings /\ marks \in Hashes
      BY <1>1, <3>1 DEF Inv, TypeOK
    <3>3. \A q \in Positions, y \in Nodes :
             /\ ring'.at[q] = y => y \in ring'.nodes /\ q \in marks[y]
             /\ y \in ring'.nodes /\ q \in marks[y] => ring'.at[q] = y
      BY <1>1, <3>1 DEF Inv, MapsAgree, CollisionFree
    <3> QED
      BY <1>1, <3>2, <3>3, AgreementFacts DEF CollisionFree
  <2>3. ring.nodes \ failed = (ring'.nodes \ failed) \ {x}
    BY <1>1 DEF AddNode, RingAdd
  <2> QED
    BY <2>1, <2>2, <2>3, PrefixFacts
<1>2. Inv /\ Inv' /\ [Next]_vars =>
        [\A x \in Nodes : AddNode(x) /\ CollisionFree =>
            \A p \in Positions, n \in Copies :
                Prefix(Without(ExpectedNodes(ring', p, n, failed), {x}),
                       ExpectedNodes(ring, p, n, failed))]_vars
  BY <1>1
<1> QED
  BY <1>2, InvTheorem, PTL DEF Spec, AddMovesKeysToNewNodeOnly

\* A node that is lost hands its place to the nodes behind it.
THEOREM LossTheorem == Spec => LossPromotesReplicas
<1>1. ASSUME Inv, Inv', NEW x \in Nodes, RemoveNode(x) \/ MarkNodeFailed(x),
             CollisionFree, NEW p \in Positions, NEW n \in Copies
      PROVE  Prefix(Without(ExpectedNodes(ring, p, n, failed), {x}),
                    ExpectedNodes(ring', p, n, failed'))
  <2>1. Separate(marks) /\ Complete(ring, marks) /\ n \in Nat
    BY <1>1, RingFacts
  <2>2. Complete(ring', marks)
    <3>1. marks' = marks
      BY <1>1 DEF RemoveNode, MarkNodeFailed
    <3>2. ring' \in Rings /\ marks \in Hashes
      BY <1>1, <3>1 DEF Inv, TypeOK
    <3>3. \A q \in Positions, y \in Nodes :
             /\ ring'.at[q] = y => y \in ring'.nodes /\ q \in marks[y]
             /\ y \in ring'.nodes /\ q \in marks[y] => ring'.at[q] = y
      BY <1>1, <3>1 DEF Inv, MapsAgree, CollisionFree
    <3> QED
      BY <1>1, <3>2, <3>3, AgreementFacts DEF CollisionFree
  <2>3. ring'.nodes \ failed' = (ring.nodes \ failed) \ {x}
    BY <1>1 DEF RemoveNode, MarkNodeFailed, RingRemove
  <2> QED
    BY <2>1, <2>2, <2>3, PrefixFacts
<1>2. Inv /\ Inv' /\ [Next]_vars =>
        [\A x \in Nodes : (RemoveNode(x) \/ MarkNodeFailed(x)) /\ CollisionFree =>
            \A p \in Positions, n \in Copies :
                Prefix(Without(ExpectedNodes(ring, p, n, failed), {x}),
                       ExpectedNodes(ring', p, n, failed'))]_vars
  BY <1>1
<1> QED
  BY <1>2, InvTheorem, PTL DEF Spec, LossPromotesReplicas
=============================================================================
