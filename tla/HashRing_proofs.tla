--------------------------- MODULE HashRing_proofs --------------------------
(***************************************************************************)
(* What the lookups of the hash ring find, for any number of nodes, of     *)
(* virtual nodes and of positions, as long as no two nodes have a virtual  *)
(* node at the same position: the healthy members of the ring, nearest     *)
(* first (ExpectedFacts, PrimaryFacts).                                    *)
(***************************************************************************)
EXTENDS HashRing, KeyList_proofs

\* hashes gives every node positions of its own.
Separate(hashes) ==
    /\ hashes \in [Nodes -> (SUBSET Positions) \ {{}}]
    /\ \A x, y \in Nodes : x # y => hashes[x] \cap hashes[y] = {}

\* The ring has every member at all of its positions, and nobody else.
Complete(r, hashes) ==
    /\ r \in Rings
    /\ \A q \in Positions, x \in Nodes :
          r.at[q] = x <=> x \in r.nodes /\ q \in hashes[x]

\* How far clockwise from p the nearest position of node n is.
Distance(hashes, n, p) ==
    CHOOSE d \in {Steps(p, q) : q \in hashes[n]} :
        \A q \in hashes[n] : d <= Steps(p, q)

\* The members of S that are nearer to p than x is.
Closer(hashes, S, x, p) ==
    {y \in S : Distance(hashes, y, p) < Distance(hashes, x, p)}

\* The members of S that fewer than limit others are closer than.
Nearby(hashes, S, p, limit) ==
    {x \in S : Cardinality(Closer(hashes, S, x, p)) < limit}

\* e lists the members of S nearest to p, nearest first: all of them, or as
\* many as limit.
NearestFirst(hashes, S, p, limit, e) ==
    /\ e \in Seq(S)
    /\ DOMAIN e = 1 .. (IF Cardinality(S) < limit THEN Cardinality(S) ELSE limit)
    /\ \A i \in DOMAIN e : Cardinality(Closer(hashes, S, e[i], p)) = i - 1
    /\ \A x \in S : LET k == Cardinality(Closer(hashes, S, x, p))
                    IN  /\ k \in Nat
                        /\ k < limit => k + 1 \in DOMAIN e /\ e[k + 1] = x

----------------------------------------------------------------------------
(* Distances.                                                              *)

\* A position, or a number of steps short of a round, is a number.
LEMMA PositionsAreNumbers ==
    /\ RingSize \in Nat \ {0}
    /\ \A d \in Positions : d \in Nat /\ d \in Int /\ 0 <= d /\ d < RingSize
BY RingAssumption DEF Positions

\* Walking clockwise from one position to another.
LEMMA WalkFacts ==
    ASSUME NEW p \in Positions, NEW d \in Positions
    PROVE  /\ Ahead(p, d) \in Positions
           /\ Steps(p, d) \in Positions
           /\ Ahead(p, Steps(p, d)) = d
           /\ Steps(p, Ahead(p, d)) = d
<1>1. /\ RingSize \in Nat \ {0}
      /\ p \in 0 .. RingSize - 1
      /\ d \in 0 .. RingSize - 1
  BY RingAssumption DEF Positions
<1>2. Ahead(p, d) = IF p + d < RingSize THEN p + d ELSE p + d - RingSize
  BY <1>1 DEF Ahead
<1>3. Steps(p, d) = IF p <= d THEN d - p ELSE d - p + RingSize
  BY <1>1 DEF Steps
<1>4. Ahead(p, Steps(p, d)) = d
  BY <1>1, <1>3 DEF Ahead
<1>5. Steps(p, Ahead(p, d)) = d
  BY <1>1, <1>2 DEF Steps
<1> QED
  BY <1>1, <1>2, <1>3, <1>4, <1>5 DEF Positions

\* The place behind a position.
LEMMA OneStepFacts ==
    ASSUME NEW p \in Positions
    PROVE  Ahead(p, 1) \in Positions
BY PositionsAreNumbers DEF Ahead, Positions

\* Steps add up, for one round.
LEMMA StepsAdd ==
    ASSUME NEW p \in Positions, NEW d \in Nat, NEW e \in Nat, d + e <= RingSize
    PROVE  Ahead(Ahead(p, d), e) = Ahead(p, d + e)
<1>1. /\ RingSize \in Nat \ {0}
      /\ p \in 0 .. RingSize - 1
  BY RingAssumption DEF Positions
<1>2. Ahead(p, d) = IF p + d < RingSize THEN p + d ELSE p + d - RingSize
  BY <1>1 DEF Ahead
<1>3. CASE p + d < RingSize
  BY <1>1, <1>2, <1>3 DEF Ahead
<1>4. CASE p + d >= RingSize
  <2> DEFINE n == p + d - RingSize + e
  <2>1. n \in 0 .. RingSize - 1 \/ n = RingSize
    BY <1>1, <1>4
  <2>2. Ahead(Ahead(p, d), e) = n % RingSize
    BY <1>1, <1>2, <1>4 DEF Ahead
  <2>3. Ahead(p, d + e) = (n + RingSize) % RingSize
    BY <1>1 DEF Ahead
  <2>4. n % RingSize = (n + RingSize) % RingSize
    BY <1>1, <2>1
  <2> QED
    BY <2>2, <2>3, <2>4
<1> QED
  BY <1>1, <1>3, <1>4

\* The nearest position of a node is one of its own, and no other is nearer.
LEMMA DistanceFacts ==
    ASSUME NEW hashes, Separate(hashes), NEW x \in Nodes, NEW p \in Positions
    PROVE  /\ Distance(hashes, x, p) \in Positions
           /\ Ahead(p, Distance(hashes, x, p)) \in hashes[x]
           /\ \A d \in Positions :
                 Ahead(p, d) \in hashes[x] => Distance(hashes, x, p) <= d
<1> DEFINE T == {Steps(p, q) : q \in hashes[x]}
<1>1. hashes[x] \subseteq Positions /\ hashes[x] # {}
  BY DEF Separate
<1>2. /\ T # {}
      /\ \A d \in T : d \in Positions /\ d \in Nat /\ Ahead(p, d) \in hashes[x]
  <2>1. ASSUME NEW q \in hashes[x]
        PROVE  LET d == Steps(p, q)
               IN  d \in Positions /\ Ahead(p, d) \in hashes[x]
    <3>1. q \in Positions
      BY <1>1
    <3>2. Steps(p, q) \in Positions /\ Ahead(p, Steps(p, q)) = q
      BY <3>1, WalkFacts
    <3> QED
      BY <3>2
  <2> QED
    BY <1>1, <2>1, PositionsAreNumbers
<1>3. PICK m \in T : \A n \in T : m <= n
  BY <1>2, LeastNumber
<1>4. \E d \in T : \A q \in hashes[x] : d <= Steps(p, q)
  BY <1>3
<1>5. /\ Distance(hashes, x, p) \in T
      /\ \A q \in hashes[x] : Distance(hashes, x, p) <= Steps(p, q)
  BY <1>4 DEF Distance
<1>6. ASSUME NEW d \in Positions, Ahead(p, d) \in hashes[x]
      PROVE  Distance(hashes, x, p) <= d
  <2>1. Steps(p, Ahead(p, d)) = d
    BY WalkFacts
  <2> QED
    BY <1>5, <1>6, <2>1
<1> QED
  BY <1>2, <1>5, <1>6

\* These facts determine it.
LEMMA DistanceUnique ==
    ASSUME NEW hashes, Separate(hashes), NEW x \in Nodes, NEW p \in Positions,
           NEW d \in Positions, Ahead(p, d) \in hashes[x],
           \A e \in 0 .. d - 1 : Ahead(p, e) \notin hashes[x]
    PROVE  d = Distance(hashes, x, p)
<1>1. /\ Distance(hashes, x, p) \in Positions
      /\ Ahead(p, Distance(hashes, x, p)) \in hashes[x]
      /\ Distance(hashes, x, p) <= d
  BY DistanceFacts
<1>2. Distance(hashes, x, p) \in Int /\ d \in Int /\ 0 <= Distance(hashes, x, p)
  BY <1>1, PositionsAreNumbers
<1>3. Distance(hashes, x, p) \notin 0 .. d - 1
  BY <1>1
<1> QED
  BY <1>1, <1>2, <1>3

\* Two nodes are at different distances.
LEMMA DistanceInjective ==
    ASSUME NEW hashes, Separate(hashes), NEW x \in Nodes, NEW y \in Nodes,
           NEW p \in Positions, Distance(hashes, x, p) = Distance(hashes, y, p)
    PROVE  x = y
BY DistanceFacts DEF Separate

\* There are finitely many nodes: each has a position of its own.
LEMMA NodesFinite ==
    ASSUME NEW hashes, Separate(hashes)
    PROVE  IsFiniteSet(Nodes)
<1> DEFINE f == [x \in Nodes |-> CHOOSE q \in Positions : q \in hashes[x]]
<1>1. \A x \in Nodes : f[x] \in Positions /\ f[x] \in hashes[x]
  BY DEF Separate
<1> HIDE DEF f
<1>2. f \in [Nodes -> Positions]
  <2>1. f = [x \in Nodes |-> f[x]]
    BY DEF f
  <2> QED
    BY <1>1, <2>1
<1>3. f \in Injection(Nodes, Positions)
  BY <1>1, <1>2 DEF Injection, IsInjective, Separate
<1>4. IsFiniteSet(Positions)
  BY RingAssumption, FS_Interval DEF Positions
<1> QED
  BY <1>3, <1>4, FS_Injection

\* What stands d steps from p.
LEMMA NodeAtFacts ==
    ASSUME NEW hashes, Separate(hashes), NEW r, Complete(r, hashes),
           NEW p \in Positions
    PROVE  /\ \A d \in Positions :
                 /\ NodeAt(r, p, d) \in r.nodes \cup {NoNode}
                 /\ \A x \in Nodes : NodeAt(r, p, d) = x <=>
                       x \in r.nodes /\ Ahead(p, d) \in hashes[x]
           /\ \A x \in r.nodes : NodeAt(r, p, Distance(hashes, x, p)) = x
<1>1. /\ r.at \in [Positions -> Nodes \cup {NoNode}]
      /\ r.nodes \subseteq Nodes
      /\ \A q \in Positions, x \in Nodes :
            r.at[q] = x <=> x \in r.nodes /\ q \in hashes[x]
  BY DEF Complete, Rings
<1>2. \A d \in Positions : Ahead(p, d) \in Positions
  BY WalkFacts
<1>3. ASSUME NEW d \in Positions
      PROVE  /\ NodeAt(r, p, d) \in r.nodes \cup {NoNode}
             /\ \A x \in Nodes : NodeAt(r, p, d) = x <=>
                   x \in r.nodes /\ Ahead(p, d) \in hashes[x]
  BY <1>1, <1>2 DEF NodeAt
<1> QED
  BY <1>1, <1>3, DistanceFacts

----------------------------------------------------------------------------
(* The replica loop.                                                       *)

\* Members are ranked by their distance: the member's distance has, among the
\* distances of S, the rank that the member has in S.
LEMMA DistanceRank ==
    ASSUME NEW hashes, Separate(hashes), NEW S \in SUBSET Nodes,
           NEW p \in Positions, NEW x \in S
    PROVE  LET taken == {Distance(hashes, y, p) : y \in S}
           IN  /\ taken \in SUBSET Int /\ IsFiniteSet(taken)
               /\ Cardinality(taken) = Cardinality(S)
               /\ Cardinality(Closer(hashes, S, x, p)) \in Nat
               /\ Rank(taken, Distance(hashes, x, p))
                    = Cardinality(Closer(hashes, S, x, p)) + 1
<1> DEFINE D(y)  == Distance(hashes, y, p)
           taken == {D(y) : y \in S}
           near  == Closer(hashes, S, x, p) \cup {x}
           d     == [y \in S |-> D(y)]
           e     == [y \in near |-> D(y)]
           upTo  == {m \in taken : m <= D(x)}
<1>1. /\ \A y \in S : D(y) \in Positions /\ D(y) \in Int
      /\ \A y, z \in S : D(y) = D(z) => y = z
  BY DistanceFacts, DistanceInjective, PositionsAreNumbers
<1>2. IsFiniteSet(S)
  BY NodesFinite, FS_Subset
<1>3. d \in Bijection(S, taken)
  BY <1>1 DEF Bijection, Injection, Surjection, IsInjective
<1>4. IsFiniteSet(taken) /\ Cardinality(taken) = Cardinality(S)
  <2>1. ExistsBijection(S, taken)
    BY <1>3 DEF ExistsBijection
  <2> QED
    BY <1>2, <2>1, FS_Bijection
<1>5. /\ near = {y \in S : D(y) <= D(x)}
      /\ x \notin Closer(hashes, S, x, p)
      /\ Closer(hashes, S, x, p) \in SUBSET S
  <2>1. ASSUME NEW y \in S, D(y) <= D(x) PROVE y \in near
    BY <1>1, <2>1 DEF Closer
  <2>2. ASSUME NEW y \in near PROVE y \in S /\ D(y) <= D(x)
    BY <1>1 DEF Closer
  <2>3. x \notin Closer(hashes, S, x, p)
    BY <1>1 DEF Closer
  <2> QED
    BY <2>1, <2>2, <2>3 DEF Closer
<1>6. /\ IsFiniteSet(near)
      /\ Cardinality(near) = Cardinality(Closer(hashes, S, x, p)) + 1
      /\ Cardinality(Closer(hashes, S, x, p)) \in Nat
  <2>1. IsFiniteSet(Closer(hashes, S, x, p))
    BY <1>2, <1>5, FS_Subset
  <2> QED
    BY <1>5, <2>1, FS_AddElement, FS_CardinalityType
<1>7. e \in Bijection(near, upTo)
  <2>1. near \subseteq S /\ \A y \in near : D(y) \in upTo
    BY <1>5
  <2>2. \A m \in upTo : \E y \in near : D(y) = m
    BY <1>5
  <2> QED
    BY <1>1, <2>1, <2>2 DEF Bijection, Injection, Surjection, IsInjective
<1>8. Cardinality(upTo) = Cardinality(near)
  <2>1. ExistsBijection(near, upTo)
    BY <1>7 DEF ExistsBijection
  <2> QED
    BY <1>6, <2>1, FS_Bijection
<1>9. Rank(taken, D(x)) = Cardinality(upTo)
  BY DEF Rank
<1> QED
  BY <1>1, <1>4, <1>6, <1>8, <1>9

\* getReplicaNodes's loop takes the members that it does not skip, nearest
\* first, and as many of them as it may.
LEMMA CollectFacts ==
    ASSUME NEW hashes, Separate(hashes), NEW r, Complete(r, hashes),
           NEW p \in Positions, NEW limit \in Nat, NEW skipped, NoNode \in skipped
    PROVE  NearestFirst(hashes, r.nodes \ skipped, p, limit,
                        Collect(r, p, limit, skipped))
<1> DEFINE S      == r.nodes \ skipped
           D(x)   == Distance(hashes, x, p)
           first(d) == \A x \in 0 .. d - 1 : NodeAt(r, p, x) # NodeAt(r, p, d)
           taken  == {d \in Positions : NodeAt(r, p, d) \notin skipped /\ first(d)}
           c      == Collect(r, p, limit, skipped)
           N      == Cardinality(taken)
           len    == IF N < limit THEN N ELSE limit
           n(x)   == Cardinality(Closer(hashes, S, x, p))
<1>1. S \in SUBSET Nodes
  BY DEF Complete, Rings
<1>2. taken = {D(x) : x \in S}
  <2>1. ASSUME NEW d \in taken
        PROVE  NodeAt(r, p, d) \in S /\ d = D(NodeAt(r, p, d))
    <3> DEFINE x == NodeAt(r, p, d)
    <3>1. x \in S /\ x \in Nodes
      BY <1>1, NodeAtFacts
    <3>2. Ahead(p, d) \in hashes[x]
      BY <3>1, NodeAtFacts
    <3>3. \A y \in 0 .. d - 1 : y \in Positions
      BY PositionsAreNumbers DEF Positions
    <3>4. \A y \in 0 .. d - 1 : Ahead(p, y) \notin hashes[x]
      BY <3>1, <3>3, NodeAtFacts
    <3> QED
      BY <3>1, <3>2, <3>4, DistanceUnique
  <2>2. ASSUME NEW x \in S PROVE D(x) \in taken
    <3>1. D(x) \in Positions /\ NodeAt(r, p, D(x)) = x
      BY <1>1, DistanceFacts, NodeAtFacts
    <3>2. ASSUME NEW y \in 0 .. D(x) - 1 PROVE NodeAt(r, p, y) # x
      <4>1. y \in Positions /\ y < D(x) /\ y \in Int /\ D(x) \in Int
        BY <3>1, PositionsAreNumbers DEF Positions
      <4>2. Ahead(p, y) \notin hashes[x]
        BY <1>1, <4>1, DistanceFacts
      <4> QED
        BY <1>1, <4>1, <4>2, NodeAtFacts
    <3> QED
      BY <3>1, <3>2
  <2> QED
    BY <2>1, <2>2
<1>3. c = [i \in 1 .. len |-> NodeAt(r, p, AtRank(taken, i))]
  BY DEF Collect, FirstTaken
<1> HIDE DEF taken, c
<1>4. /\ taken \in SUBSET Int /\ IsFiniteSet(taken) /\ N \in Nat
      /\ N = Cardinality(S)
      /\ \A x \in S : n(x) \in Nat /\ Rank(taken, D(x)) = n(x) + 1
  <2>1. IsFiniteSet(S) /\ Cardinality(S) \in Nat
    BY <1>1, NodesFinite, FS_Subset, FS_CardinalityType
  <2>2. CASE S = {}
    BY <1>2, <2>1, <2>2, FS_EmptySet
  <2>3. CASE S # {}
    <3>1. ASSUME NEW x \in S
          PROVE  /\ taken \in SUBSET Int /\ IsFiniteSet(taken)
                 /\ N = Cardinality(S)
                 /\ n(x) \in Nat /\ Rank(taken, D(x)) = n(x) + 1
      <4>1. LET t == {Distance(hashes, y, p) : y \in S}
            IN  /\ t \in SUBSET Int /\ IsFiniteSet(t)
                /\ Cardinality(t) = Cardinality(S)
                /\ Cardinality(Closer(hashes, S, x, p)) \in Nat
                /\ Rank(t, Distance(hashes, x, p))
                     = Cardinality(Closer(hashes, S, x, p)) + 1
        <5> HIDE DEF S
        <5> QED
          BY <1>1, <3>1, DistanceRank
      <4> QED
        BY <1>2, <4>1
    <3>2. \E x \in S : TRUE
      BY <2>3
    <3> QED
      BY <2>1, <3>1, <3>2
  <2> QED
    BY <2>2, <2>3
<1>5. /\ \A j \in 1 .. N : AtRank(taken, j) \in taken /\ Rank(taken, AtRank(taken, j)) = j
      /\ \A m \in taken : AtRank(taken, Rank(taken, m)) = m /\ Rank(taken, m) \in 1 .. N
  BY <1>4, AtRankFacts, RankFacts
<1>6. \A x \in S : NodeAt(r, p, D(x)) = x
  BY <1>1, NodeAtFacts
<1>7. ASSUME NEW i \in 1 .. len
      PROVE  c[i] \in S /\ n(c[i]) = i - 1
  <2>1. i \in 1 .. N /\ i \in Int
    BY <1>4
  <2>2. PICK x \in S : AtRank(taken, i) = D(x)
    BY <1>2, <1>5, <2>1
  <2>3. c[i] = x
    BY <1>3, <1>6, <2>2
  <2>4. n(x) = i - 1
    <3>1. n(x) + 1 = i /\ n(x) \in Int
      BY <1>4, <1>5, <2>1, <2>2
    <3> HIDE DEF n
    <3> QED
      BY <2>1, <3>1
  <2> HIDE DEF n, S
  <2> QED
    BY <2>3, <2>4
<1>8. ASSUME NEW x \in S, n(x) < limit
      PROVE  n(x) + 1 \in 1 .. len /\ c[n(x) + 1] = x
  <2>1. D(x) \in taken /\ n(x) \in Nat /\ Rank(taken, D(x)) = n(x) + 1
    BY <1>2, <1>4
  <2>2. n(x) + 1 \in 1 .. N /\ AtRank(taken, n(x) + 1) = D(x)
    BY <1>5, <2>1
  <2>3. n(x) + 1 \in 1 .. len
    BY <1>4, <1>8, <2>1, <2>2
  <2> QED
    BY <1>3, <1>6, <2>2, <2>3
<1>9. c \in Seq(S) /\ DOMAIN c = 1 .. len
  <2>1. c = [i \in 1 .. len |-> c[i]] /\ len \in Nat
    BY <1>3, <1>4
  <2>2. \A i \in 1 .. len : c[i] \in S
    BY <1>7
  <2> HIDE DEF len, S
  <2> QED
    BY <2>1, <2>2
<1>10. DOMAIN c = 1 .. (IF Cardinality(S) < limit THEN Cardinality(S) ELSE limit)
  BY <1>4, <1>9
<1> HIDE DEF S
<1> QED
  BY <1>4, <1>7, <1>8, <1>9, <1>10 DEF NearestFirst, c, S

\* Behind the place of x, every node that is farther than x is so much nearer.
LEMMA BehindFacts ==
    ASSUME NEW hashes, Separate(hashes), NEW p \in Positions,
           NEW x \in Nodes, NEW y \in Nodes,
           Distance(hashes, x, p) < Distance(hashes, y, p)
    PROVE  Distance(hashes, y, Ahead(Ahead(p, Distance(hashes, x, p)), 1))
             = Distance(hashes, y, p) - Distance(hashes, x, p) - 1
<1> DEFINE a == Distance(hashes, x, p)
           b == Distance(hashes, y, p)
           q == Ahead(Ahead(p, a), 1)
           e == b - a - 1
<1>1. /\ a \in Positions /\ b \in Positions
      /\ Ahead(p, b) \in hashes[y]
      /\ \A d \in Positions : Ahead(p, d) \in hashes[y] => b <= d
  BY DistanceFacts
<1> HIDE DEF a, b
<1>2. /\ RingSize \in Nat /\ a \in Nat /\ b \in Nat /\ a < b /\ b < RingSize
      /\ e \in Nat /\ e < RingSize
  BY <1>1, PositionsAreNumbers DEF a, b
<1>3. q \in Positions /\ q = Ahead(p, a + 1)
  <2>1. a + 1 \in Positions /\ a + 1 <= RingSize
    BY <1>2 DEF Positions
  <2>2. Ahead(p, a + 1) \in Positions
    BY <2>1, WalkFacts
  <2>3. q = Ahead(p, a + 1)
    BY <1>2, <2>1, StepsAdd
  <2> QED
    BY <2>2, <2>3
<1>4. ASSUME NEW f \in 0 .. e
      PROVE  a + 1 + f \in Positions /\ Ahead(q, f) = Ahead(p, a + 1 + f)
  <2>1. f \in Nat /\ a + 1 \in Nat /\ a + 1 + f <= RingSize /\ a + 1 + f \in 0 .. RingSize - 1
    BY <1>2
  <2>2. Ahead(Ahead(p, a + 1), f) = Ahead(p, a + 1 + f)
    BY <2>1, StepsAdd
  <2> QED
    BY <1>3, <2>1, <2>2 DEF Positions
<1>5. e \in Positions /\ Ahead(q, e) \in hashes[y]
  <2>1. e \in 0 .. e /\ a + 1 + e = b
    BY <1>2
  <2>2. Ahead(q, e) = Ahead(p, b)
    BY <1>4, <2>1
  <2> QED
    BY <1>1, <1>2, <2>2 DEF Positions
<1>6. ASSUME NEW f \in 0 .. e - 1 PROVE Ahead(q, f) \notin hashes[y]
  <2>1. f \in 0 .. e /\ ~ (b <= a + 1 + f)
    BY <1>2
  <2> QED
    BY <1>1, <1>4, <2>1
<1>7. e = Distance(hashes, y, q)
  BY <1>3, <1>5, <1>6, DistanceUnique
<1> QED
  BY <1>7 DEF a, b

----------------------------------------------------------------------------
(* The primary, and the nodes of a key.                                    *)

\* findPrimaryNodeIt finds a node exactly when a member is healthy, and then
\* the nearest healthy one, at its nearest place.
LEMMA PrimaryFacts ==
    ASSUME NEW hashes, Separate(hashes), NEW r, Complete(r, hashes),
           NEW p \in Positions, NEW failed
    PROVE  LET healthy == r.nodes \ failed
               place   == PrimaryPlace(r, p, failed)
               x       == r.at[place]
           IN  /\ HasPrimary(r, p, failed) <=> healthy # {}
               /\ healthy # {} =>
                     /\ x \in healthy
                     /\ place = Ahead(p, Distance(hashes, x, p))
                     /\ \A y \in healthy \ {x} :
                           Distance(hashes, x, p) < Distance(hashes, y, p)
<1> DEFINE healthy == r.nodes \ failed
           place   == PrimaryPlace(r, p, failed)
           H(d)    == HealthyAt(r, p, d, failed)
           T       == {d \in Positions : H(d)}
           steps   == CHOOSE d \in Positions : H(d) /\ \A z \in 0 .. d - 1 : ~H(z)
<1>1. r.nodes \in SUBSET Nodes /\ NoNode \notin Nodes
  BY RingAssumption DEF Complete, Rings
<1>2. \A d \in Positions : H(d) <=> NodeAt(r, p, d) \in healthy
  BY <1>1, NodeAtFacts DEF HealthyAt
<1>3. ASSUME NEW y \in healthy
      PROVE  Distance(hashes, y, p) \in Positions /\ H(Distance(hashes, y, p))
  BY <1>1, <1>2, DistanceFacts, NodeAtFacts
<1>4. HasPrimary(r, p, failed) <=> healthy # {}
  BY <1>2, <1>3 DEF HasPrimary
<1>5. ASSUME healthy # {}
      PROVE  LET x == r.at[place]
             IN  /\ x \in healthy
                 /\ place = Ahead(p, Distance(hashes, x, p))
                 /\ \A y \in healthy \ {x} :
                       Distance(hashes, x, p) < Distance(hashes, y, p)
  <2>1. T # {} /\ T \in SUBSET Nat
    BY <1>3, <1>5, PositionsAreNumbers
  <2>2. PICK m \in T : \A k \in T : m <= k
    BY <2>1, LeastNumber
  <2>3. \A z \in 0 .. m - 1 : ~H(z)
    <3>1. ASSUME NEW z \in 0 .. m - 1 PROVE z \in Positions /\ ~ (m <= z)
      BY <2>2, PositionsAreNumbers DEF Positions
    <3> QED
      BY <2>2, <3>1
  <2>4. steps \in Positions /\ H(steps) /\ \A z \in 0 .. steps - 1 : ~H(z)
    BY <2>2, <2>3
  <2>5. place = Ahead(p, steps)
    BY DEF PrimaryPlace
  <2> HIDE DEF steps, place, H
  <2> DEFINE x == r.at[place]
  <2>6. x = NodeAt(r, p, steps) /\ x \in healthy /\ x \in Nodes
    BY <1>1, <1>2, <2>4, <2>5 DEF NodeAt
  <2>7. steps = Distance(hashes, x, p)
    <3>1. Ahead(p, steps) \in hashes[x]
      BY <2>4, <2>6, NodeAtFacts
    <3>2. ASSUME NEW z \in 0 .. steps - 1 PROVE Ahead(p, z) \notin hashes[x]
      <4>1. z \in Positions
        BY <2>4, PositionsAreNumbers DEF Positions
      <4>2. NodeAt(r, p, z) # x
        BY <1>2, <2>4, <2>6, <4>1
      <4> QED
        BY <2>6, <4>1, <4>2, NodeAtFacts
    <3> QED
      BY <2>4, <2>6, <3>1, <3>2, DistanceUnique
  <2>8. ASSUME NEW y \in healthy \ {x}
        PROVE  Distance(hashes, x, p) < Distance(hashes, y, p)
    <3>1. /\ Distance(hashes, y, p) \in Positions
          /\ Distance(hashes, y, p) \notin 0 .. steps - 1
      BY <1>3, <2>4
    <3>2. Distance(hashes, y, p) # steps
      BY <1>1, <2>6, <2>7, DistanceInjective
    <3> QED
      BY <2>4, <2>7, <3>1, <3>2, PositionsAreNumbers
  <2> QED
    BY <2>5, <2>6, <2>7, <2>8
<1> QED
  BY <1>4, <1>5

\* getExpectedNodesForKey finds the healthy members nearest to the key.
LEMMA ExpectedFacts ==
    ASSUME NEW hashes, Separate(hashes), NEW r, Complete(r, hashes),
           NEW p \in Positions, NEW n \in Nat, NEW failed
    PROVE  NearestFirst(hashes, r.nodes \ failed, p, n + 1, ExpectedNodes(r, p, n, failed))
<1> DEFINE healthy == r.nodes \ failed
           place   == PrimaryPlace(r, p, failed)
           x       == r.at[place]
           rest    == healthy \ {x}
           q       == Ahead(place, 1)
           limit   == ReplicaLimit(r, n)
           skipped == {x, NoNode} \cup failed
           c       == Collect(r, q, limit, skipped)
           e       == ExpectedNodes(r, p, n, failed)
           card(y) == Cardinality(Closer(hashes, healthy, y, p))
<1>1. /\ r.nodes \in SUBSET Nodes /\ NoNode \notin Nodes
      /\ IsFiniteSet(r.nodes) /\ Cardinality(r.nodes) \in Nat
      /\ IsFiniteSet(healthy) /\ Cardinality(healthy) \in Nat
      /\ Cardinality(healthy) <= Cardinality(r.nodes)
  <2>1. r.nodes \in SUBSET Nodes /\ NoNode \notin Nodes
    BY RingAssumption DEF Complete, Rings
  <2>2. healthy \in SUBSET r.nodes
    OBVIOUS
  <2> QED
    BY <2>1, <2>2, NodesFinite, FS_Subset, FS_CardinalityType
<1>2. CASE healthy = {}
  <2>1. e = <<>>
    BY <1>2, PrimaryFacts DEF ExpectedNodes
  <2> HIDE DEF e, healthy
  <2>2. Cardinality(healthy) = 0
    BY <1>2, FS_EmptySet
  <2>3. DOMAIN e = {} /\ e \in Seq(healthy)
    BY <2>1
  <2>4. DOMAIN e = 1 .. (IF Cardinality(healthy) < n + 1 THEN Cardinality(healthy) ELSE n + 1)
    BY <2>2, <2>3
  <2> QED
    BY <1>2, <2>3, <2>4 DEF NearestFirst, e, healthy
<1>3. CASE healthy # {}
  <2>1. /\ e = <<x>> \o c
        /\ x \in healthy
        /\ place = Ahead(p, Distance(hashes, x, p))
        /\ \A y \in rest : Distance(hashes, x, p) < Distance(hashes, y, p)
    BY <1>3, PrimaryFacts DEF ExpectedNodes, GetReplicaNodes
  <2>2. Distance(hashes, x, p) \in Positions
    BY <1>1, <2>1, DistanceFacts
  <2>3. q \in Positions
    <3>1. place \in Positions
      BY <2>1, <2>2, WalkFacts
    <3> QED
      BY <3>1, OneStepFacts
  <2>4. /\ r.nodes \ skipped = rest
        /\ IsFiniteSet(rest)
        /\ Cardinality(rest) = Cardinality(healthy) - 1
    <3>1. r.nodes \ skipped = rest
      BY <1>1
    <3> HIDE DEF x, healthy
    <3>2. IsFiniteSet(rest) /\ Cardinality(rest) = Cardinality(healthy) - 1
      BY <1>1, <2>1, FS_RemoveElement
    <3> QED
      BY <3>1, <3>2
  <2>5. /\ limit \in Nat
        /\ (IF Cardinality(rest) < limit THEN Cardinality(rest) ELSE limit)
             = (IF Cardinality(rest) < n THEN Cardinality(rest) ELSE n)
        /\ \A k \in Int : k < Cardinality(rest) /\ k < n => k < limit
    <3> HIDE DEF rest, healthy
    <3>1. Cardinality(rest) \in Nat
      BY <2>4, FS_CardinalityType
    <3> QED
      BY <1>1, <2>4, <3>1 DEF ReplicaLimit
  <2>6. ASSUME NEW y \in rest
        PROVE  /\ card(y) \in Nat /\ card(y) # 0
               /\ Cardinality(Closer(hashes, rest, y, q)) = card(y) - 1
               /\ card(y) <= Cardinality(rest)
    <3> DEFINE D(z) == Distance(hashes, z, p)
               a    == D(x)
    <3>1. \A z \in healthy : D(z) \in Int
      BY <1>1, DistanceFacts, PositionsAreNumbers
    <3>2. \A z \in rest : Distance(hashes, z, q) = D(z) - a - 1
      BY <1>1, <2>1, BehindFacts
    <3> HIDE DEF D, q
    <3>3. Closer(hashes, rest, y, q) = Closer(hashes, healthy, y, p) \ {x}
      <4>1. \A z \in rest : Distance(hashes, z, q) < Distance(hashes, y, q) <=> D(z) < D(y)
        BY <2>1, <3>1, <3>2
      <4>2. Closer(hashes, rest, y, q) = {z \in rest : Distance(hashes, z, q) < Distance(hashes, y, q)}
        BY DEF Closer
      <4>3. Closer(hashes, healthy, y, p) = {z \in healthy : D(z) < D(y)}
        BY DEF Closer, D
      <4> QED
        BY <4>1, <4>2, <4>3
    <3>4. /\ x \in Closer(hashes, healthy, y, p)
          /\ Closer(hashes, healthy, y, p) \in SUBSET healthy
      BY <2>1 DEF Closer
    <3>5. IsFiniteSet(Closer(hashes, healthy, y, p)) /\ card(y) \in Nat
      BY <1>1, <3>4, FS_Subset, FS_CardinalityType
    <3>6. Cardinality(Closer(hashes, rest, y, q)) = card(y) - 1
      <4> DEFINE G == Closer(hashes, healthy, y, p)
      <4> HIDE DEF x, healthy, rest, G
      <4>1. x \in G /\ IsFiniteSet(G)
        BY <3>4, <3>5 DEF G
      <4>2. Cardinality(G \ {x}) = Cardinality(G) - 1
        BY <4>1, FS_RemoveElement
      <4> QED
        BY <3>3, <4>2 DEF G
    <3>7. card(y) # 0
      BY <3>4, <3>5, FS_EmptySet
    <3>8. card(y) <= Cardinality(rest)
      <4>1. Closer(hashes, healthy, y, p) \in SUBSET (healthy \ {y})
        BY <3>1 DEF Closer, D
      <4>2. IsFiniteSet(healthy \ {y}) /\ Cardinality(healthy \ {y}) = Cardinality(healthy) - 1
        BY <1>1, FS_RemoveElement
      <4> QED
        BY <2>4, <4>1, <4>2, FS_Subset
    <3> QED
      BY <3>5, <3>6, <3>7, <3>8
  <2>7. /\ DOMAIN c = 1 .. (IF Cardinality(rest) < n THEN Cardinality(rest) ELSE n)
        /\ c \in Seq(rest)
        /\ \A i \in DOMAIN c : Cardinality(Closer(hashes, rest, c[i], q)) = i - 1
        /\ \A y \in rest : LET k == Cardinality(Closer(hashes, rest, y, q))
                           IN  k < limit => k + 1 \in DOMAIN c /\ c[k + 1] = y
    <3>1. NoNode \in skipped
      OBVIOUS
    <3>2. limit \in Nat
      BY <2>5
    <3> HIDE DEF skipped, limit, q
    <3>3. NearestFirst(hashes, r.nodes \ skipped, q, limit, c)
      BY <2>3, <3>1, <3>2, CollectFacts
    <3> HIDE DEF rest, c
    <3>4. NearestFirst(hashes, rest, q, limit, c)
      BY <2>4, <3>3
    <3> QED
      BY <2>5, <3>4 DEF NearestFirst
  <2> HIDE DEF x, q, limit, e, place
  <2>8. card(x) = 0
    <3>1. Closer(hashes, healthy, x, p) = {}
      <4>1. \A y \in healthy : Distance(hashes, y, p) \in Int
        BY <1>1, DistanceFacts, PositionsAreNumbers
      <4> QED
        BY <2>1, <4>1 DEF Closer
    <3> QED
      BY <3>1, FS_EmptySet
  <2> DEFINE m == IF Cardinality(rest) < n THEN Cardinality(rest) ELSE n
  <2>9. /\ m \in Nat
        /\ DOMAIN c = 1 .. m
        /\ m + 1 = IF Cardinality(healthy) < n + 1 THEN Cardinality(healthy) ELSE n + 1
    <3>1. DOMAIN c = 1 .. m
      BY <2>7
    <3> HIDE DEF rest, healthy, c
    <3>2. Cardinality(rest) \in Nat
      BY <2>4, FS_CardinalityType
    <3> QED
      BY <1>1, <2>4, <3>1, <3>2
  <2>10. c \in Seq(healthy) /\ Len(c) = m
    <3> HIDE DEF c, m
    <3> QED
      BY <2>7, <2>9
  <2> HIDE DEF c, m
  <2>11. /\ e \in Seq(healthy)
         /\ DOMAIN e = 1 .. m + 1
         /\ e[1] = x
         /\ \A i \in 1 .. m : e[i + 1] = c[i]
    BY <2>1, <2>9, <2>10
  <2>12. ASSUME NEW i \in DOMAIN e PROVE card(e[i]) = i - 1
    <3>1. CASE i = 1
      BY <2>8, <2>11, <3>1
    <3>2. CASE i # 1
      <4>1. i - 1 \in 1 .. m /\ e[i] = c[i - 1]
        <5>1. i - 1 \in 1 .. m /\ (i - 1) + 1 = i
          BY <2>9, <2>11, <3>2
        <5> QED
          BY <2>11, <5>1
      <4>2. /\ c[i - 1] \in rest
            /\ Cardinality(Closer(hashes, rest, c[i - 1], q)) = i - 1 - 1
        <5> HIDE DEF rest
        <5>1. i - 1 \in DOMAIN c
          BY <2>9, <4>1
        <5>2. c \in Seq(rest)
          BY <2>7
        <5>3. c[i - 1] \in rest
          BY <5>1, <5>2
        <5> QED
          BY <2>7, <5>1, <5>3
      <4>3. card(c[i - 1]) \in Nat /\ card(c[i - 1]) - 1 = i - 1 - 1
        BY <2>6, <4>2
      <4> HIDE DEF card
      <4> QED
        BY <2>11, <4>1, <4>3
    <3> QED
      BY <3>1, <3>2
  <2>13. ASSUME NEW y \in healthy
         PROVE  /\ card(y) \in Nat
                /\ card(y) < n + 1 => card(y) + 1 \in DOMAIN e /\ e[card(y) + 1] = y
    <3>1. CASE y = x
      BY <2>8, <2>9, <2>11, <3>1
    <3>2. CASE y # x
      <4>1. /\ y \in rest /\ card(y) \in Nat /\ card(y) # 0
            /\ Cardinality(Closer(hashes, rest, y, q)) = card(y) - 1
            /\ card(y) <= Cardinality(rest)
        BY <2>6, <3>2
      <4>2. ASSUME card(y) < n + 1
            PROVE  card(y) + 1 \in DOMAIN e /\ e[card(y) + 1] = y
        <5> DEFINE k == card(y)
        <5>1. k - 1 < limit
          BY <2>4, <2>5, <1>1, <4>1, <4>2
        <5>2. (k - 1) + 1 \in DOMAIN c /\ c[(k - 1) + 1] = y
          BY <2>7, <4>1, <5>1
        <5>3. (k - 1) + 1 = k /\ k \in Int
          BY <4>1
        <5> HIDE DEF k
        <5>4. k \in 1 .. m /\ c[k] = y
          BY <2>9, <5>2, <5>3
        <5>5. k + 1 \in 1 .. m + 1
          BY <2>9, <5>4
        <5> QED
          BY <2>11, <5>4, <5>5 DEF k
      <4> QED
        BY <4>1, <4>2
    <3> QED
      BY <3>1, <3>2
  <2> HIDE DEF card, healthy
  <2>14. DOMAIN e = 1 .. (IF Cardinality(healthy) < n + 1 THEN Cardinality(healthy) ELSE n + 1)
    BY <2>9, <2>11
  <2> QED
    BY <2>11, <2>12, <2>13, <2>14 DEF NearestFirst, healthy, card, e
<1> QED
  BY <1>2, <1>3

\* Its elements are those with fewer than limit others before them, and being
\* closer orders them.
LEMMA NearestFirstElements ==
    ASSUME NEW hashes, NEW S, IsFiniteSet(S), NEW p, NEW limit \in Nat, NEW e,
           NearestFirst(hashes, S, p, limit, e)
    PROVE  /\ \A y : y \in Elements(e) <=> y \in Nearby(hashes, S, p, limit)
           /\ Len(e) \in Nat /\ DOMAIN e = 1 .. Len(e)
           /\ \A i \in DOMAIN e : e[i] \in S /\ i - 1 < limit
<1> DEFINE card(x) == Cardinality(Closer(hashes, S, x, p))
           len     == IF Cardinality(S) < limit THEN Cardinality(S) ELSE limit
<1>1. /\ e \in Seq(S) /\ DOMAIN e = 1 .. len
      /\ \A i \in DOMAIN e : card(e[i]) = i - 1
      /\ \A x \in S : card(x) \in Nat /\ (card(x) < limit => card(x) + 1 \in DOMAIN e
                                                   /\ e[card(x) + 1] = x)
  BY DEF NearestFirst
<1>2. Cardinality(S) \in Nat
  BY FS_CardinalityType
<1>3. len \in Nat /\ len <= limit
  BY <1>2
<1> HIDE DEF len, card
<1>4. Len(e) = len /\ Len(e) \in Nat /\ DOMAIN e = 1 .. Len(e)
  BY <1>1, <1>3
<1>5. \A i \in DOMAIN e : e[i] \in S
  <2>1. e \in Seq(S)
    BY <1>1
  <2> QED
    BY <2>1
<1>6. \A i \in DOMAIN e : i \in Int /\ i - 1 < limit
  BY <1>1, <1>3
<1>7. Elements(e) = Nearby(hashes, S, p, limit)
  <2>1. ASSUME NEW y \in Elements(e) PROVE y \in S /\ card(y) < limit
    BY <1>1, <1>5, <1>6 DEF Elements
  <2>2. ASSUME NEW y \in S, card(y) < limit PROVE y \in Elements(e)
    BY <1>1, <2>2 DEF Elements
  <2> QED
    BY <2>1, <2>2 DEF Nearby, card
<1> QED
  BY <1>3, <1>4, <1>5, <1>6, <1>7

\* The nodes of a key, as a set.
LEMMA ExpectedMembers ==
    ASSUME NEW hashes, Separate(hashes), NEW r, Complete(r, hashes),
           NEW p \in Positions, NEW n \in Nat, NEW failed
    PROVE  LET e       == ExpectedNodes(r, p, n, failed)
               healthy == r.nodes \ failed
           IN  /\ Elements(e) = Nearby(hashes, healthy, p, n + 1)
               /\ Len(e) \in Nat /\ DOMAIN e = 1 .. Len(e)
               /\ \A i \in DOMAIN e : e[i] \in healthy
               /\ \A x \in healthy : Len(e) # 0
<1> DEFINE e       == ExpectedNodes(r, p, n, failed)
           healthy == r.nodes \ failed
           limit   == n + 1
<1>1. NearestFirst(hashes, healthy, p, limit, e)
  BY ExpectedFacts
<1>2. IsFiniteSet(healthy)
  <2>1. healthy \in SUBSET Nodes
    BY DEF Complete, Rings
  <2> QED
    BY <2>1, NodesFinite, FS_Subset
<1>3. limit \in Nat /\ limit # 0
  OBVIOUS
<1> HIDE DEF e, healthy, limit
<1>4. \A y : y \in Elements(e) <=> y \in Nearby(hashes, healthy, p, limit)
  BY <1>1, <1>2, <1>3, NearestFirstElements
<1>5. Len(e) \in Nat /\ DOMAIN e = 1 .. Len(e)
  BY <1>1, <1>2, <1>3, NearestFirstElements
<1>6. ASSUME NEW i \in DOMAIN e PROVE e[i] \in healthy
  BY <1>1, <1>2, <1>3, NearestFirstElements
<1>7. Len(e) = 0 => healthy = {}
  <2>1. DOMAIN e = 1 .. (IF Cardinality(healthy) < limit THEN Cardinality(healthy)
                                                         ELSE limit)
    BY <1>1 DEF NearestFirst
  <2>2. Cardinality(healthy) \in Nat
    BY <1>2, FS_CardinalityType
  <2>3. Len(e) = 0 => Cardinality(healthy) = 0
    BY <1>3, <1>5, <2>1, <2>2
  <2> QED
    BY <1>2, <2>3, FS_EmptySet
<1>8. Elements(e) = Nearby(hashes, healthy, p, limit)
  BY <1>4
<1>9. \A x \in healthy : Len(e) # 0
  BY <1>7
<1> QED
  BY <1>5, <1>6, <1>8, <1>9 DEF e, healthy, limit

\* When x goes, the others stay in the list and in its order, and what is
\* added is added at the end.
LEMMA LossKeepsOrder ==
    ASSUME NEW hashes, Separate(hashes), NEW S \in SUBSET Nodes,
           NEW p \in Positions, NEW limit \in Nat, NEW x,
           NEW s, NearestFirst(hashes, S, p, limit, s),
           NEW t, NearestFirst(hashes, S \ {x}, p, limit, t)
    PROVE  Prefix(Without(s, {x}), t)
<1> DEFINE R       == S \ {x}
           C(y)    == Closer(hashes, S, y, p)
           K(y)    == Closer(hashes, R, y, p)
           D(y)    == Distance(hashes, y, p)
           I       == Kept(s, {x})
           w       == Without(s, {x})
<1>1. IsFiniteSet(S) /\ IsFiniteSet(R)
  <2>1. R \in SUBSET Nodes
    OBVIOUS
  <2> QED
    BY <2>1, NodesFinite, FS_Subset
<1>2. /\ \A y \in S : D(y) \in Int
      /\ \A y, z \in S : D(y) = D(z) => y = z
  BY DistanceFacts, DistanceInjective, PositionsAreNumbers
<1>3. /\ \A i \in DOMAIN s : s[i] \in S /\ Cardinality(C(s[i])) = i - 1 /\ i - 1 < limit
      /\ \A y \in S : LET k == Cardinality(C(y))
                      IN  k \in Nat /\ (k < limit => k + 1 \in DOMAIN s /\ s[k + 1] = y)
      /\ Len(s) \in Nat /\ DOMAIN s = 1 .. Len(s)
  <2>1. /\ \A i \in DOMAIN s : Cardinality(C(s[i])) = i - 1
        /\ \A y \in S : LET k == Cardinality(C(y))
                        IN  k \in Nat /\ (k < limit => k + 1 \in DOMAIN s /\ s[k + 1] = y)
    BY DEF NearestFirst
  <2> HIDE DEF R, I, w, C, K, D
  <2>2. /\ Len(s) \in Nat /\ DOMAIN s = 1 .. Len(s)
        /\ \A i \in DOMAIN s : s[i] \in S /\ i - 1 < limit
    <3>1. IsFiniteSet(S)
      BY <1>1
    <3>2. Len(s) \in Nat /\ DOMAIN s = 1 .. Len(s)
      BY <3>1, NearestFirstElements
    <3>3. ASSUME NEW i \in DOMAIN s PROVE s[i] \in S
      BY <3>1, NearestFirstElements
    <3>4. ASSUME NEW i \in DOMAIN s PROVE i - 1 < limit
      BY <3>1, NearestFirstElements
    <3> QED
      BY <3>2, <3>3, <3>4
  <2> HIDE DEF C
  <2> QED
    BY <2>1, <2>2
<1>4. /\ \A y \in R : LET k == Cardinality(K(y))
                      IN  k \in Nat /\ (k < limit => k + 1 \in DOMAIN t /\ t[k + 1] = y)
      /\ Len(t) \in Nat /\ DOMAIN t = 1 .. Len(t)
  <2>1. \A y \in R : LET k == Cardinality(K(y))
                    IN  k \in Nat /\ (k < limit => k + 1 \in DOMAIN t /\ t[k + 1] = y)
    BY DEF NearestFirst
  <2>2. NearestFirst(hashes, R, p, limit, t)
    OBVIOUS
  <2> HIDE DEF R
  <2>3. Len(t) \in Nat /\ DOMAIN t = 1 .. Len(t)
    BY <1>1, <2>2, NearestFirstElements
  <2> QED
    BY <2>1, <2>3
<1>5. \A y, z \in S : /\ IsFiniteSet(C(y))
                      /\ C(y) \in SUBSET S
                      /\ z \in C(y) <=> D(z) < D(y)
  <2>1. \A y, z \in S : C(y) \in SUBSET S /\ (z \in C(y) <=> D(z) < D(y))
    BY DEF Closer
  <2> QED
    BY <1>1, <2>1, FS_Subset
<1> HIDE DEF C, D
\* Nearer means earlier in the list.
<1>6. ASSUME NEW y \in S, NEW z \in S, D(z) < D(y)
      PROVE  Cardinality(C(z)) < Cardinality(C(y))
  <2>1. C(z) \in SUBSET C(y) /\ z \in C(y) /\ z \notin C(z)
    BY <1>2, <1>5, <1>6
  <2>2. Cardinality(C(z)) <= Cardinality(C(y)) /\ Cardinality(C(z)) # Cardinality(C(y))
    BY <1>5, <2>1, FS_Subset
  <2> QED
    BY <1>3, <2>2
<1>7. I \in SUBSET Int /\ IsFiniteSet(I) /\ I \in SUBSET DOMAIN s
  <2>1. I \in SUBSET (1 .. Len(s)) /\ IsFiniteSet(1 .. Len(s))
    BY <1>3, FS_Interval DEF Kept
  <2>2. IsFiniteSet(I)
    <3> HIDE DEF I
    <3> QED
      BY <2>1, FS_Subset
  <2> HIDE DEF I
  <2> QED
    BY <1>3, <2>1, <2>2
<1>8. /\ w = [j \in 1 .. Cardinality(I) |-> s[AtRank(I, j)]]
      /\ \A j \in 1 .. Cardinality(I) : AtRank(I, j) \in I /\ Rank(I, AtRank(I, j)) = j
      /\ Cardinality(I) \in Nat
  BY <1>7, AtRankFacts, RankFacts DEF Without
<1>9. \A i \in DOMAIN s : i \in I <=> s[i] # x
  BY DEF Kept
<1> HIDE DEF w, I
<1>10. ASSUME NEW j \in 1 .. Cardinality(I)
       PROVE  j \in DOMAIN t /\ w[j] = t[j]
  <2> DEFINE i     == AtRank(I, j)
             y     == s[i]
             upTo  == {m \in I : m <= i}
             near  == K(y) \cup {y}
             f     == [m \in upTo |-> s[m]]
  <2>1. /\ i \in I /\ i \in DOMAIN s /\ i \in Int /\ Cardinality(upTo) = j
        /\ y \in R /\ y \in S /\ w[j] = y
    BY <1>3, <1>7, <1>8, <1>9 DEF Rank
  <2> HIDE DEF i
  <2>2. /\ K(y) = C(y) \ {x}
        /\ y \notin C(y)
        /\ near \in SUBSET S
        /\ \A z \in near : z \in R /\ (D(z) < D(y) \/ z = y)
    <3>1. K(y) = C(y) \ {x}
      BY DEF C, Closer
    <3>2. y \notin C(y)
      BY <1>2, <1>5, <2>1
    <3> QED
      BY <1>5, <2>1, <3>1, <3>2
  <2>3. ASSUME NEW m \in upTo PROVE m \in DOMAIN s /\ m \in Int /\ s[m] \in near
    <3>1. m \in DOMAIN s /\ m \in Int /\ s[m] \in R /\ s[m] \in S
      BY <1>3, <1>7, <1>9
    <3>2. Cardinality(C(s[m])) = m - 1 /\ Cardinality(C(y)) = i - 1
      BY <1>3, <2>1, <3>1
    <3>3. ~ (D(y) < D(s[m]))
      BY <1>6, <2>1, <3>1, <3>2
    <3>4. D(s[m]) < D(y) \/ s[m] = y
      BY <1>2, <2>1, <3>1, <3>3
    <3> QED
      BY <1>5, <2>1, <2>2, <3>1, <3>4
  <2>4. ASSUME NEW z \in near PROVE \E m \in upTo : s[m] = z
    <3>1. z \in S /\ z \in R /\ (D(z) < D(y) \/ z = y)
      BY <2>2
    <3>2. Cardinality(C(z)) <= Cardinality(C(y)) /\ Cardinality(C(z)) \in Nat
      BY <1>3, <1>6, <2>1, <3>1
    <3>3. Cardinality(C(y)) = i - 1 /\ i - 1 < limit
      BY <1>3, <2>1
    <3> DEFINE m == Cardinality(C(z)) + 1
    <3>4. m \in DOMAIN s /\ s[m] = z /\ m <= i
      BY <1>3, <2>1, <3>1, <3>2, <3>3
    <3>5. m \in upTo
      BY <1>9, <3>1, <3>4
    <3> QED
      BY <3>4, <3>5
  <2>5. \A m, k \in upTo : s[m] = s[k] => m = k
    <3>1. \A m \in upTo : m \in Int /\ Cardinality(C(s[m])) = m - 1
      BY <1>3, <2>3
    <3> QED
      BY <3>1
  <2>6. f \in Bijection(upTo, near)
    BY <2>3, <2>4, <2>5 DEF Bijection, Injection, Surjection, IsInjective
  <2>7. IsFiniteSet(upTo) /\ Cardinality(upTo) = Cardinality(near)
    <3>1. IsFiniteSet(upTo)
      BY <1>7, FS_Subset
    <3>2. ExistsBijection(upTo, near)
      BY <2>6 DEF ExistsBijection
    <3> QED
      BY <3>1, <3>2, FS_Bijection
  <2>8. Cardinality(near) = Cardinality(K(y)) + 1
    <3>1. IsFiniteSet(K(y)) /\ y \notin K(y)
      BY <1>5, <2>1, <2>2, FS_Subset
    <3> QED
      BY <3>1, FS_AddElement
  <2>9. Cardinality(K(y)) < limit
    <3>1. Cardinality(K(y)) <= Cardinality(C(y))
      BY <1>5, <2>1, <2>2, FS_Subset
    <3>2. Cardinality(C(y)) < limit /\ Cardinality(C(y)) \in Nat
      BY <1>3, <2>1
    <3>3. Cardinality(K(y)) \in Nat
      BY <1>4, <2>1
    <3> QED
      BY <3>1, <3>2, <3>3
  <2>10. Cardinality(K(y)) + 1 = j
    BY <2>1, <2>7, <2>8
  <2> HIDE DEF y, K, near, upTo
  <2> QED
    BY <1>4, <2>1, <2>9, <2>10
<1>11. Len(w) = Cardinality(I) /\ DOMAIN w = 1 .. Cardinality(I)
  BY <1>8
<1>12. Cardinality(I) <= Len(t)
  <2>1. CASE Cardinality(I) = 0
    BY <1>4, <2>1
  <2>2. CASE Cardinality(I) # 0
    <3>1. Cardinality(I) \in 1 .. Cardinality(I)
      BY <1>8, <2>2
    <3> QED
      BY <1>4, <1>8, <1>10, <3>1
  <2> QED
    BY <2>1, <2>2
<1> QED
  BY <1>10, <1>11, <1>12 DEF w, Prefix

\* getReplicaNodes(key, n) without failed nodes finds as many nodes as it
\* waits for.
LEMMA WalkEndsFacts ==
    ASSUME NEW hashes, Separate(hashes), NEW r, Complete(r, hashes),
           NEW p \in Positions, NEW n \in Nat
    PROVE  WalkEnds(r, p, n)
<1> SUFFICES ASSUME HasPrimary(r, p, {})
             PROVE  Len(KeyReplicas(r, p, n)) = ReplicaLimit(r, n)
  BY DEF WalkEnds
<1> DEFINE place == PrimaryPlace(r, p, {})
           x     == r.at[place]
           rest  == r.nodes \ {x}
           q     == Ahead(place, 1)
           limit == ReplicaLimit(r, n)
           c     == Collect(r, q, limit, {x, NoNode})
<1>1. /\ x \in r.nodes
      /\ place = Ahead(p, Distance(hashes, x, p))
  BY PrimaryFacts
<1>2. r.nodes \in SUBSET Nodes /\ NoNode \notin Nodes /\ IsFiniteSet(r.nodes)
  <2>1. r.nodes \in SUBSET Nodes /\ NoNode \notin Nodes
    BY RingAssumption DEF Complete, Rings
  <2> QED
    BY <2>1, NodesFinite, FS_Subset
<1>3. q \in Positions
  <2>1. Distance(hashes, x, p) \in Positions
    BY <1>1, <1>2, DistanceFacts
  <2>2. place \in Positions
    BY <1>1, <2>1, WalkFacts
  <2> QED
    BY <2>2, OneStepFacts
<1>4. /\ r.nodes \ {x, NoNode} = rest
      /\ IsFiniteSet(rest) /\ Cardinality(rest) \in Nat
      /\ Cardinality(rest) = Cardinality(r.nodes) - 1
      /\ Cardinality(r.nodes) \in Nat
  <2>1. r.nodes \ {x, NoNode} = rest
    BY <1>2
  <2> HIDE DEF x
  <2> QED
    BY <1>1, <1>2, <2>1, FS_RemoveElement, FS_CardinalityType
<1>5. KeyReplicas(r, p, n) = c
  <2>1. {x, NoNode} \cup {} = {x, NoNode}
    OBVIOUS
  <2> QED
    BY <2>1 DEF KeyReplicas, GetReplicaNodes
<1> HIDE DEF x, place, q
<1>6. limit \in Nat /\ limit <= Cardinality(rest)
  BY <1>4 DEF ReplicaLimit
<1> HIDE DEF limit
<1>7. NearestFirst(hashes, rest, q, limit, c)
  <2>1. NearestFirst(hashes, r.nodes \ {x, NoNode}, q, limit, c)
    BY <1>3, <1>6, CollectFacts
  <2> HIDE DEF c, rest
  <2> QED
    BY <1>4, <2>1
<1>8. c \in Seq(rest) /\ DOMAIN c = 1 .. limit
  <2> HIDE DEF c, rest
  <2> QED
    BY <1>4, <1>6, <1>7 DEF NearestFirst
<1> HIDE DEF c
<1> QED
  BY <1>5, <1>6, <1>8 DEF limit
=============================================================================
