--------------------------- MODULE Cluster_proofs ---------------------------
(***************************************************************************)
(* Proofs about DistributedCache, its anti-entropy service and the copies  *)
(* of keys, for any number of nodes, virtual nodes, keys and shards, any   *)
(* capacity, policy and replication factor, and every hash function that   *)
(* gives no two nodes the same position.                                   *)
(*                                                                         *)
(* What the lookups find is shown in HashRing_proofs, what the operations  *)
(* do to a shard in Shard_proofs.                                          *)
(***************************************************************************)
EXTENDS AntiEntropy, ClusterCopies, HashRing_proofs, Shard_proofs

----------------------------------------------------------------------------
(* One node's cache.                                                       *)

\* The shards and caches that occur: no shard exceeds its capacity.
GoodShards == {sh \in ShardStates : Bounded(sh)}
GoodCaches == [Shards -> GoodShards]

\* getShard names a shard of every cache.
LEMMA ShardForFacts ==
    ASSUME NEW k \in Keys
    PROVE  /\ ShardOf[k] \in Shards
           /\ \A c \in GoodCaches :
                 /\ ShardFor(c, k) \in ShardStates
                 /\ ShardFor(c, k) \in GoodShards
                 /\ EntryOf(c, k) \in Entry \cup {NoEntry}
<1>1. ShardOf[k] \in Shards
  BY ShardAssumption DEF Shards
<1>2. ASSUME NEW c \in GoodCaches
      PROVE  ShardFor(c, k) \in GoodShards /\ ShardFor(c, k) \in ShardStates
  BY <1>1 DEF GoodCaches, GoodShards, ShardFor
<1> QED
  BY <1>1, <1>2 DEF EntryOf, ShardStates

\* A new cache, and that caches are no NoCache.
LEMMA NewCacheFacts ==
    /\ NewCache \in GoodCaches
    /\ GoodCaches \subseteq Caches
    /\ NoCache \notin GoodCaches
<1>1. NewShard \in GoodShards
  BY NewShardFacts DEF GoodShards
<1>2. GoodCaches \subseteq Caches
  BY DEF GoodCaches, GoodShards, Caches
<1> QED
  BY <1>1, <1>2, NoCacheAssumption DEF NewCache, GoodCaches

\* Putting a good shard in the place of another leaves a good cache.
LEMMA ExceptFacts ==
    ASSUME NEW c \in GoodCaches, NEW k \in Keys, NEW sh \in GoodShards
    PROVE  /\ [c EXCEPT ![ShardOf[k]] = sh] \in GoodCaches
           /\ ShardFor([c EXCEPT ![ShardOf[k]] = sh], k) = sh
BY ShardForFacts DEF GoodCaches, ShardFor

\* set and setWithTtl.
LEMMA PutInFacts ==
    ASSUME NEW c \in GoodCaches, NEW k \in Keys, NEW e \in Entry,
           CanCount(ShardFor(c, k).pol, k)
    PROVE  PutIn(c, k, e) \in GoodCaches
<1>1. PutIn(c, k, e) = [c EXCEPT ![ShardOf[k]] = Put(ShardFor(c, k), k, e).shard]
  BY DEF PutIn, ShardFor
<1>2. ShardFor(c, k) \in ShardStates /\ Bounded(ShardFor(c, k))
  BY ShardForFacts DEF GoodShards
<1> DEFINE new == Put(ShardFor(c, k), k, e).shard
<1>3. new \in GoodShards
  BY <1>2, PutFacts DEF GoodShards
<1> HIDE DEF new
<1>4. [c EXCEPT ![ShardOf[k]] = new] \in GoodCaches
  BY <1>3, ExceptFacts
<1> QED
  BY <1>1, <1>4 DEF new

\* get and getValueWithTtl; one that finds no live entry counts no access.
LEMMA GetInFacts ==
    ASSUME NEW c \in GoodCaches, NEW k \in Keys, NEW t,
           CanCount(ShardFor(c, k).pol, k)
    PROVE  LET read == [c EXCEPT ![ShardOf[k]] = Get(@, k, t).shard]
           IN  /\ read \in GoodCaches
               /\ ShardFor(read, k) = Get(ShardFor(c, k), k, t).shard
               /\ ~Exists(ShardFor(c, k), k, t) =>
                     CanCount(ShardFor(read, k).pol, k)
<1> DEFINE sh   == ShardFor(c, k)
           read == [c EXCEPT ![ShardOf[k]] = Get(@, k, t).shard]
<1>1. sh \in ShardStates /\ Bounded(sh) /\ sh.pol \in PolicyStates
  BY ShardForFacts DEF GoodShards, ShardStates
<1>2. Get(sh, k, t).shard \in GoodShards
  BY <1>1, GetFacts DEF GoodShards
<1>3. read = [c EXCEPT ![ShardOf[k]] = Get(sh, k, t).shard]
  BY DEF ShardFor
<1>4. read \in GoodCaches /\ ShardFor(read, k) = Get(sh, k, t).shard
  BY <1>2, <1>3, ExceptFacts
<1>5. ~Exists(sh, k, t) => CanCount(Get(sh, k, t).shard.pol, k)
  BY <1>1, CountFacts DEF Exists, Get, Delete
<1> QED
  BY <1>4, <1>5

\* del
LEMMA DeleteInFacts ==
    ASSUME NEW c \in GoodCaches, NEW k \in Keys
    PROVE  [c EXCEPT ![ShardOf[k]] = Delete(@, k)] \in GoodCaches
<1>1. ShardFor(c, k) \in ShardStates /\ Bounded(ShardFor(c, k))
  BY ShardForFacts DEF GoodShards
<1>2. Delete(ShardFor(c, k), k) \in GoodShards
  BY <1>1, RemovalFacts DEF Delete, GoodShards
<1>3. [c EXCEPT ![ShardOf[k]] = Delete(@, k)]
        = [c EXCEPT ![ShardOf[k]] = Delete(ShardFor(c, k), k)]
  BY DEF ShardFor
<1> QED
  BY <1>2, <1>3, ExceptFacts

\* The entries that set, setWithTtl, repairKey and removeNode write.
LEMMA WrittenFacts ==
    ASSUME now \in 0 .. MaxTime
    PROVE  /\ \A x \in Values : Immortal(x) \in Entry
           /\ \A x \in Values, ttl \in Int : Mortal(x, ttl, now) \in Entry
           /\ \A e \in Entry : RemainingSeconds(e, now) \in Int
                                  \/ e.expiry = NoExpiry
           /\ \A e \in Entry : RepairEntry(e) \in Entry
<1>1. now \in Int /\ TicksPerSecond \in Nat \ {0}
  BY ShardAssumption
<1>2. \A x \in Values : Immortal(x) \in Entry
  BY DEF Immortal, Entry
<1>3. ASSUME NEW x \in Values, NEW ttl \in Int
      PROVE  Mortal(x, ttl, now) \in Entry
  <2>1. now + ttl * TicksPerSecond \in Int
    BY <1>1
  <2> QED
    BY <2>1 DEF Mortal, Entry
<1>4. ASSUME NEW e \in Entry, e.expiry # NoExpiry
      PROVE  RemainingSeconds(e, now) \in Int
  <2>1. e.expiry \in Int
    BY <1>4 DEF Entry
  <2> QED
    BY <1>1, <2>1 DEF RemainingSeconds
<1>5. ASSUME NEW e \in Entry
      PROVE  RepairEntry(e) \in Entry
  <2>1. e.data \in Values
    BY DEF Entry
  <2> QED
    BY <1>2, <1>3, <1>4, <2>1 DEF RepairEntry
<1> QED
  BY <1>2, <1>3, <1>4, <1>5

----------------------------------------------------------------------------
(* The loop of removeNode.                                                 *)

\* The loop has a result: it comes from writing the entries one by one.
LEMMA LoopFacts ==
    ASSUME NEW caches, NEW r, NEW moved, NEW order, Len(order) \in Nat
    PROVE  \E after :
               /\ after[0] = caches
               /\ \A i \in 1 .. Len(order) :
                     after[i] = Redistribute(after[i - 1], r, order[i], moved[order[i]])
               /\ RedistributeAll(caches, r, moved, order) = after[Len(order)]
<1> DEFINE WriteAt(c, i) == Redistribute(c, r, order[i], moved[order[i]])
           Run(g, m) == g = [i \in 0 .. m |-> IF i = 0 THEN caches
                                                      ELSE WriteAt(g[i - 1], i)]
           T == {m \in Nat : ~ \E g : Run(g, m)}
<1> HIDE DEF WriteAt
<1>1. \E g : Run(g, 0)
  <2> DEFINE g == [i \in 0 .. 0 |-> caches]
  <2>1. Run(g, 0)
    OBVIOUS
  <2> QED
    BY <2>1
<1>2. ASSUME NEW m \in Nat, \E g : Run(g, m)
      PROVE  \E g : Run(g, m + 1)
  <2>1. PICK g : Run(g, m)
    BY <1>2
  <2> DEFINE h == [i \in 0 .. m + 1 |-> IF i = m + 1 THEN WriteAt(g[m], m + 1) ELSE g[i]]
  <2>2. \A i \in 0 .. m : g[i] = IF i = 0 THEN caches ELSE WriteAt(g[i - 1], i)
    BY <2>1
  <2>3. \A i \in 0 .. m + 1 : h[i] = IF i = 0 THEN caches ELSE WriteAt(h[i - 1], i)
    <3> SUFFICES ASSUME NEW i \in 0 .. m + 1
                 PROVE  h[i] = IF i = 0 THEN caches ELSE WriteAt(h[i - 1], i)
      OBVIOUS
    <3>1. CASE i = m + 1
      <4>1. m \in 0 .. m + 1 /\ m # m + 1 /\ i # 0 /\ i - 1 = m
        BY <3>1
      <4> QED
        BY <3>1, <4>1
    <3>2. CASE i # m + 1 /\ i # 0
      <4>1. i \in 0 .. m /\ i - 1 \in 0 .. m + 1 /\ i - 1 # m + 1
        BY <3>2
      <4> QED
        BY <2>2, <3>2, <4>1
    <3>3. CASE i = 0
      <4>1. i \in 0 .. m /\ i # m + 1
        BY <3>3
      <4> QED
        BY <2>2, <3>3, <4>1
    <3> QED
      BY <3>1, <3>2, <3>3
  <2>4. h = [i \in 0 .. m + 1 |-> h[i]]
    OBVIOUS
  <2> HIDE DEF h
  <2>5. Run(h, m + 1)
    BY <2>3, <2>4
  <2> QED
    BY <2>5
<1> HIDE DEF Run
<1>3. T = {}
  <2> SUFFICES ASSUME T # {} PROVE FALSE
    OBVIOUS
  <2>1. PICK m \in T : \A x \in T : m <= x
    BY LeastNumber
  <2>2. m # 0 /\ m \in Nat
    BY <1>1, <2>1
  <2>3. m - 1 \in Nat /\ ~(m <= m - 1) /\ (m - 1) + 1 = m
    BY <2>2
  <2>4. m - 1 \notin T
    BY <2>1, <2>3
  <2> QED
    BY <1>2, <2>1, <2>3, <2>4
<1> DEFINE after == CHOOSE g : Run(g, Len(order))
<1>4. Run(after, Len(order))
  BY <1>3
<1>5. RedistributeAll(caches, r, moved, order) = after[Len(order)]
  BY DEF RedistributeAll, Run, WriteAt
<1> HIDE DEF after
<1>6. \A i \in 0 .. Len(order) :
         after[i] = IF i = 0 THEN caches ELSE WriteAt(after[i - 1], i)
  BY <1>4 DEF Run
<1> QED
  BY <1>5, <1>6 DEF WriteAt

----------------------------------------------------------------------------
(* What removeNode writes.                                                 *)

\* The entry that writeWithOptionalTtl writes for e, if it lasts.
Moved(e) ==
    IF e.expiry = NoExpiry THEN e
    ELSE Mortal(e.data, RemainingSeconds(e, now), now)

\* A whole number of spans of b fits into a but for less than b.
LEMMA QuotientFacts ==
    ASSUME NEW a \in Nat, NEW b \in Nat \ {0}
    PROVE  /\ a \div b \in Nat
           /\ (a \div b) * b <= a
           /\ a < (a \div b) * b + b
OBVIOUS

\* It is an entry with e's deadline, to the second, and lives if e does.
LEMMA MovedFacts ==
    ASSUME now \in 0 .. MaxTime, NEW e \in Entry, Lasting(e)
    PROVE  /\ Moved(e) \in Entry
           /\ ~IsExpired(Moved(e), now)
           /\ \/ Moved(e) = e
              \/ /\ e.expiry # NoExpiry /\ Moved(e).expiry # NoExpiry
                 /\ Moved(e).expiry <= e.expiry
                 /\ Moved(e).expiry + TicksPerSecond > e.expiry
<1>1. now \in Int /\ TicksPerSecond \in Nat \ {0}
  BY ShardAssumption
<1>2. CASE e.expiry = NoExpiry
  BY <1>2 DEF Moved, IsExpired
<1>3. CASE e.expiry # NoExpiry
  <2> DEFINE left == e.expiry - now
             ttl  == left \div TicksPerSecond
             x    == now + ttl * TicksPerSecond
  <2>1. e.expiry \in Int /\ e.data \in Values
    BY <1>3 DEF Entry
  <2>2. RemainingSeconds(e, now) > 0
    BY <1>3 DEF Lasting
  <2>3. e.expiry >= now /\ RemainingSeconds(e, now) = ttl
    BY <1>1, <2>1, <2>2 DEF RemainingSeconds
  <2>4. left \in Nat /\ e.expiry = now + left
    BY <1>1, <2>1, <2>3
  <2> HIDE DEF left
  <2>5. /\ ttl \in Nat
        /\ ttl * TicksPerSecond <= left
        /\ left < ttl * TicksPerSecond + TicksPerSecond
    BY <1>1, <2>4, QuotientFacts
  <2>6. ttl * TicksPerSecond \in Nat
    BY <1>1, <2>5
  <2>7. Moved(e) = [data |-> e.data, expiry |-> x]
    BY <1>3, <2>3 DEF Moved, Mortal
  <2> DEFINE spans == ttl * TicksPerSecond
  <2>8. /\ spans \in Nat /\ spans <= left /\ left < spans + TicksPerSecond
        /\ x = now + spans
    BY <2>5, <2>6
  <2> HIDE DEF spans, x
  <2>9. x \in Int /\ now <= x /\ x <= e.expiry /\ x + TicksPerSecond > e.expiry
    BY <1>1, <2>4, <2>8
  <2> QED
    BY <1>1, <1>3, <2>1, <2>7, <2>9, EntryAssumption DEF Entry, IsExpired
<1> QED
  BY <1>2, <1>3

\* set and setWithTtl, once more: what becomes of each key of the cache.
LEMMA PutInEntries ==
    ASSUME NEW c \in GoodCaches, NEW k \in Keys, NEW e \in Entry, NEW j \in Keys
    PROVE  /\ j # k => EntryOf(PutIn(c, k, e), j) \in {EntryOf(c, j), NoEntry}
           /\ j = k => EntryOf(PutIn(c, k, e), j) \in {e, NoEntry}
           /\ ShardCapacity = 0 =>
                 EntryOf(PutIn(c, k, e), j) = IF j = k THEN e ELSE EntryOf(c, j)
           /\ j # k /\ CanCount(ShardFor(c, j).pol, j) =>
                 CanCount(ShardFor(PutIn(c, k, e), j).pol, j)
<1> DEFINE sh  == ShardFor(c, k)
           new == Put(sh, k, e).shard
<1>1. /\ PutIn(c, k, e) = [c EXCEPT ![ShardOf[k]] = new]
      /\ sh \in ShardStates
      /\ ShardOf[k] \in Shards /\ ShardOf[j] \in Shards
      /\ DOMAIN c = Shards
  BY ShardForFacts DEF PutIn, ShardFor, GoodCaches
<1>2. /\ new.store[k] \in {e, NoEntry}
      /\ \A x \in Keys \ {k} : new.store[x] \in {sh.store[x], NoEntry}
      /\ ShardCapacity = 0 =>
            /\ new.store[k] = e
            /\ \A x \in Keys \ {k} : new.store[x] = sh.store[x]
  BY <1>1, PutStore
<1>3. j # k /\ CanCount(sh.pol, j) => CanCount(new.pol, j)
  BY <1>1, PutCounts
<1>4. CASE ShardOf[j] = ShardOf[k]
  <2>1. ShardFor(PutIn(c, k, e), j) = new /\ ShardFor(c, j) = sh
    BY <1>1, <1>4 DEF ShardFor
  <2> HIDE DEF sh, new
  <2> QED
    BY <1>2, <1>3, <2>1 DEF EntryOf
<1>5. CASE ShardOf[j] # ShardOf[k]
  <2>1. ShardFor(PutIn(c, k, e), j) = ShardFor(c, j) /\ j # k
    BY <1>1, <1>5 DEF ShardFor
  <2> QED
    BY <2>1 DEF EntryOf
<1> QED
  BY <1>4, <1>5

\* writeWithOptionalTtl: what becomes of each key of the cache.
LEMMA WriteFacts ==
    ASSUME now \in 0 .. MaxTime, NEW c \in GoodCaches, NEW k \in Keys,
           NEW e \in Entry, CanCount(ShardFor(c, k).pol, k)
    PROVE  LET w == WriteWithOptionalTtl(c, k, e)
           IN  /\ w \in GoodCaches
               /\ \A j \in Keys :
                     /\ EntryOf(w, j) \in {EntryOf(c, j), NoEntry}
                        \/ (j = k /\ Lasting(e) /\ EntryOf(w, j) = Moved(e))
                     /\ ShardCapacity = 0 =>
                           EntryOf(w, j) = IF j = k /\ Lasting(e) THEN Moved(e)
                                                                  ELSE EntryOf(c, j)
                     /\ j # k /\ CanCount(ShardFor(c, j).pol, j) =>
                           CanCount(ShardFor(w, j).pol, j)
<1>1. CASE Lasting(e)
  <2>1. WriteWithOptionalTtl(c, k, e) = PutIn(c, k, Moved(e))
    BY <1>1 DEF WriteWithOptionalTtl, Moved, Lasting
  <2>2. Moved(e) \in Entry
    BY <1>1, MovedFacts
  <2>3. PutIn(c, k, Moved(e)) \in GoodCaches
    BY <2>2, PutInFacts
  <2> QED
    BY <1>1, <2>1, <2>2, <2>3, PutInEntries
<1>2. CASE ~Lasting(e)
  <2>1. WriteWithOptionalTtl(c, k, e) = c
    BY <1>2 DEF WriteWithOptionalTtl, Lasting
  <2> QED
    BY <1>2, <2>1
<1> QED
  BY <1>1, <1>2

\* The members of the ring have caches, and nobody else.
Furnished(caches, r) ==
    /\ caches \in [Nodes -> GoodCaches \cup {NoCache}]
    /\ \A n \in Nodes : caches[n] \in GoodCaches <=> n \in r.nodes

\* No member's cache is at the bound on the accesses to k.
Countable(caches, r, k) ==
    \A n \in r.nodes : CanCount(ShardFor(caches[n], k).pol, k)

\* The nodes to which a key is written are healthy members; the primary is
\* the first of them, and there is one if any member is healthy.
LEMMA NodesForFacts ==
    ASSUME NEW r, Complete(r, NodeHashes), NEW k \in Keys
    PROVE  /\ Separate(NodeHashes) /\ KeyHash[k] \in Positions
           /\ Replicas \in Nat /\ r.nodes \subseteq Nodes
           /\ NodesFor(r, k) \in Seq(Nodes)
           /\ Len(NodesFor(r, k)) \in Nat
           /\ DOMAIN NodesFor(r, k) = 1 .. Len(NodesFor(r, k))
           /\ Elements(NodesFor(r, k)) \subseteq r.nodes \ failedNodes
           /\ NodesFor(r, k) = <<>> <=> r.nodes \ failedNodes = {}
           /\ NodesFor(r, k) = <<>> => Primary(r, k) = NoNode
           /\ NodesFor(r, k) # <<>> =>
                 /\ Head(NodesFor(r, k)) = Primary(r, k)
                 /\ Primary(r, k) \in Elements(NodesFor(r, k))
                 /\ Primary(r, k) \in r.nodes \ failedNodes
<1>1. Separate(NodeHashes) /\ KeyHash[k] \in Positions /\ Replicas \in Nat
  <2>1. (ReplicationFactor - 1) % SizeModulus \in Nat
    BY ClusterAssumption
  <2> QED
    BY <2>1, ClusterAssumption DEF Separate, Replicas
<1>2. r.nodes \subseteq Nodes
  BY DEF Complete, Rings
<1> DEFINE p       == KeyHash[k]
           n       == Replicas
           healthy == r.nodes \ failedNodes
           e       == ExpectedNodes(r, p, n, failedNodes)
           x       == r.at[PrimaryPlace(r, p, failedNodes)]
<1>3. NodesFor(r, k) = e
  BY DEF NodesFor
<1>4. /\ Len(e) \in Nat /\ DOMAIN e = 1 .. Len(e)
      /\ \A i \in DOMAIN e : e[i] \in healthy
      /\ \A y \in healthy : Len(e) # 0
  <2> HIDE DEF p, n
  <2>1. p \in Positions /\ n \in Nat
    BY <1>1 DEF p, n
  <2>2. Len(e) \in Nat /\ DOMAIN e = 1 .. Len(e)
    BY <1>1, <2>1, ExpectedMembers
  <2>3. \A i \in DOMAIN e : e[i] \in healthy
    BY <1>1, <2>1, ExpectedMembers
  <2>4. \A y \in healthy : Len(e) # 0
    BY <1>1, <2>1, ExpectedMembers
  <2> QED
    BY <2>2, <2>3, <2>4
<1>5. NearestFirst(NodeHashes, healthy, p, n + 1, e)
  BY <1>1, ExpectedFacts
<1>6. e \in Seq(Nodes)
  <2>1. e \in Seq(healthy)
    BY <1>5 DEF NearestFirst
  <2>2. healthy \subseteq Nodes
    BY <1>2
  <2> HIDE DEF e, healthy
  <2> QED
    BY <2>1, <2>2
<1>7. e = <<>> <=> healthy = {}
  <2> HIDE DEF e, healthy
  <2>1. e = <<>> <=> Len(e) = 0
    BY <1>6
  <2>2. Len(e) # 0 => 1 \in DOMAIN e
    BY <1>4
  <2> QED
    BY <1>4, <2>1, <2>2
<1>8. /\ HasPrimary(r, p, failedNodes) <=> healthy # {}
      /\ healthy # {} =>
            /\ x \in healthy
            /\ \A y \in healthy \ {x} :
                  Distance(NodeHashes, x, p) < Distance(NodeHashes, y, p)
  BY <1>1, PrimaryFacts
<1>9. Primary(r, k) = IF healthy # {} THEN x ELSE NoNode
  BY <1>8 DEF Primary, FindPrimaryNode
<1>10. ASSUME e # <<>>
      PROVE  e[1] = x /\ 1 \in DOMAIN e /\ Head(e) = e[1]
  <2> HIDE DEF x, p
  <2>1. healthy # {}
    BY <1>7, <1>10
  <2>2. /\ x \in healthy
        /\ \A y \in healthy \ {x} :
              Distance(NodeHashes, x, p) < Distance(NodeHashes, y, p)
    BY <1>8, <2>1
  <2>3. \A y \in healthy : Distance(NodeHashes, y, p) \in Int
    BY <1>1, <1>2, DistanceFacts, PositionsAreNumbers DEF p
  <2>4. Closer(NodeHashes, healthy, x, p) = {}
    <3> SUFFICES ASSUME NEW y \in healthy,
                        Distance(NodeHashes, y, p) < Distance(NodeHashes, x, p)
                 PROVE  FALSE
      BY DEF Closer
    <3> QED
      BY <2>2, <2>3
  <2>5. Cardinality(Closer(NodeHashes, healthy, x, p)) = 0
    BY <2>4, FS_EmptySet
  <2>6. n + 1 \in Int /\ 0 < n + 1
    BY <1>1
  <2> DEFINE limit == n + 1
  <2> HIDE DEF limit, e, healthy
  <2>7. NearestFirst(NodeHashes, healthy, p, limit, e) /\ 0 < limit
    BY <1>5, <2>6 DEF limit
  <2>8. 0 + 1 \in DOMAIN e /\ e[0 + 1] = x
    BY <2>2, <2>5, <2>7 DEF NearestFirst
  <2> QED
    BY <1>6, <2>8
<1> HIDE DEF e, x
<1>11. /\ Elements(e) \subseteq healthy
       /\ e # <<>> => x \in Elements(e) /\ x \in healthy
  BY <1>4, <1>10 DEF Elements
<1> QED
  BY <1>1, <1>2, <1>3, <1>4, <1>6, <1>7, <1>9, <1>10, <1>11

\* One round of the loop.
LEMMA RedistributeFacts ==
    ASSUME now \in 0 .. MaxTime, NEW r, Complete(r, NodeHashes),
           NEW caches, Furnished(caches, r),
           NEW k \in Keys, NEW e \in Entry, Countable(caches, r, k),
           NEW w, w = Redistribute(caches, r, k, e)
    PROVE  /\ Furnished(w, r)
           /\ \A n \in Nodes \cap failedNodes : w[n] = caches[n]
           /\ \A j \in Keys \ {k} : Countable(caches, r, j) => Countable(w, r, j)
           /\ \A n \in r.nodes, j \in Keys :
                 /\ EntryOf(w[n], j) \in {EntryOf(caches[n], j), NoEntry}
                    \/ (j = k /\ Lasting(e) /\ EntryOf(w[n], j) = Moved(e))
                 /\ ShardCapacity = 0 =>
                       EntryOf(w[n], j) =
                           IF j = k /\ Lasting(e) /\ n \in Elements(NodesFor(r, k))
                           THEN Moved(e) ELSE EntryOf(caches[n], j)
<1>1. /\ r.nodes \subseteq Nodes
      /\ \A n \in r.nodes : caches[n] \in GoodCaches
      /\ Elements(NodesFor(r, k)) \subseteq r.nodes \ failedNodes
  BY NodesForFacts DEF Furnished
<1>2. /\ w = [n \in Nodes |-> w[n]]
      /\ \A n \in Nodes : w[n] = IF n \in Elements(NodesFor(r, k))
                                 THEN WriteWithOptionalTtl(caches[n], k, e)
                                 ELSE caches[n]
  BY DEF Redistribute
<1>3. ASSUME NEW n \in r.nodes
      PROVE  /\ w[n] \in GoodCaches
             /\ \A j \in Keys :
                   /\ EntryOf(w[n], j) \in {EntryOf(caches[n], j), NoEntry}
                      \/ (j = k /\ Lasting(e) /\ EntryOf(w[n], j) = Moved(e))
                   /\ ShardCapacity = 0 =>
                         EntryOf(w[n], j) =
                             IF j = k /\ Lasting(e) /\ n \in Elements(NodesFor(r, k))
                             THEN Moved(e) ELSE EntryOf(caches[n], j)
                   /\ j # k /\ CanCount(ShardFor(caches[n], j).pol, j) =>
                         CanCount(ShardFor(w[n], j).pol, j)
  <2>1. caches[n] \in GoodCaches /\ CanCount(ShardFor(caches[n], k).pol, k)
    BY <1>1 DEF Countable
  <2>2. CASE n \in Elements(NodesFor(r, k))
    <3>1. w[n] = WriteWithOptionalTtl(caches[n], k, e)
      BY <1>1, <1>2, <2>2
    <3> QED
      BY <2>1, <2>2, <3>1, WriteFacts
  <2>3. CASE n \notin Elements(NodesFor(r, k))
    <3>1. w[n] = caches[n]
      BY <1>1, <1>2, <2>3
    <3> QED
      BY <2>1, <2>3, <3>1
  <2> QED
    BY <2>2, <2>3
<1>4. Furnished(w, r)
  <2>1. \A n \in Nodes \ r.nodes : w[n] = caches[n]
    BY <1>1, <1>2
  <2>2. \A n \in Nodes : /\ w[n] \in GoodCaches \cup {NoCache}
                         /\ w[n] \in GoodCaches <=> n \in r.nodes
    BY <1>3, <2>1 DEF Furnished
  <2> QED
    BY <1>2, <2>2 DEF Furnished
<1>5. \A j \in Keys \ {k} : Countable(caches, r, j) => Countable(w, r, j)
  BY <1>3 DEF Countable
<1>6. \A n \in Nodes \cap failedNodes : w[n] = caches[n]
  BY <1>1, <1>2
<1> QED
  BY <1>3, <1>4, <1>5, <1>6

\* What has become of each key of each member, after the entries in moved have
\* been written.
Redistributed(caches, r, live, moved, w) ==
    /\ Furnished(w, r)
    /\ \A n \in Nodes \cap failedNodes : w[n] = caches[n]
    /\ \A n \in r.nodes, k \in Keys :
          /\ EntryOf(w[n], k) \in {EntryOf(caches[n], k), NoEntry}
             \/ (/\ k \in live /\ Lasting(moved[k])
                 /\ EntryOf(w[n], k) = Moved(moved[k]))
          /\ ShardCapacity = 0 =>
                EntryOf(w[n], k) =
                    IF /\ k \in live /\ Lasting(moved[k])
                       /\ n \in Elements(NodesFor(r, k))
                    THEN Moved(moved[k]) ELSE EntryOf(caches[n], k)

\* After all rounds.
LEMMA RedistributeAllFacts ==
    ASSUME now \in 0 .. MaxTime, NEW r, Complete(r, NodeHashes),
           NEW caches, Furnished(caches, r),
           NEW live \in SUBSET Keys, NEW moved \in [live -> Entry],
           NEW order, Len(order) \in Nat,
           \A i \in 1 .. Len(order) : order[i] \in live,
           \A i, j \in 1 .. Len(order) : order[i] = order[j] => i = j,
           \A k \in live : \E i \in 1 .. Len(order) : order[i] = k,
           \A k \in live : Countable(caches, r, k),
           NEW w, w = RedistributeAll(caches, r, moved, order)
    PROVE  Redistributed(caches, r, live, moved, w)
<1> DEFINE L == Len(order)
<1>1. PICK after :
         /\ after[0] = caches
         /\ \A i \in 1 .. L :
               after[i] = Redistribute(after[i - 1], r, order[i], moved[order[i]])
         /\ RedistributeAll(caches, r, moved, order) = after[L]
  BY LoopFacts
<1> HIDE DEF L
<1> DEFINE Done(i) == {order[j] : j \in 1 .. i}
           Good(i) ==
               /\ Furnished(after[i], r)
               /\ \A n \in Nodes \cap failedNodes : after[i][n] = caches[n]
               /\ \A k \in live \ Done(i) : Countable(after[i], r, k)
               /\ \A n \in r.nodes, k \in Keys :
                     /\ EntryOf(after[i][n], k) \in {EntryOf(caches[n], k), NoEntry}
                        \/ (/\ k \in live /\ Lasting(moved[k])
                            /\ EntryOf(after[i][n], k) = Moved(moved[k]))
                     /\ ShardCapacity = 0 =>
                           EntryOf(after[i][n], k) =
                               IF /\ k \in Done(i) /\ Lasting(moved[k])
                                  /\ n \in Elements(NodesFor(r, k))
                               THEN Moved(moved[k]) ELSE EntryOf(caches[n], k)
           T == {i \in Nat : i <= L /\ ~Good(i)}
<1>2. Done(0) = {}
  OBVIOUS
<1>3. Good(0)
  <2> HIDE DEF Done
  <2> QED
    BY <1>1, <1>2
<1>4. ASSUME NEW i \in Nat, i + 1 <= L, Good(i)
      PROVE  Good(i + 1)
  <2> DEFINE k == order[i + 1]
             e == moved[k]
             v == after[i]
             u == after[i + 1]
  <2>1. /\ i + 1 \in 1 .. L /\ (i + 1) - 1 = i
        /\ k \in live /\ k \in Keys /\ e \in Entry
        /\ Done(i + 1) = Done(i) \cup {k}
        /\ k \notin Done(i)
    <3>1. i + 1 \in 1 .. L /\ (i + 1) - 1 = i
      BY <1>4 DEF L
    <3>2. \A j \in 1 .. i : j \in 1 .. L /\ j # i + 1
      BY <1>4 DEF L
    <3>3. k \in live /\ k \in Keys /\ e \in Entry
      BY <3>1 DEF L
    <3>4. k \notin Done(i)
      BY <3>1, <3>2 DEF L
    <3>5. 1 .. i + 1 = (1 .. i) \cup {i + 1}
      OBVIOUS
    <3>6. Done(i + 1) = Done(i) \cup {k}
      BY <3>5
    <3> QED
      BY <3>1, <3>3, <3>4, <3>6
  <2>2. u = Redistribute(v, r, k, e)
    BY <1>1, <2>1
  <2>3. /\ Furnished(v, r) /\ \A j \in live \ Done(i) : Countable(v, r, j)
        /\ \A n \in Nodes \cap failedNodes : v[n] = caches[n]
    BY <1>4
  <2>4. \A n \in r.nodes, j \in Keys :
           /\ EntryOf(v[n], j) \in {EntryOf(caches[n], j), NoEntry}
              \/ (/\ j \in live /\ Lasting(moved[j])
                  /\ EntryOf(v[n], j) = Moved(moved[j]))
           /\ ShardCapacity = 0 =>
                 EntryOf(v[n], j) =
                     IF /\ j \in Done(i) /\ Lasting(moved[j])
                        /\ n \in Elements(NodesFor(r, j))
                     THEN Moved(moved[j]) ELSE EntryOf(caches[n], j)
    BY <1>4
  <2> HIDE DEF Done, v, u
  <2>5. Countable(v, r, k)
    BY <2>1, <2>3
  <2>6. /\ Furnished(u, r)
        /\ \A n \in Nodes \cap failedNodes : u[n] = v[n]
        /\ \A j \in Keys \ {k} : Countable(v, r, j) => Countable(u, r, j)
        /\ \A n \in r.nodes, j \in Keys :
              /\ EntryOf(u[n], j) \in {EntryOf(v[n], j), NoEntry}
                 \/ (j = k /\ Lasting(e) /\ EntryOf(u[n], j) = Moved(e))
              /\ ShardCapacity = 0 =>
                    EntryOf(u[n], j) =
                        IF j = k /\ Lasting(e) /\ n \in Elements(NodesFor(r, k))
                        THEN Moved(e) ELSE EntryOf(v[n], j)
    <3> HIDE DEF k, e
    <3> QED
      BY <2>1, <2>2, <2>3, <2>5, RedistributeFacts
  <2>7. \A j \in live \ Done(i + 1) : Countable(u, r, j)
    BY <2>1, <2>3, <2>6
  <2>8. ASSUME NEW n \in r.nodes, NEW j \in Keys
        PROVE  /\ EntryOf(u[n], j) \in {EntryOf(caches[n], j), NoEntry}
                  \/ (/\ j \in live /\ Lasting(moved[j])
                      /\ EntryOf(u[n], j) = Moved(moved[j]))
               /\ ShardCapacity = 0 =>
                     EntryOf(u[n], j) =
                         IF /\ j \in Done(i + 1) /\ Lasting(moved[j])
                            /\ n \in Elements(NodesFor(r, j))
                         THEN Moved(moved[j]) ELSE EntryOf(caches[n], j)
    <3>1. CASE j = k
      BY <2>1, <2>4, <2>6, <3>1
    <3>2. CASE j # k
      BY <2>1, <2>4, <2>6, <3>2
    <3> QED
      BY <3>1, <3>2
  <2> QED
    BY <2>3, <2>6, <2>7, <2>8 DEF u
<1> HIDE DEF Good
<1>5. T = {}
  <2> SUFFICES ASSUME T # {} PROVE FALSE
    OBVIOUS
  <2>1. PICK m \in T : \A x \in T : m <= x
    BY LeastNumber
  <2>2. m # 0 /\ m \in Nat /\ m <= L /\ ~Good(m)
    BY <1>3, <2>1
  <2>3. m - 1 \in Nat /\ ~(m <= m - 1) /\ (m - 1) + 1 = m /\ m - 1 <= L
    BY <2>2 DEF L
  <2>4. Good(m - 1)
    BY <2>1, <2>3
  <2> QED
    BY <1>4, <2>2, <2>3, <2>4
<1>6. Good(L)
  BY <1>5 DEF L
<1>7. live = Done(L)
  BY DEF L
<1> HIDE DEF Done
<1> QED
  BY <1>1, <1>6, <1>7 DEF Good, Redistributed

----------------------------------------------------------------------------
(* The invariant of the cluster.                                           *)

\* The inductive invariant: the ring is complete, so that lookups find its
\* healthy members, and these have caches to read from and write to, none of
\* which exceeds its capacity.
ClusterInv ==
    /\ now \in 0 .. MaxTime
    /\ failedNodes \in SUBSET Nodes
    /\ Complete(ring, NodeHashes)
    /\ Furnished(nodeCache, ring)

\* It has the types, and the caches match the ring.
LEMMA InvFacts ==
    ASSUME ClusterInv
    PROVE  /\ TypeOK
           /\ CachesMatchRing
           /\ \A n \in Nodes : nodeCache[n] # NoCache <=> n \in ring.nodes
           /\ \A n \in ring.nodes : n \in Nodes /\ nodeCache[n] \in GoodCaches
<1>1. ring \in Rings /\ ring.nodes \subseteq Nodes
  BY DEF ClusterInv, Complete, Rings
<1>2. \A n \in Nodes : nodeCache[n] # NoCache <=> n \in ring.nodes
  BY NewCacheFacts DEF ClusterInv, Furnished
<1>3. nodeCache \in [Nodes -> Caches \cup {NoCache}]
  BY NewCacheFacts DEF ClusterInv, Furnished
<1>4. \A n \in ring.nodes : n \in Nodes /\ nodeCache[n] \in GoodCaches
  BY <1>1 DEF ClusterInv, Furnished
<1> QED
  BY <1>1, <1>2, <1>3, <1>4 DEF TypeOK, CachesMatchRing, ClusterInv

\* addNode and removeNode keep the ring complete.
LEMMA RingFacts ==
    ASSUME NEW r, Complete(r, NodeHashes), NEW n \in Nodes
    PROVE  /\ Complete(RingAdd(r, n, NodeHashes[n]), NodeHashes)
           /\ RingAdd(r, n, NodeHashes[n]).nodes = r.nodes \cup {n}
           /\ Complete(RingRemove(r, n, NodeHashes[n]), NodeHashes)
           /\ RingRemove(r, n, NodeHashes[n]).nodes = r.nodes \ {n}
<1>1. /\ r \in Rings
      /\ \A q \in Positions, x \in Nodes :
            r.at[q] = x <=> x \in r.nodes /\ q \in NodeHashes[x]
  BY DEF Complete
<1>2. \A x \in Nodes, q \in NodeHashes[n] : x # n => q \notin NodeHashes[x]
  BY ClusterAssumption
<1>3. CASE n \in r.nodes
  <2> DEFINE s == RingRemove(r, n, NodeHashes[n])
  <2>1. RingAdd(r, n, NodeHashes[n]) = r /\ r.nodes \cup {n} = r.nodes
    BY <1>3 DEF RingAdd
  <2>2. /\ s.nodes = r.nodes \ {n} /\ s \in Rings
        /\ \A q \in Positions :
              s.at[q] = IF q \in NodeHashes[n] THEN NoNode ELSE r.at[q]
    BY <1>1, <1>3 DEF RingRemove, Rings
  <2> HIDE DEF s
  <2>3. Complete(s, NodeHashes)
    BY <1>1, <1>2, <2>2, RingAssumption DEF Complete
  <2> QED
    BY <2>1, <2>2, <2>3 DEF s
<1>4. CASE n \notin r.nodes
  <2> DEFINE s == RingAdd(r, n, NodeHashes[n])
  <2>1. RingRemove(r, n, NodeHashes[n]) = r /\ r.nodes \ {n} = r.nodes
    BY <1>4 DEF RingRemove
  <2>2. /\ s.nodes = r.nodes \cup {n} /\ s \in Rings
        /\ \A q \in Positions :
              s.at[q] = IF q \in NodeHashes[n] THEN n ELSE r.at[q]
    BY <1>1, <1>4 DEF RingAdd, Rings
  <2> HIDE DEF s
  <2>3. Complete(s, NodeHashes)
    BY <1>1, <1>2, <1>4, <2>2 DEF Complete
  <2> QED
    BY <2>1, <2>2, <2>3 DEF s
<1> QED
  BY <1>3, <1>4

\* A cluster that was just built.
LEMMA InitInv == Init => ClusterInv
<1> SUFFICES ASSUME Init PROVE ClusterInv
  OBVIOUS
<1>1. now \in 0 .. MaxTime /\ failedNodes \in SUBSET Nodes
  BY ShardAssumption DEF Init
<1>2. /\ ring.nodes = Founders /\ Founders \subseteq Nodes
      /\ \A q \in Positions :
            ring.at[q] = IF \E n \in Founders : q \in NodeHashes[n]
                         THEN CHOOSE n \in Founders : q \in NodeHashes[n]
                         ELSE NoNode
      /\ ring = [at |-> ring.at, nodes |-> Founders]
      /\ DOMAIN ring.at = Positions
      /\ ring.at = [q \in Positions |-> ring.at[q]]
  BY ClusterAssumption DEF Init
<1>3. ASSUME NEW q \in Positions
      PROVE  /\ ring.at[q] \in Nodes \cup {NoNode}
             /\ \A x \in Nodes : ring.at[q] = x <=> x \in Founders /\ q \in NodeHashes[x]
  <2>1. CASE \E n \in Founders : q \in NodeHashes[n]
    <3>1. ring.at[q] \in Founders /\ q \in NodeHashes[ring.at[q]]
      BY <1>2, <2>1
    <3> QED
      BY <1>2, <3>1, ClusterAssumption
  <2>2. CASE ~ \E n \in Founders : q \in NodeHashes[n]
    BY <1>2, <2>2, RingAssumption
  <2> QED
    BY <2>1, <2>2
<1>4. ring \in Rings
  BY <1>2, <1>3 DEF Rings
<1>5. Complete(ring, NodeHashes)
  BY <1>2, <1>3, <1>4 DEF Complete
<1>6. Furnished(nodeCache, ring)
  BY <1>2, NewCacheFacts DEF Init, Furnished
<1> QED
  BY <1>1, <1>5, <1>6 DEF ClusterInv

\* The orders in which getAllData may return the entries of a finite map.
LEMMA OrderFacts ==
    ASSUME NEW S, IsFiniteSet(S), NEW order \in SetToSeqs(S)
    PROVE  /\ Len(order) \in Nat
           /\ \A i \in 1 .. Len(order) : order[i] \in S
           /\ \A i, j \in 1 .. Len(order) : order[i] = order[j] => i = j
           /\ \A k \in S : \E i \in 1 .. Len(order) : order[i] = k
<1> DEFINE D == 1 .. Cardinality(S)
<1>1. /\ order \in [D -> S] /\ Cardinality(S) \in Nat
      /\ \A i, j \in D : order[i] = order[j] => i = j
  BY FS_CardinalityType DEF SetToSeqs
<1>2. Len(order) = Cardinality(S)
  BY <1>1
<1>3. IsFiniteSet(D) /\ Cardinality(D) = Cardinality(S)
  BY <1>1, FS_Interval
<1> HIDE DEF D
<1>4. order \in Injection(D, S)
  BY <1>1 DEF Injection, IsInjective
<1>5. order \in Surjection(D, S)
  BY <1>3, <1>4, FS_Injection
<1> QED
  BY <1>1, <1>2, <1>5 DEF Surjection, D

\* The keys that a member holds, and that removeNode moves, are finitely many.
LEMMA LiveFinite ==
    ASSUME NEW c \in GoodCaches
    PROVE  IsFiniteSet({k \in Keys : Holds(c, k)})
<1> DEFINE live == {k \in Keys : Holds(c, k)}
           F    == {Stored(c[i]) : i \in Shards}
           f    == [i \in Shards |-> Stored(c[i])]
<1>1. IsFiniteSet(F)
  <2>1. IsFiniteSet(Shards)
    BY ShardAssumption, FS_Interval DEF Shards
  <2>2. f \in Surjection(Shards, F)
    BY DEF Surjection
  <2> QED
    BY <2>1, <2>2, FS_Surjection
<1>2. \A S \in F : IsFiniteSet(S)
  BY DEF GoodCaches, GoodShards, Bounded
<1>3. \A k \in live : k \in Stored(c[ShardOf[k]]) /\ ShardOf[k] \in Shards
  BY ShardForFacts DEF Holds, Exists, ShardFor, Stored
<1>4. live \subseteq UNION F
  BY <1>3
<1> HIDE DEF F, live
<1>5. IsFiniteSet(UNION F)
  BY <1>1, <1>2, FS_UNION
<1>6. IsFiniteSet(live)
  BY <1>4, <1>5, FS_Subset
<1> QED
  BY <1>6 DEF live

\* removeNode: the node is gone from the ring and its cache with it; what the
\* other members hold of a key is what they held, or the entry moved, or
\* nothing.  Caches without a limit lose nothing, and those that the key
\* now goes to have the entry that was moved, if it lasts.
LEMMA RemoveNodeFacts ==
    ASSUME ClusterInv, NEW n \in Nodes, RemoveNode(n)
    PROVE  /\ ring' = RingRemove(ring, n, NodeHashes[n])
           /\ ring'.nodes = ring.nodes \ {n}
           /\ n \in ring.nodes
           /\ Complete(ring', NodeHashes)
           /\ Furnished(nodeCache', ring')
           /\ \A m \in failedNodes \ {n} : nodeCache'[m] = nodeCache[m]
           /\ \A m \in ring'.nodes, k \in Keys :
                 LET moved == EntryOf(nodeCache[n], k)
                     moves == Holds(nodeCache[n], k) /\ Lasting(moved)
                 IN  /\ EntryOf(nodeCache'[m], k) \in {EntryOf(nodeCache[m], k), NoEntry}
                        \/ (moves /\ EntryOf(nodeCache'[m], k) = Moved(moved))
                     /\ ShardCapacity = 0 =>
                           EntryOf(nodeCache'[m], k) =
                               IF moves /\ m \in Elements(NodesFor(ring', k))
                               THEN Moved(moved) ELSE EntryOf(nodeCache[m], k)
<1> DEFINE live   == {k \in Keys : Holds(nodeCache[n], k)}
           left   == RingRemove(ring, n, NodeHashes[n])
           caches == [nodeCache EXCEPT ![n] = NoCache]
           moved  == [k \in live |-> EntryOf(nodeCache[n], k)]
<1>1. n \in ring.nodes /\ ring' = left /\ \A k \in live : CanCountAll(k)
  BY DEF RemoveNode
<1>2. PICK order \in SetToSeqs(live) :
          nodeCache' = RedistributeAll(caches, left, moved, order)
  BY DEF RemoveNode
<1>3. Complete(left, NodeHashes) /\ left.nodes = ring.nodes \ {n}
  BY RingFacts DEF ClusterInv
<1>4. Furnished(caches, left)
  BY <1>3, NewCacheFacts DEF ClusterInv, Furnished
<1>5. nodeCache[n] \in GoodCaches /\ nodeCache[n] # NoCache
  BY <1>1, InvFacts
<1>6. moved \in [live -> Entry]
  <2>1. \A k \in live : EntryOf(nodeCache[n], k) \in Entry
    BY <1>5, ShardForFacts DEF Holds, Exists, EntryOf
  <2> QED
    BY <2>1
<1>7. \A k \in live : Countable(caches, left, k)
  <2> SUFFICES ASSUME NEW k \in live, NEW m \in left.nodes
               PROVE  CanCount(ShardFor(caches[m], k).pol, k)
    BY DEF Countable
  <2>1. m \in Nodes /\ m # n /\ nodeCache[m] # NoCache
    BY <1>3, InvFacts
  <2>2. caches[m] = nodeCache[m]
    BY <2>1 DEF ClusterInv, Furnished
  <2> QED
    BY <1>1, <2>1, <2>2 DEF CanCountAll
<1>8. /\ Len(order) \in Nat
      /\ \A i \in 1 .. Len(order) : order[i] \in live
      /\ \A i, j \in 1 .. Len(order) : order[i] = order[j] => i = j
      /\ \A k \in live : \E i \in 1 .. Len(order) : order[i] = k
  <2>1. IsFiniteSet(live)
    BY <1>5, LiveFinite
  <2> HIDE DEF live
  <2> QED
    BY <2>1, OrderFacts
<1>9. live \in SUBSET Keys /\ now \in 0 .. MaxTime
  BY DEF ClusterInv
<1>10. \A m \in left.nodes : m \in Nodes /\ caches[m] = nodeCache[m]
  BY <1>3, InvFacts DEF ClusterInv, Furnished
<1> DEFINE w == RedistributeAll(caches, left, moved, order)
<1>11. Redistributed(caches, left, live, moved, w)
  <2>1. w = RedistributeAll(caches, left, moved, order)
    OBVIOUS
  <2> HIDE DEF live, left, caches, moved, w
  <2> QED
    BY <1>3, <1>4, <1>6, <1>7, <1>8, <1>9, <2>1, RedistributeAllFacts
<1>12. \A k \in live : moved[k] = EntryOf(nodeCache[n], k)
  OBVIOUS
<1>13. \A k \in Keys : k \in live <=> Holds(nodeCache[n], k)
  OBVIOUS
<1>14. nodeCache' = w /\ ring' = left
  BY <1>1, <1>2
<1> HIDE DEF live, left, caches, moved, w
<1>15. \A m \in left.nodes, k \in Keys :
          /\ EntryOf(w[m], k) \in {EntryOf(nodeCache[m], k), NoEntry}
             \/ (/\ Holds(nodeCache[n], k) /\ Lasting(EntryOf(nodeCache[n], k))
                 /\ EntryOf(w[m], k) = Moved(EntryOf(nodeCache[n], k)))
          /\ ShardCapacity = 0 =>
                EntryOf(w[m], k) =
                    IF /\ Holds(nodeCache[n], k) /\ Lasting(EntryOf(nodeCache[n], k))
                       /\ m \in Elements(NodesFor(left, k))
                    THEN Moved(EntryOf(nodeCache[n], k)) ELSE EntryOf(nodeCache[m], k)
  BY <1>10, <1>11, <1>12, <1>13 DEF Redistributed
<1>16. Furnished(w, left)
  BY <1>11 DEF Redistributed
<1>17. \A m \in failedNodes \ {n} : w[m] = nodeCache[m]
  BY <1>11 DEF Redistributed, ClusterInv, Furnished, caches
<1> QED
  BY <1>1, <1>3, <1>14, <1>15, <1>16, <1>17 DEF left

----------------------------------------------------------------------------
(* Each step keeps the invariant, and leaves nodes that have failed alone. *)

\* An operation that changes the caches of healthy members only.
LEMMA UpdateFacts ==
    ASSUME ClusterInv, NEW S \in SUBSET (ring.nodes \ failedNodes),
           nodeCache' = [n \in Nodes |-> nodeCache'[n]],
           \A n \in S : nodeCache'[n] \in GoodCaches,
           \A n \in Nodes \ S : nodeCache'[n] = nodeCache[n],
           UNCHANGED <<ring, failedNodes, now>>
    PROVE  ClusterInv' /\ \A n \in failedNodes : nodeCache'[n] = nodeCache[n]
<1>1. \A n \in Nodes : /\ nodeCache'[n] \in GoodCaches \cup {NoCache}
                       /\ nodeCache'[n] \in GoodCaches <=> n \in ring.nodes
  BY DEF ClusterInv, Furnished
<1>2. Furnished(nodeCache', ring)
  BY <1>1 DEF Furnished
<1>3. \A n \in failedNodes : n \in Nodes \ S
  BY DEF ClusterInv
<1> QED
  BY <1>2, <1>3 DEF ClusterInv

\* What an operation on k may use: the nodes it goes to are healthy members
\* with a cache each, which can count the access.
LEMMA OperationFacts ==
    ASSUME ClusterInv, NEW k \in Keys
    PROVE  /\ Elements(NodesFor(ring, k)) \subseteq ring.nodes \ failedNodes
           /\ NodesFor(ring, k) # <<>> =>
                 /\ Head(NodesFor(ring, k)) = Primary(ring, k)
                 /\ Primary(ring, k) \in ring.nodes \ failedNodes
           /\ Primary(ring, k) # NoNode =>
                 Primary(ring, k) \in ring.nodes \ failedNodes
           /\ \A n \in ring.nodes :
                 /\ n \in Nodes /\ nodeCache[n] \in GoodCaches
                 /\ CanCountAll(k) => CanCount(ShardFor(nodeCache[n], k).pol, k)
<1>1. Complete(ring, NodeHashes)
  BY DEF ClusterInv
<1>2. ASSUME NEW n \in ring.nodes
      PROVE  /\ n \in Nodes /\ nodeCache[n] \in GoodCaches
             /\ CanCountAll(k) => CanCount(ShardFor(nodeCache[n], k).pol, k)
  BY InvFacts DEF CanCountAll
<1> QED
  BY <1>1, <1>2, NodesForFacts

LEMMA SetStep ==
    ASSUME ClusterInv, NEW k \in Keys, NEW e \in Entry, SetEntry(k, e)
    PROVE  ClusterInv' /\ \A n \in failedNodes : nodeCache'[n] = nodeCache[n]
<1> DEFINE expected == NodesFor(ring, k)
           targets  == IF PutOk(nodeCache[Head(expected)], k, e)
                       THEN Elements(expected) ELSE {Head(expected)}
<1>1. /\ CanCountAll(k) /\ expected # <<>>
      /\ nodeCache' = [n \in Nodes |-> IF n \in targets
                                       THEN PutIn(nodeCache[n], k, e)
                                       ELSE nodeCache[n]]
      /\ UNCHANGED <<ring, failedNodes, now>>
  BY DEF SetEntry
<1>2. targets \in SUBSET (ring.nodes \ failedNodes)
  BY <1>1, OperationFacts
<1> HIDE DEF targets
<1>3. \A n \in targets : nodeCache'[n] \in GoodCaches
  BY <1>1, <1>2, OperationFacts, PutInFacts
<1>4. \A n \in Nodes \ targets : nodeCache'[n] = nodeCache[n]
  BY <1>1
<1>5. nodeCache' = [n \in Nodes |-> nodeCache'[n]]
  BY <1>1
<1> QED
  BY <1>1, <1>2, <1>3, <1>4, <1>5, UpdateFacts

LEMMA GetStep ==
    ASSUME ClusterInv, NEW k \in Keys, GetKey(k)
    PROVE  ClusterInv' /\ \A n \in failedNodes : nodeCache'[n] = nodeCache[n]
<1> DEFINE primary == Primary(ring, k)
           S       == {primary}
<1>1. /\ CanCountAll(k) /\ primary # NoNode
      /\ nodeCache' = [nodeCache EXCEPT ![primary][ShardOf[k]] =
                                            Get(@, k, now).shard]
      /\ UNCHANGED <<ring, failedNodes, now>>
  BY DEF GetKey
<1>2. S \in SUBSET (ring.nodes \ failedNodes) /\ primary \in ring.nodes
  BY <1>1, OperationFacts
<1>3. /\ nodeCache' = [n \in Nodes |-> nodeCache'[n]]
      /\ \A n \in Nodes \ S : nodeCache'[n] = nodeCache[n]
      /\ primary \in Nodes =>
            nodeCache'[primary] = [nodeCache[primary] EXCEPT ![ShardOf[k]] =
                                                     Get(@, k, now).shard]
  <2> HIDE DEF primary
  <2> QED
    BY <1>1 DEF ClusterInv, Furnished
<1>4. nodeCache'[primary] \in GoodCaches
  BY <1>1, <1>2, <1>3, OperationFacts, GetInFacts
<1> HIDE DEF S, primary
<1>5. \A n \in S : nodeCache'[n] \in GoodCaches
  BY <1>4 DEF S
<1> QED
  BY <1>1, <1>2, <1>3, <1>5, UpdateFacts

LEMMA DelStep ==
    ASSUME ClusterInv, NEW k \in Keys, Del(k)
    PROVE  ClusterInv' /\ \A n \in failedNodes : nodeCache'[n] = nodeCache[n]
<1> DEFINE S == Elements(NodesFor(ring, k))
<1>1. /\ nodeCache' = [n \in Nodes |->
             IF n \in S THEN [nodeCache[n] EXCEPT ![ShardOf[k]] = Delete(@, k)]
             ELSE nodeCache[n]]
      /\ UNCHANGED <<ring, failedNodes, now>>
  BY DEF Del
<1>2. S \in SUBSET (ring.nodes \ failedNodes)
  BY OperationFacts
<1> HIDE DEF S
<1>3. \A n \in S : nodeCache'[n] \in GoodCaches
  BY <1>1, <1>2, OperationFacts, DeleteInFacts
<1>4. /\ nodeCache' = [n \in Nodes |-> nodeCache'[n]]
      /\ \A n \in Nodes \ S : nodeCache'[n] = nodeCache[n]
  BY <1>1
<1> QED
  BY <1>1, <1>2, <1>3, <1>4, UpdateFacts

\* What repairKey writes is live.
LEMMA RepairEntryLives ==
    ASSUME now \in 0 .. MaxTime, NEW e \in Entry
    PROVE  RepairEntry(e) \in Entry /\ ~IsExpired(RepairEntry(e), now)
<1>1. RepairEntry(e) \in Entry
  BY WrittenFacts
<1>2. CASE e.expiry # NoExpiry /\ RemainingSeconds(e, now) > 0
  <2> DEFINE ttl   == RemainingSeconds(e, now)
             spans == ttl * TicksPerSecond
  <2>1. now \in Int /\ TicksPerSecond \in Nat \ {0} /\ ttl \in Int /\ ttl > 0
    BY <1>2, ShardAssumption, WrittenFacts
  <2> HIDE DEF ttl
  <2>2. spans \in Nat
    BY <2>1
  <2>3. RepairEntry(e) = [data |-> e.data, expiry |-> now + spans]
    BY <1>2 DEF RepairEntry, Mortal, ttl
  <2> HIDE DEF spans
  <2> QED
    BY <1>1, <2>1, <2>2, <2>3 DEF IsExpired
<1>3. CASE ~(e.expiry # NoExpiry /\ RemainingSeconds(e, now) > 0)
  BY <1>1, <1>3 DEF RepairEntry, Immortal, IsExpired
<1> QED
  BY <1>1, <1>2, <1>3

\* A node's cache after repairKey has read k.
ReadIn(c, k) == [c EXCEPT ![ShardOf[k]] = Get(@, k, now).shard]

\* A responsible node's cache before and after repairKey, which had e to copy.
RepairedCache(c, k, e, lacks, after) ==
    \E d \in {c, ReadIn(c, k)} : after = IF lacks THEN PutIn(d, k, e) ELSE d

\* repairKey, node by node: those that were asked have read the key, those
\* that lack it have a copy of what a holder has.
LEMMA RepairFacts ==
    ASSUME ClusterInv, NEW k \in Keys, RepairKey(k),
           NEW S, S = Elements(NodesFor(ring, k))
    PROVE  \E e :
              /\ S \in SUBSET (ring.nodes \ failedNodes)
              /\ (\E m \in S : Holds(nodeCache[m], k))
                    => /\ e \in Entry /\ ~IsExpired(e, now)
                       /\ \E m \in S : /\ Holds(nodeCache[m], k)
                                       /\ e = RepairEntry(EntryOf(nodeCache[m], k))
              /\ nodeCache' = [n \in Nodes |-> nodeCache'[n]]
              /\ \A n \in Nodes \ S : nodeCache'[n] = nodeCache[n]
              /\ \A n \in S :
                    RepairedCache(nodeCache[n], k, e,
                                  /\ ~Holds(nodeCache[n], k)
                                  /\ \E m \in S : Holds(nodeCache[m], k),
                                  nodeCache'[n])
              /\ CanCountAll(k)
              /\ UNCHANGED <<ring, failedNodes, now>>
<1> DEFINE expected == NodesFor(ring, k)
           having   == {i \in DOMAIN expected : Holds(nodeCache[expected[i]], k)}
           source   == CHOOSE i \in having : \A j \in having : i <= j
           asked    == IF having = {} THEN Elements(expected)
                       ELSE {expected[i] : i \in 1 .. source}
           lacking  == IF having = {} THEN {}
                       ELSE {expected[i] : i \in DOMAIN expected \ having}
           read     == [n \in Nodes |->
                          IF n \in asked
                          THEN [nodeCache[n] EXCEPT ![ShardOf[k]] =
                                                        Get(@, k, now).shard]
                          ELSE nodeCache[n]]
           copy     == RepairEntry(EntryOf(nodeCache[expected[source]], k))
<1>1. /\ CanCountAll(k)
      /\ nodeCache' = [n \in Nodes |-> IF n \in lacking
                                       THEN PutIn(read[n], k, copy) ELSE read[n]]
      /\ UNCHANGED <<ring, failedNodes, now>>
  BY DEF RepairKey
<1>2. S \in SUBSET (ring.nodes \ failedNodes) /\ S = Elements(expected)
  BY OperationFacts
<1>3. /\ Len(expected) \in Nat /\ DOMAIN expected = 1 .. Len(expected)
      /\ S = {expected[i] : i \in DOMAIN expected}
  BY NodesForFacts DEF ClusterInv, Elements
<1> HIDE DEF expected
<1>4. having # {} => source \in having /\ source \in DOMAIN expected
  <2>1. having \in SUBSET Nat
    BY <1>3
  <2>2. having # {} => \E i \in having : \A j \in having : i <= j
    <3> HIDE DEF having
    <3> QED
      BY <2>1, LeastNumber
  <2>3. having # {} => source \in having
    <3> HIDE DEF having
    <3> QED
      BY <2>2
  <2> QED
    BY <2>3
<1>5. having # {} <=> \E m \in S : Holds(nodeCache[m], k)
  BY <1>3
<1>6. \A n \in Nodes : n \in lacking <=> /\ n \in S /\ ~Holds(nodeCache[n], k)
                                         /\ \E m \in S : Holds(nodeCache[m], k)
  BY <1>3, <1>5
<1>7. asked \subseteq S
  <2>1. having # {} => 1 .. source \subseteq DOMAIN expected
    <3> HIDE DEF source, having
    <3> QED
      BY <1>3, <1>4
  <2> HIDE DEF source, having
  <2> QED
    BY <1>2, <1>3, <2>1
<1>8. ASSUME having # {}
      PROVE  /\ copy \in Entry /\ ~IsExpired(copy, now)
             /\ \E m \in S : /\ Holds(nodeCache[m], k)
                             /\ copy = RepairEntry(EntryOf(nodeCache[m], k))
  <2> DEFINE e == EntryOf(nodeCache[expected[source]], k)
  <2>1. Holds(nodeCache[expected[source]], k) /\ expected[source] \in S
    <3> HIDE DEF source
    <3> QED
      BY <1>3, <1>4, <1>8
  <2>2. e \in Entry
    BY <1>2, <2>1, OperationFacts, ShardForFacts DEF Holds, Exists, EntryOf
  <2> HIDE DEF e
  <2>3. RepairEntry(e) \in Entry /\ ~IsExpired(RepairEntry(e), now)
    BY <2>2, RepairEntryLives DEF ClusterInv
  <2> QED
    BY <2>1, <2>3 DEF e
<1>9. ASSUME NEW n \in S
      PROVE  RepairedCache(nodeCache[n], k, copy,
                           /\ ~Holds(nodeCache[n], k)
                           /\ \E m \in S : Holds(nodeCache[m], k),
                           nodeCache'[n])
  <2>1. n \in Nodes
    BY <1>2, OperationFacts
  <2>2. read[n] \in {nodeCache[n], ReadIn(nodeCache[n], k)}
    BY <2>1 DEF ReadIn
  <2> HIDE DEF read, lacking, copy
  <2>3. nodeCache'[n] = IF n \in lacking THEN PutIn(read[n], k, copy) ELSE read[n]
    BY <1>1, <2>1
  <2>4. n \in lacking <=> /\ ~Holds(nodeCache[n], k)
                          /\ \E m \in S : Holds(nodeCache[m], k)
    BY <1>6, <2>1
  <2> QED
    BY <2>2, <2>3, <2>4 DEF RepairedCache
<1>10. \A n \in Nodes \ S : nodeCache'[n] = nodeCache[n]
  BY <1>1, <1>6, <1>7
<1>11. nodeCache' = [n \in Nodes |-> nodeCache'[n]]
  BY <1>1
<1> HIDE DEF copy, read, lacking, asked, source, having
<1>12. (\E m \in S : Holds(nodeCache[m], k))
         => /\ copy \in Entry /\ ~IsExpired(copy, now)
            /\ \E m \in S : /\ Holds(nodeCache[m], k)
                            /\ copy = RepairEntry(EntryOf(nodeCache[m], k))
  BY <1>5, <1>8
<1> QED
  BY <1>1, <1>2, <1>9, <1>10, <1>11, <1>12

LEMMA RepairStep ==
    ASSUME ClusterInv, NEW k \in Keys, RepairKey(k)
    PROVE  ClusterInv' /\ \A n \in failedNodes : nodeCache'[n] = nodeCache[n]
<1> DEFINE S == Elements(NodesFor(ring, k))
<1>1. PICK e :
          /\ S \in SUBSET (ring.nodes \ failedNodes)
          /\ (\E m \in S : Holds(nodeCache[m], k)) => e \in Entry
          /\ nodeCache' = [n \in Nodes |-> nodeCache'[n]]
          /\ \A n \in Nodes \ S : nodeCache'[n] = nodeCache[n]
          /\ \A n \in S :
                RepairedCache(nodeCache[n], k, e,
                              /\ ~Holds(nodeCache[n], k)
                              /\ \E m \in S : Holds(nodeCache[m], k),
                              nodeCache'[n])
          /\ CanCountAll(k)
          /\ UNCHANGED <<ring, failedNodes, now>>
  BY RepairFacts
<1> HIDE DEF S
<1>2. ASSUME NEW n \in S
      PROVE  nodeCache'[n] \in GoodCaches
  <2> DEFINE lacks == /\ ~Holds(nodeCache[n], k)
                      /\ \E m \in S : Holds(nodeCache[m], k)
  <2>1. /\ nodeCache[n] \in GoodCaches
        /\ CanCount(ShardFor(nodeCache[n], k).pol, k)
    BY <1>1, OperationFacts
  <2>2. PICK d \in {nodeCache[n], ReadIn(nodeCache[n], k)} :
            nodeCache'[n] = IF lacks THEN PutIn(d, k, e) ELSE d
    BY <1>1 DEF RepairedCache
  <2>3. /\ ReadIn(nodeCache[n], k) \in GoodCaches
        /\ ~Exists(ShardFor(nodeCache[n], k), k, now)
              => CanCount(ShardFor(ReadIn(nodeCache[n], k), k).pol, k)
    BY <2>1, GetInFacts DEF ReadIn
  <2>4. lacks => ~Exists(ShardFor(nodeCache[n], k), k, now) /\ e \in Entry
    BY <1>1, <2>1, NewCacheFacts DEF Holds
  <2> HIDE DEF lacks
  <2>5. d \in GoodCaches /\ (lacks => CanCount(ShardFor(d, k).pol, k))
    BY <2>1, <2>2, <2>3, <2>4
  <2>6. CASE lacks
    BY <2>2, <2>4, <2>5, <2>6, PutInFacts
  <2>7. CASE ~lacks
    BY <2>2, <2>5, <2>7
  <2> QED
    BY <2>6, <2>7
<1> QED
  BY <1>1, <1>2, UpdateFacts

LEMMA ClearStep == ClusterInv /\ Clear => ClusterInv'
<1> SUFFICES ASSUME ClusterInv, Clear PROVE ClusterInv'
  OBVIOUS
<1>1. \A n \in Nodes : nodeCache'[n] = IF nodeCache[n] = NoCache THEN NoCache
                                                                 ELSE NewCache
  BY DEF Clear
<1>2. Furnished(nodeCache', ring)
  BY <1>1, InvFacts, NewCacheFacts DEF Clear, Furnished
<1> QED
  BY <1>2 DEF Clear, ClusterInv

LEMMA AddNodeStep ==
    ASSUME ClusterInv, NEW n \in Nodes, AddNode(n)
    PROVE  /\ ClusterInv'
           /\ \A m \in failedNodes \ {n} : nodeCache'[m] = nodeCache[m]
<1>1. /\ Complete(ring', NodeHashes)
      /\ ring'.nodes = ring.nodes \cup {n}
  BY RingFacts DEF ClusterInv, AddNode
<1>2. /\ nodeCache' = [m \in Nodes |-> IF m = n THEN NewCache ELSE nodeCache[m]]
      /\ UNCHANGED <<failedNodes, now>>
  BY DEF ClusterInv, Furnished, AddNode
<1>3. Furnished(nodeCache', ring')
  BY <1>1, <1>2, NewCacheFacts DEF ClusterInv, Furnished
<1>4. \A m \in failedNodes \ {n} : m \in Nodes
  BY DEF ClusterInv
<1> QED
  BY <1>1, <1>2, <1>3, <1>4 DEF ClusterInv

\* All steps.
LEMMA Step ==
    ASSUME ClusterInv, [Next]_vars
    PROVE  /\ ClusterInv'
           /\ \A n \in failedNodes :
                 nodeCache'[n] # nodeCache[n] => Clear \/ AddNode(n) \/ RemoveNode(n)
<1>1. ASSUME NEW k \in Keys, NEW v \in Values, Set(k, v)
      PROVE  ClusterInv' /\ \A n \in failedNodes : nodeCache'[n] = nodeCache[n]
  <2>1. Immortal(v) \in Entry
    BY WrittenFacts DEF ClusterInv
  <2> QED
    BY <1>1, <2>1, SetStep DEF Set
<1>2. ASSUME NEW k \in Keys, NEW v \in Values, NEW ttl \in Ttls, SetWithTtl(k, v, ttl)
      PROVE  ClusterInv' /\ \A n \in failedNodes : nodeCache'[n] = nodeCache[n]
  <2>1. Mortal(v, ttl, now) \in Entry
    BY WrittenFacts, ClusterAssumption DEF ClusterInv
  <2> QED
    BY <1>2, <2>1, SetStep DEF SetWithTtl
<1>3. ASSUME NEW k \in Keys, GetKey(k) \/ Del(k) \/ RepairKey(k)
      PROVE  ClusterInv' /\ \A n \in failedNodes : nodeCache'[n] = nodeCache[n]
  BY <1>3, GetStep, DelStep, RepairStep
<1>4. ASSUME NEW n \in Joining, AddNode(n)
      PROVE  ClusterInv' /\ \A m \in failedNodes \ {n} : nodeCache'[m] = nodeCache[m]
  BY <1>4, AddNodeStep, ClusterAssumption
<1>5. ASSUME NEW n \in Leaving, RemoveNode(n)
      PROVE  ClusterInv' /\ \A m \in failedNodes \ {n} : nodeCache'[m] = nodeCache[m]
  <2>1. n \in Nodes /\ UNCHANGED <<failedNodes, now>>
    BY <1>5, ClusterAssumption DEF RemoveNode
  <2>2. /\ Complete(ring', NodeHashes) /\ Furnished(nodeCache', ring')
        /\ \A m \in failedNodes \ {n} : nodeCache'[m] = nodeCache[m]
    BY <1>5, <2>1, RemoveNodeFacts
  <2> QED
    BY <2>1, <2>2 DEF ClusterInv
<1>6. ASSUME NEW n \in Failing, MarkNodeFailed(n)
      PROVE  ClusterInv' /\ nodeCache' = nodeCache
  BY <1>6, ClusterAssumption DEF MarkNodeFailed, ClusterInv
<1>7. CASE Clear
  BY <1>7, ClearStep
<1>8. CASE Tick
  BY <1>8, ShardAssumption DEF Tick, ClusterInv
<1>9. CASE UNCHANGED vars
  BY <1>9 DEF vars, ClusterInv
<1> QED
  <2>1. CASE Tick
    BY <1>8, <2>1 DEF Tick
  <2>2. CASE UNCHANGED vars
    BY <1>9, <2>2 DEF vars
  <2>3. CASE \E n \in Joining : AddNode(n)
    BY <1>4, <2>3
  <2>4. CASE \E n \in Leaving : RemoveNode(n)
    BY <1>5, <2>4
  <2>5. CASE \E n \in Failing : MarkNodeFailed(n)
    BY <1>6, <2>5
  <2> QED
    BY <1>1, <1>2, <1>3, <1>7, <2>1, <2>2, <2>3, <2>4, <2>5 DEF Next, Operate

----------------------------------------------------------------------------
(* Theorems.                                                               *)

\* What holds of every reachable cluster.
LEMMA ClusterInvariant == Spec => []ClusterInv
<1>1. ClusterInv /\ [Next]_vars => ClusterInv'
  BY Step
<1> QED
  BY InitInv, <1>1, PTL DEF Spec

\* Every reachable cluster has its types.
THEOREM TypeTheorem == Spec => []TypeOK
<1>1. ClusterInv => TypeOK
  BY InvFacts
<1> QED
  BY <1>1, ClusterInvariant, PTL

\* The members of the ring have caches, and nobody else, so that getNodeCache
\* never throws (distributed_cache.cpp:109-116).
THEOREM CachesTheorem == Spec => []CachesMatchRing
<1>1. ClusterInv => CachesMatchRing
  BY InvFacts
<1> QED
  BY <1>1, ClusterInvariant, PTL

\* Nothing but clear, addNode and removeNode touches the cache of a node that
\* has failed (distributed_cache.h:155).
THEOREM FailedTheorem == Spec => FailedNodesLeftAlone
<1>1. ClusterInv /\ [Next]_vars =>
         [\A n \in failedNodes :
             nodeCache'[n] # nodeCache[n] => Clear \/ AddNode(n) \/ RemoveNode(n)]_vars
  BY Step
<1> QED
  BY <1>1, ClusterInvariant, PTL DEF Spec, FailedNodesLeftAlone

----------------------------------------------------------------------------
(* Losing a node.                                                          *)

\* The primary is the nearest member that has not failed.
LEMMA NearestFacts ==
    ASSUME NEW r, Complete(r, NodeHashes), NEW k \in Keys, NEW failed,
           NEW x, x = FindPrimaryNode(r, KeyHash[k], failed)
    PROVE  LET D(y) == Distance(NodeHashes, y, KeyHash[k])
           IN  /\ x # NoNode => x \in r.nodes \ failed
               /\ r.nodes \ failed # {} =>
                     /\ x \in r.nodes \ failed
                     /\ \A y \in r.nodes \ failed : x # y => D(x) < D(y)
<1>1. Separate(NodeHashes) /\ KeyHash[k] \in Positions
  BY NodesForFacts
<1> DEFINE p == KeyHash[k]
<1> HIDE DEF p
<1>2. /\ HasPrimary(r, p, failed) <=> r.nodes \ failed # {}
      /\ r.nodes \ failed # {} =>
            LET z == r.at[PrimaryPlace(r, p, failed)]
            IN  /\ z \in r.nodes \ failed
                /\ \A y \in (r.nodes \ failed) \ {z} :
                      Distance(NodeHashes, z, p) < Distance(NodeHashes, y, p)
  BY <1>1, PrimaryFacts DEF p
<1>3. x = IF HasPrimary(r, p, failed) THEN r.at[PrimaryPlace(r, p, failed)] ELSE NoNode
  BY DEF FindPrimaryNode, p
<1> QED
  BY <1>2, <1>3 DEF p

\* It stays the primary while other members go.
LEMMA PrimaryStays ==
    ASSUME NEW r, Complete(r, NodeHashes), NEW s, Complete(s, NodeHashes),
           NEW k \in Keys, s.nodes \subseteq r.nodes,
           Primary(r, k) \in s.nodes
    PROVE  Primary(s, k) = Primary(r, k)
<1> DEFINE x == Primary(r, k)
           y == Primary(s, k)
           D(z) == Distance(NodeHashes, z, KeyHash[k])
<1>1. r.nodes \subseteq Nodes /\ NoNode \notin Nodes
  BY RingAssumption DEF Complete, Rings
<1>2. x = FindPrimaryNode(r, KeyHash[k], failedNodes)
      /\ y = FindPrimaryNode(s, KeyHash[k], failedNodes)
  BY DEF Primary
<1> HIDE DEF x, y
<1>3. x \in r.nodes \ failedNodes /\ x \in s.nodes \ failedNodes
  <2>1. x # NoNode => x \in r.nodes \ failedNodes
    BY <1>2, NearestFacts
  <2> QED
    BY <1>1, <2>1 DEF x
<1>4. \A z \in r.nodes \ failedNodes : x # z => D(x) < D(z)
  BY <1>2, <1>3, NearestFacts
<1>5. y \in s.nodes \ failedNodes
  BY <1>2, <1>3, NearestFacts
<1>6. \A z \in s.nodes \ failedNodes : y # z => D(y) < D(z)
  BY <1>2, <1>3, NearestFacts
<1>7. D(x) \in Int /\ D(y) \in Int
  <2>1. /\ Separate(NodeHashes) /\ KeyHash[k] \in Positions
        /\ x \in Nodes /\ y \in Nodes
    BY <1>1, <1>3, <1>5, NodesForFacts
  <2> QED
    BY <2>1, DistanceFacts, PositionsAreNumbers
<1> HIDE DEF D
<1>8. x = y
  BY <1>3, <1>4, <1>5, <1>6, <1>7
<1> QED
  BY <1>8 DEF x, y

\* A node that fails is succeeded by a node that had the key as well, if
\* there were two that had it.
LEMMA SuccessorHasKey ==
    ASSUME NEW r, Complete(r, NodeHashes), NEW k \in Keys,
           NEW n, Len(NodesFor(r, k)) >= 2,
           NEW y, y = FindPrimaryNode(r, KeyHash[k], failedNodes \cup {n})
    PROVE  y \in Elements(NodesFor(r, k)) /\ y # n /\ y \notin failedNodes
<1> DEFINE S     == r.nodes \ failedNodes
           p     == KeyHash[k]
           e     == NodesFor(r, k)
           limit == Replicas + 1
           c     == Closer(NodeHashes, S, y, p)
           D(z)  == Distance(NodeHashes, z, p)
<1>1. /\ Separate(NodeHashes) /\ p \in Positions /\ Replicas \in Nat
      /\ S \subseteq Nodes /\ r.nodes \ (failedNodes \cup {n}) = S \ {n}
  BY NodesForFacts
<1>2. NearestFirst(NodeHashes, S, p, limit, e)
  BY <1>1, ExpectedFacts DEF NodesFor
<1>3. limit \in Nat
  BY <1>1
<1>4. IsFiniteSet(S) /\ Cardinality(S) \in Nat
  BY <1>1, NodesFinite, FS_Subset, FS_CardinalityType
<1> HIDE DEF S, limit, e, p
<1>5. e \in Seq(S) /\ Len(e) \in Nat /\ DOMAIN e = 1 .. Len(e)
  BY <1>2 DEF NearestFirst
<1>6. Len(e) >= 2
  BY DEF e
<1>7. 1 .. Len(e) = 1 .. (IF Cardinality(S) < limit THEN Cardinality(S) ELSE limit)
  BY <1>2, <1>5 DEF NearestFirst
<1>8. 2 <= Cardinality(S) /\ 2 <= limit
  <2>1. 2 \in 1 .. Len(e)
    BY <1>5, <1>6
  <2>2. 2 \in 1 .. (IF Cardinality(S) < limit THEN Cardinality(S) ELSE limit)
    BY <1>7, <2>1
  <2> QED
    BY <1>3, <1>4, <2>2
<1>9. S \ {n} # {}
  <2>1. S # {n}
    <3> SUFFICES ASSUME S = {n} PROVE FALSE
      OBVIOUS
    <3>1. Cardinality(S) = 1
      BY FS_Singleton
    <3> QED
      BY <1>8, <3>1
  <2>2. S # {}
    BY <1>4, <1>8, FS_EmptySet
  <2> QED
    BY <2>1, <2>2
<1>10. y \in S \ {n} /\ \A z \in S \ {n} : y # z => D(y) < D(z)
  <2> DEFINE failed == failedNodes \cup {n}
  <2>1. r.nodes \ failed = S \ {n} /\ y = FindPrimaryNode(r, KeyHash[k], failed)
    BY <1>1
  <2> HIDE DEF failed
  <2> QED
    BY <1>9, <2>1, NearestFacts DEF p
<1>11. c \subseteq {n}
  <2> SUFFICES ASSUME NEW z \in S, D(z) < D(y), z # n PROVE FALSE
    BY DEF Closer
  <2>1. D(y) \in Int /\ D(z) \in Int
    BY <1>1, <1>10, DistanceFacts, PositionsAreNumbers
  <2> HIDE DEF D
  <2>2. y # z => D(y) < D(z)
    BY <1>10
  <2> QED
    BY <2>1, <2>2
<1> HIDE DEF c
<1>12. Cardinality(c) \in Nat /\ Cardinality(c) < limit
  <2>1. IsFiniteSet({n}) /\ Cardinality({n}) = 1
    BY FS_Singleton
  <2>2. Cardinality(c) <= Cardinality({n}) /\ IsFiniteSet(c)
    BY <1>11, <2>1, FS_Subset
  <2>3. Cardinality(c) \in Nat
    BY <2>2, FS_CardinalityType
  <2> QED
    BY <1>3, <1>8, <2>1, <2>2, <2>3
<1>13. Cardinality(c) + 1 \in DOMAIN e /\ e[Cardinality(c) + 1] = y
  BY <1>2, <1>10, <1>12 DEF NearestFirst, c
<1>14. y \in Elements(e)
  BY <1>13 DEF Elements
<1> QED
  BY <1>10, <1>14 DEF S, e

\* Only removeNode takes a member away, and only markNodeFailed fails one.
LEMMA MembershipSteps ==
    ASSUME ClusterInv, [Next]_vars
    PROVE  /\ \A n \in ring.nodes \ ring'.nodes : RemoveNode(n)
           /\ failedNodes' # failedNodes => \E n \in Nodes : MarkNodeFailed(n)
<1>1. ASSUME NEW k \in Keys, NEW e, SetEntry(k, e) \/ GetKey(k) \/ Del(k) \/ RepairKey(k)
      PROVE  UNCHANGED <<ring, failedNodes>>
  BY <1>1 DEF SetEntry, GetKey, Del, RepairKey
<1>2. ASSUME NEW n \in Nodes, AddNode(n)
      PROVE  ring.nodes \subseteq ring'.nodes /\ failedNodes' = failedNodes
  BY <1>2, RingFacts DEF AddNode, ClusterInv
<1>3. ASSUME NEW n \in Nodes, RemoveNode(n)
      PROVE  ring'.nodes = ring.nodes \ {n} /\ failedNodes' = failedNodes
  BY <1>3, RemoveNodeFacts DEF RemoveNode
<1>4. ASSUME NEW n \in Nodes, MarkNodeFailed(n)
      PROVE  ring' = ring
  BY <1>4 DEF MarkNodeFailed
<1>5. CASE Clear \/ Tick \/ UNCHANGED vars
  BY <1>5 DEF Clear, Tick, vars
<1>6. ASSUME NEW n \in Joining \cup Leaving \cup Failing
      PROVE  n \in Nodes
  BY ClusterAssumption
<1> QED
  BY <1>1, <1>2, <1>3, <1>4, <1>5, <1>6 DEF Next, Operate, Set, SetWithTtl

\* The entries that removeNode moves keep their deadlines, whatever other keys
\* are evicted for them (distributed_cache.cpp:84-100).
THEOREM DeadlinesTheorem == Spec => RemovalKeepsDeadlines
<1> DEFINE DeadlineKept(n, m, k) ==
        LET moved  == EntryOf(nodeCache[n], k)
            placed == EntryOf(nodeCache'[m], k)
        IN  placed \notin {NoEntry, EntryOf(nodeCache[m], k)} =>
               \/ placed = moved
               \/ /\ moved.expiry # NoExpiry /\ placed.expiry # NoExpiry
                  /\ placed.expiry <= moved.expiry
                  /\ placed.expiry + TicksPerSecond > moved.expiry
<1>1. ASSUME ClusterInv, [Next]_vars,
             NEW n \in ring.nodes \ ring'.nodes, NEW m \in ring'.nodes, NEW k \in Keys
      PROVE  DeadlineKept(n, m, k)
  <2> DEFINE moved  == EntryOf(nodeCache[n], k)
             placed == EntryOf(nodeCache'[m], k)
  <2>1. n \in Nodes /\ RemoveNode(n) /\ nodeCache[n] \in GoodCaches
    BY <1>1, MembershipSteps, InvFacts
  <2>2. placed \in {EntryOf(nodeCache[m], k), NoEntry}
           \/ (Holds(nodeCache[n], k) /\ Lasting(moved) /\ placed = Moved(moved))
    BY <1>1, <2>1, RemoveNodeFacts
  <2>3. Holds(nodeCache[n], k) => moved \in Entry
    BY <2>1, ShardForFacts DEF Holds, Exists, EntryOf
  <2>4. moved \in Entry /\ Lasting(moved) =>
           \/ Moved(moved) = moved
           \/ /\ moved.expiry # NoExpiry /\ Moved(moved).expiry # NoExpiry
              /\ Moved(moved).expiry <= moved.expiry
              /\ Moved(moved).expiry + TicksPerSecond > moved.expiry
    BY <1>1, MovedFacts DEF ClusterInv
  <2> HIDE DEF moved, placed
  <2>5. placed \notin {NoEntry, EntryOf(nodeCache[m], k)} =>
               \/ placed = moved
               \/ /\ moved.expiry # NoExpiry /\ placed.expiry # NoExpiry
                  /\ placed.expiry <= moved.expiry
                  /\ placed.expiry + TicksPerSecond > moved.expiry
    BY <2>2, <2>3, <2>4
  <2> QED
    BY <2>5 DEF moved, placed
<1>2. ClusterInv /\ [Next]_vars =>
         [\A n \in ring.nodes \ ring'.nodes, m \in ring'.nodes, k \in Keys :
             DeadlineKept(n, m, k)]_vars
  BY <1>1
<1> QED
  BY <1>2, ClusterInvariant, PTL DEF Spec, RemovalKeepsDeadlines

\* Removing a node loses no key that can be read and is not in its last
\* second (distributed_cache.cpp:28-82).
THEOREM RemovalTheorem == Spec => RemovalKeepsKeysReadable
<1>1. ASSUME ClusterInv, [Next]_vars,
             NEW n \in ring.nodes \ ring'.nodes, NEW k \in Keys,
             ShardCapacity = 0, ring'.nodes \ failedNodes # {},
             Read(k) # NoEntry, Lasting(Read(k))
      PROVE  Read(k)' # NoEntry
  <2> DEFINE P == Primary(ring, k)
             Q == Primary(ring', k)
             moved == EntryOf(nodeCache[n], k)
             moves == Holds(nodeCache[n], k) /\ Lasting(moved)
  <2>1. n \in Nodes /\ RemoveNode(n)
    BY <1>1, MembershipSteps, InvFacts
  <2>2. UNCHANGED <<failedNodes, now>>
    BY <2>1 DEF RemoveNode
  <2>3. /\ P # NoNode /\ Holds(nodeCache[P], k) /\ Lasting(EntryOf(nodeCache[P], k))
    BY <1>1 DEF Read
  <2>4. /\ Complete(ring, NodeHashes) /\ Complete(ring', NodeHashes)
        /\ ring'.nodes = ring.nodes \ {n}
        /\ Furnished(nodeCache', ring')
    BY <1>1, <2>1, RemoveNodeFacts DEF ClusterInv
  <2>5. Q \in Elements(NodesFor(ring', k)) /\ Q \in ring'.nodes \ failedNodes
    BY <1>1, <2>4, NodesForFacts
  <2>6. P \in ring.nodes \ failedNodes
    BY <1>1, <2>3, OperationFacts
  <2>7. /\ EntryOf(nodeCache'[Q], k) =
              IF moves /\ Q \in Elements(NodesFor(ring', k))
              THEN Moved(moved) ELSE EntryOf(nodeCache[Q], k)
    BY <1>1, <2>1, <2>5, RemoveNodeFacts
  <2>8. moves => Moved(moved) \in Entry /\ ~IsExpired(Moved(moved), now)
    <3>1. nodeCache[n] \in GoodCaches
      BY <1>1, InvFacts
    <3>2. Holds(nodeCache[n], k) => moved \in Entry
      BY <3>1, ShardForFacts DEF Holds, Exists, EntryOf
    <3> QED
      BY <1>1, <3>2, MovedFacts DEF ClusterInv
  <2>9. ~moves => Q = P
    <3>1. ~moves => P # n
      BY <2>3
    <3>2. P # n => P \in ring'.nodes
      BY <2>4, <2>6
    <3> QED
      BY <2>4, <3>1, <3>2, PrimaryStays
  <2>10. Holds(nodeCache[P], k) =>
            /\ EntryOf(nodeCache[P], k) # NoEntry
            /\ ~IsExpired(EntryOf(nodeCache[P], k), now)
    BY DEF Holds, Exists, EntryOf
  <2>11. /\ EntryOf(nodeCache'[Q], k) # NoEntry
         /\ ~IsExpired(EntryOf(nodeCache'[Q], k), now)
    <3> HIDE DEF P, Q, moved
    <3> QED
      BY <2>3, <2>5, <2>7, <2>8, <2>9, <2>10, EntryAssumption
  <2>12. nodeCache'[Q] # NoCache /\ Q # NoNode
    BY <2>4, <2>5, NewCacheFacts, RingAssumption DEF Furnished, Complete, Rings
  <2>13. Primary(ring, k)' = Q
    BY <2>2 DEF Primary
  <2> HIDE DEF Q
  <2>14. Read(k)' = EntryOf(nodeCache'[Q], k)
    BY <2>2, <2>11, <2>12, <2>13 DEF Read, Holds, Exists, EntryOf, ShardFor
  <2> QED
    BY <2>11, <2>14
<1>2. ClusterInv /\ [Next]_vars =>
         [\A n \in ring.nodes \ ring'.nodes, k \in Keys :
             /\ ShardCapacity = 0
             /\ ring'.nodes \ failedNodes # {}
             /\ Read(k) # NoEntry
             /\ Lasting(Read(k))
             => Read(k)' # NoEntry]_vars
  BY <1>1
<1> QED
  BY <1>2, ClusterInvariant, PTL DEF Spec, RemovalKeepsKeysReadable

\* The failure of one node loses no key of which two nodes or more, all that
\* are responsible, have a copy (consistent_hash.cpp:90-135, 204-275).
THEOREM FailureTheorem == Spec => FailureKeepsReplicatedKeys
<1>1. ASSUME ClusterInv, [Next]_vars, NEW k \in Keys, failedNodes' # failedNodes,
             Len(NodesFor(ring, k)) >= 2,
             \A n \in Elements(NodesFor(ring, k)) : Holds(nodeCache[n], k)
      PROVE  Read(k)' # NoEntry
  <2>1. PICK n \in Nodes : MarkNodeFailed(n)
    BY <1>1, MembershipSteps
  <2>2. failedNodes' = failedNodes \cup {n} /\ UNCHANGED <<ring, nodeCache, now>>
    BY <2>1 DEF MarkNodeFailed
  <2> DEFINE y == FindPrimaryNode(ring, KeyHash[k], failedNodes \cup {n})
  <2>3. Complete(ring, NodeHashes)
    BY <1>1 DEF ClusterInv
  <2>4. y \in Elements(NodesFor(ring, k))
    BY <1>1, <2>3, SuccessorHasKey
  <2>5. Primary(ring, k)' = y
    BY <2>2 DEF Primary
  <2>6. y # NoNode
    BY <1>1, <2>3, <2>4, OperationFacts, RingAssumption
  <2> HIDE DEF y
  <2>7. Holds(nodeCache[y], k)
    BY <1>1, <2>4
  <2> QED
    BY <2>2, <2>5, <2>6, <2>7 DEF Read, Holds, Exists, EntryOf, ShardFor
<1>2. ClusterInv /\ [Next]_vars =>
         [\A k \in Keys :
             LET expected == NodesFor(ring, k)
             IN  /\ failedNodes' # failedNodes
                 /\ Len(expected) >= 2
                 /\ \A n \in Elements(expected) : Holds(nodeCache[n], k)
                 => Read(k)' # NoEntry]_vars
  BY <1>1
<1> QED
  BY <1>2, ClusterInvariant, PTL DEF Spec, FailureKeepsReplicatedKeys

----------------------------------------------------------------------------
(* A node that joins.                                                      *)

\* Two nodes or more are different ones.
LEMMA ExpectedDiffer ==
    ASSUME NEW r, Complete(r, NodeHashes), NEW k \in Keys,
           Len(NodesFor(r, k)) >= 2, NEW n
    PROVE  /\ Replicas >= 1
           /\ \E x \in Elements(NodesFor(r, k)) : x # n
<1> DEFINE healthy == r.nodes \ failedNodes
           p       == KeyHash[k]
           limit   == Replicas + 1
           e       == NodesFor(r, k)
<1>1. /\ Separate(NodeHashes) /\ p \in Positions /\ Replicas \in Nat
      /\ e \in Seq(Nodes) /\ DOMAIN e = 1 .. Len(e) /\ Len(e) \in Nat
      /\ r.nodes \subseteq Nodes
  BY NodesForFacts
<1>2. NearestFirst(NodeHashes, healthy, p, limit, e)
  BY <1>1, ExpectedFacts DEF NodesFor
<1>3. Cardinality(healthy) \in Nat
  BY <1>1, NodesFinite, FS_Subset, FS_CardinalityType
<1>4. 1 \in DOMAIN e /\ 2 \in DOMAIN e
  BY <1>1
<1> HIDE DEF e, healthy, p
<1>5. Replicas >= 1
  <2>1. DOMAIN e = 1 .. (IF Cardinality(healthy) < limit THEN Cardinality(healthy)
                                                         ELSE limit)
    BY <1>2 DEF NearestFirst
  <2>2. 2 <= limit
    BY <1>1, <1>3, <1>4, <2>1
  <2> QED
    BY <1>1, <2>2
<1> HIDE DEF limit
<1>6. e[1] # e[2]
  <2>1. /\ Cardinality(Closer(NodeHashes, healthy, e[1], p)) = 1 - 1
        /\ Cardinality(Closer(NodeHashes, healthy, e[2], p)) = 2 - 1
    BY <1>2, <1>4 DEF NearestFirst
  <2> QED
    BY <2>1
<1>7. e[1] \in Elements(e) /\ e[2] \in Elements(e)
  BY <1>4 DEF Elements
<1> QED
  BY <1>5, <1>6, <1>7 DEF e

\* The primary stays responsible when one node joins, if there are replicas.
LEMMA PrimaryResponsible ==
    ASSUME NEW r, Complete(r, NodeHashes), NEW s, Complete(s, NodeHashes),
           NEW k \in Keys, NEW n, s.nodes = r.nodes \cup {n},
           Replicas >= 1, Primary(r, k) # NoNode
    PROVE  Primary(r, k) \in Elements(NodesFor(s, k))
<1> DEFINE healthy == s.nodes \ failedNodes
           limit   == Replicas + 1
           p       == KeyHash[k]
           x       == Primary(r, k)
           nearer  == Closer(NodeHashes, healthy, x, p)
<1>1. /\ Separate(NodeHashes) /\ p \in Positions /\ Replicas \in Nat
      /\ s.nodes \subseteq Nodes
  BY NodesForFacts
<1>2. Elements(NodesFor(s, k)) = Nearby(NodeHashes, healthy, p, limit)
  BY <1>1, ExpectedMembers DEF NodesFor
<1>3. /\ x \in r.nodes \ failedNodes
      /\ \A y \in r.nodes \ failedNodes :
            x # y => Distance(NodeHashes, x, p) < Distance(NodeHashes, y, p)
  BY NearestFacts DEF Primary
<1>4. \A y \in healthy : Distance(NodeHashes, y, p) \in Int
  BY <1>1, DistanceFacts, PositionsAreNumbers
<1>5. x \in healthy
  BY <1>3
<1>6. nearer \subseteq {n}
  BY <1>3, <1>4, <1>5 DEF Closer
<1>7. IsFiniteSet({n}) /\ Cardinality({n}) = 1
  BY FS_Singleton
<1> HIDE DEF nearer, healthy, x
<1>8. Cardinality(nearer) \in Nat /\ Cardinality(nearer) <= 1
  BY <1>6, <1>7, FS_Subset, FS_CardinalityType
<1>9. Cardinality(nearer) < limit
  BY <1>1, <1>8
<1> QED
  BY <1>2, <1>5, <1>9 DEF Nearby, nearer, x

\* A node that joins, or is added again, with an empty cache: a key that all of
\* its two or more nodes hold stays within reach of a repair, and readable from
\* any primary but the new node (distributed_cache.cpp:20-26).
THEOREM JoinTheorem == Spec => JoinKeepsReplicatedKeys
<1>1. ASSUME ClusterInv, [Next]_vars, NEW n \in Nodes, NEW k \in Keys, AddNode(n),
             Len(NodesFor(ring, k)) >= 2,
             \A m \in Elements(NodesFor(ring, k)) : Holds(nodeCache[m], k)
      PROVE  /\ \E m \in Elements(NodesFor(ring, k)') : Holds(nodeCache[m], k)'
             /\ Primary(ring, k)' # n => Read(k)' # NoEntry
  <2>1. /\ Complete(ring, NodeHashes) /\ Complete(ring', NodeHashes)
        /\ ring'.nodes = ring.nodes \cup {n}
        /\ n \in ring.nodes => ring' = ring
        /\ NoNode \notin Nodes /\ ring.nodes \subseteq Nodes
    <3>1. ClusterInv'
      BY <1>1, Step
    <3> QED
      BY <1>1, <3>1, RingAssumption
         DEF ClusterInv, AddNode, RingAdd, Complete, Rings
  <2>2. failedNodes' = failedNodes /\ now' = now
    BY <1>1 DEF AddNode
  <2>3. \A m : m # n => nodeCache'[m] = nodeCache[m]
    BY <1>1 DEF AddNode
  <2>4. ASSUME NEW m \in Elements(NodesFor(ring, k)), m # n
        PROVE  Holds(nodeCache[m], k)'
    BY <1>1, <2>2, <2>3, <2>4 DEF Holds, Exists, ShardFor
  <2>5. NodesFor(ring, k)' = NodesFor(ring', k)
    BY <2>2 DEF NodesFor
  <2>6. Primary(ring, k)' = Primary(ring', k)
    BY <2>2 DEF Primary
  <2>7. /\ Primary(ring, k) \in Elements(NodesFor(ring, k))
        /\ Primary(ring, k) # NoNode
        /\ Primary(ring, k) \in ring.nodes
    BY <1>1, <2>1, NodesForFacts
  <2>8. \E m \in Elements(NodesFor(ring', k)) : Holds(nodeCache[m], k)'
    <3>1. CASE n \in ring.nodes
      BY <1>1, <2>1, <2>4, <3>1, ExpectedDiffer
    <3>2. CASE n \notin ring.nodes
      <4>1. Replicas >= 1
        BY <1>1, <2>1, ExpectedDiffer
      <4>2. Primary(ring, k) \in Elements(NodesFor(ring', k))
        BY <2>1, <2>7, <4>1, PrimaryResponsible
      <4> QED
        BY <2>4, <2>7, <3>2, <4>2
    <3> QED
      BY <3>1, <3>2
  <2>9. ASSUME Primary(ring', k) # n
        PROVE  Read(k)' # NoEntry
    <3> DEFINE x == Primary(ring', k)
    <3>1. x \in ring'.nodes
      <4>1. x # NoNode => x \in ring'.nodes
        BY <2>1, NearestFacts DEF Primary
      <4>2. ring.nodes \ failedNodes # {}
        BY <1>1, <2>1, <2>7, NodesForFacts
      <4> QED
        BY <2>1, <4>2, NearestFacts DEF Primary
    <3>2. x \in ring.nodes
      BY <2>1, <2>9, <3>1
    <3>3. x = Primary(ring, k)
      BY <2>1, <3>2, PrimaryStays
    <3> HIDE DEF x
    <3>4. Holds(nodeCache[x], k) /\ x # n /\ x # NoNode
      BY <1>1, <2>7, <2>9, <3>3 DEF x
    <3>5. nodeCache'[x] = nodeCache[x]
      BY <2>3, <3>4
    <3> QED
      BY <2>2, <2>6, <3>4, <3>5 DEF x, Read, Holds, Exists, EntryOf, ShardFor
  <2> QED
    BY <2>5, <2>6, <2>8, <2>9
<1>2. ClusterInv /\ [Next]_vars =>
         [\A n \in Nodes, k \in Keys :
             LET expected == NodesFor(ring, k)
             IN  /\ AddNode(n)
                 /\ Len(expected) >= 2
                 /\ \A m \in Elements(expected) : Holds(nodeCache[m], k)
                 => /\ \E m \in Elements(NodesFor(ring, k)') : Holds(nodeCache[m], k)'
                    /\ Primary(ring, k)' # n => Read(k)' # NoEntry]_vars
  BY <1>1
<1> QED
  BY <1>2, ClusterInvariant, PTL DEF Spec, JoinKeepsReplicatedKeys

----------------------------------------------------------------------------
(* What a repair does.                                                     *)

\* Reading a key leaves the entries of the others alone, and takes the key's
\* own away if it has expired.
LEMMA ReadInEntries ==
    ASSUME NEW c \in GoodCaches, NEW k \in Keys, NEW j \in Keys
    PROVE  EntryOf(ReadIn(c, k), j)
             = IF j = k /\ EntryOf(c, k) # NoEntry /\ IsExpired(EntryOf(c, k), now)
               THEN NoEntry ELSE EntryOf(c, j)
<1> DEFINE sh  == ShardFor(c, k)
           new == Get(sh, k, now).shard
<1>1. /\ ReadIn(c, k) = [c EXCEPT ![ShardOf[k]] = new]
      /\ sh \in ShardStates
      /\ ShardOf[k] \in Shards /\ ShardOf[j] \in Shards
      /\ DOMAIN c = Shards
  BY ShardForFacts DEF ReadIn, ShardFor, GoodCaches
<1>2. new.store[j] = IF j = k /\ sh.store[k] # NoEntry /\ IsExpired(sh.store[k], now)
                     THEN NoEntry ELSE sh.store[j]
  BY <1>1, GetStore
<1>3. CASE ShardOf[j] = ShardOf[k]
  <2>1. ShardFor(ReadIn(c, k), j) = new /\ ShardFor(c, j) = sh
    BY <1>1, <1>3 DEF ShardFor
  <2> HIDE DEF new
  <2> QED
    BY <1>2, <2>1 DEF EntryOf
<1>4. CASE ShardOf[j] # ShardOf[k]
  <2>1. ShardFor(ReadIn(c, k), j) = ShardFor(c, j) /\ j # k
    BY <1>1, <1>4 DEF ShardFor
  <2> QED
    BY <2>1 DEF EntryOf
<1> QED
  BY <1>3, <1>4

\* What a cache holds, in terms of its entry.
LEMMA HoldsFacts ==
    ASSUME NEW c \in GoodCaches, NEW k \in Keys
    PROVE  Holds(c, k) <=> EntryOf(c, k) # NoEntry /\ ~IsExpired(EntryOf(c, k), now)
BY NewCacheFacts DEF Holds, Exists, EntryOf

\* After the repair of k either all responsible nodes hold it, or none does,
\* as before; what any member holds of other keys has not changed.
LEMMA RepairHolds ==
    ASSUME ClusterInv, NEW k \in Keys, RepairKey(k), ShardCapacity = 0,
           NEW n \in ring.nodes
    PROVE  /\ n \in Elements(NodesFor(ring, k)) =>
                 (Holds(nodeCache'[n], k)
                     <=> \E m \in Elements(NodesFor(ring, k)) : Holds(nodeCache[m], k))
           /\ n \notin Elements(NodesFor(ring, k)) => nodeCache'[n] = nodeCache[n]
           /\ \A j \in Keys \ {k} : Holds(nodeCache'[n], j) <=> Holds(nodeCache[n], j)
<1> DEFINE S == Elements(NodesFor(ring, k))
<1>1. PICK e :
          /\ S \in SUBSET (ring.nodes \ failedNodes)
          /\ (\E m \in S : Holds(nodeCache[m], k))
                => e \in Entry /\ ~IsExpired(e, now)
          /\ \A m \in Nodes \ S : nodeCache'[m] = nodeCache[m]
          /\ \A m \in S :
                RepairedCache(nodeCache[m], k, e,
                              /\ ~Holds(nodeCache[m], k)
                              /\ \E x \in S : Holds(nodeCache[x], k),
                              nodeCache'[m])
  BY RepairFacts
<1>2. S = Elements(NodesFor(ring, k))
  OBVIOUS
<1> HIDE DEF S
<1>3. n \in Nodes /\ nodeCache[n] \in GoodCaches
  BY OperationFacts
<1>4. CASE n \notin S
  BY <1>2, <1>1, <1>3, <1>4
<1>5. CASE n \in S
  <2> DEFINE c    == nodeCache[n]
             w    == nodeCache'[n]
             some == \E m \in S : Holds(nodeCache[m], k)
  <2>1. some => e \in Entry /\ ~IsExpired(e, now) /\ e # NoEntry
    BY <1>1, EntryAssumption
  <2>2. Holds(c, k) => some
    BY <1>5
  <2>3. PICK d \in {c, ReadIn(c, k)} :
            w = IF ~Holds(c, k) /\ some THEN PutIn(d, k, e) ELSE d
    BY <1>1, <1>5 DEF RepairedCache
  <2>4. ClusterInv'
    BY RepairStep
  <2>5. w \in GoodCaches
    BY <2>4, RepairStep, InvFacts DEF RepairKey, ClusterInv, Furnished
  <2>6. c \in GoodCaches /\ CanCount(ShardFor(c, k).pol, k)
    BY <1>3, OperationFacts DEF RepairKey
  <2> HIDE DEF c, w, some
  <2>7. /\ ReadIn(c, k) \in GoodCaches
        /\ \A j \in Keys : EntryOf(ReadIn(c, k), j) =
              IF j = k /\ EntryOf(c, k) # NoEntry /\ IsExpired(EntryOf(c, k), now)
              THEN NoEntry ELSE EntryOf(c, j)
    BY <2>6, GetInFacts, ReadInEntries DEF ReadIn
  <2>8. d \in GoodCaches
    BY <2>3, <2>6, <2>7
  <2>9. some => \A j \in Keys :
                   EntryOf(PutIn(d, k, e), j) = IF j = k THEN e ELSE EntryOf(d, j)
    BY <2>1, <2>8, PutInEntries
  <2>10. \A x \in GoodCaches, j \in Keys :
            Holds(x, j) <=> EntryOf(x, j) # NoEntry /\ ~IsExpired(EntryOf(x, j), now)
    BY HoldsFacts
  <2>11. Holds(w, k) <=> some
    BY <2>1, <2>2, <2>3, <2>5, <2>6, <2>7, <2>9, <2>10
  <2>12. \A j \in Keys \ {k} : Holds(w, j) <=> Holds(c, j)
    BY <2>3, <2>5, <2>6, <2>7, <2>9, <2>10
  <2> QED
    BY <1>2, <1>1, <1>5, <2>11, <2>12 DEF c, w, some
<1> QED
  BY <1>4, <1>5

\* A repair that finds a copy leaves one on every responsible node, and no
\* other node's cache changed (distributed_cache.h:177).
THEOREM RepairTheorem == Spec => RepairRestoresReplicas
<1> DEFINE Restored(k) ==
        LET expected == Elements(NodesFor(ring, k))
        IN  /\ RepairKey(k)
            /\ ShardCapacity = 0
            /\ \E n \in expected : Holds(nodeCache[n], k)
            => \A n \in ring.nodes :
                  IF n \in expected THEN Holds(nodeCache[n], k)'
                  ELSE nodeCache'[n] = nodeCache[n]
<1>1. ASSUME ClusterInv, NEW k \in Keys, RepairKey(k), ShardCapacity = 0,
             \E n \in Elements(NodesFor(ring, k)) : Holds(nodeCache[n], k),
             NEW n \in ring.nodes
      PROVE  IF n \in Elements(NodesFor(ring, k)) THEN Holds(nodeCache[n], k)'
             ELSE nodeCache'[n] = nodeCache[n]
  <2>1. now' = now
    BY <1>1 DEF RepairKey
  <2>2. Holds(nodeCache'[n], k) <=> Holds(nodeCache[n], k)'
    BY <2>1 DEF Holds
  <2> QED
    BY <1>1, <2>2, RepairHolds
<1>2. ClusterInv /\ [Next]_vars => [\A k \in Keys : Restored(k)]_vars
  BY <1>1
<1> QED
  BY <1>2, ClusterInvariant, PTL DEF Spec, RepairRestoresReplicas

----------------------------------------------------------------------------
(* The pass of the repair thread: whatever it does to the cluster is a     *)
(* repairKey of some key.                                                  *)

\* The pass compares and repairs keys of the cluster only.
KeyInv == at \in {"compare", "repair"} => key \in Keys

LEMMA KeyInvariant == ASpec => []KeyInv
<1>1. AInit => KeyInv
  BY DEF AInit, KeyInv
<1>2. KeyInv /\ [ANext]_avars => KeyInv'
  <2> SUFFICES ASSUME KeyInv, [ANext]_avars PROVE KeyInv'
    OBVIOUS
  <2> USE DEF KeyInv
  <2>1. CASE Begin
    BY <2>1 DEF Begin
  <2>2. ASSUME NEW n \in Nodes, CollectKeys(n) PROVE KeyInv'
    BY <2>2 DEF CollectKeys
  <2>3. ASSUME NEW k \in Keys, Count(k) PROVE KeyInv'
    BY <2>3 DEF Count
  <2>4. CASE Compare
    BY <2>4 DEF Compare
  <2>5. CASE Repair
    BY <2>5 DEF Repair
  <2>6. CASE End
    BY <2>6 DEF End
  <2>7. CASE Disturb
    BY <2>7 DEF Disturb, passVars
  <2>8. CASE UNCHANGED avars
    BY <2>8 DEF avars, passVars
  <2> QED
    BY <2>1, <2>2, <2>3, <2>4, <2>5, <2>6, <2>7, <2>8 DEF ANext, Pass
<1> QED
  BY <1>1, <1>2, PTL DEF ASpec

\* The cluster with its repair thread is a cluster whose keys are repaired at
\* some time: what DistributedCache shows of every state and step holds
\* beside the thread as well (anti_entropy.cpp:67-113).
THEOREM PassImplementsCluster == ASpec => Spec
<1>1. AInit => Init
  BY DEF AInit
<1>2. KeyInv /\ [ANext]_avars => [Next]_vars
  <2> SUFFICES ASSUME KeyInv, [ANext]_avars PROVE [Next]_vars
    OBVIOUS
  <2>1. CASE Repair
    <3>1. key \in Keys /\ RepairKey(key)
      BY <2>1 DEF Repair, KeyInv
    <3> QED
      BY <3>1 DEF Next
  <2>2. CASE Disturb
    BY <2>2 DEF Disturb, Next
  <2>3. CASE Pass /\ ~Repair
    BY <2>3 DEF Pass, Begin, CollectKeys, Count, Compare, End
  <2>4. CASE UNCHANGED avars
    BY <2>4 DEF avars
  <2> QED
    BY <2>1, <2>2, <2>3, <2>4 DEF ANext
<1> QED
  BY <1>1, <1>2, KeyInvariant, PTL DEF ASpec, Spec

\* The copies of a key that are counted are at most as many as the members.
LEMMA CountedFacts ==
    ASSUME ClusterInv, NEW k \in Keys
    PROVE  LET counted == {n \in Nodes \ failedNodes : Holds(nodeCache[n], k)}
           IN  /\ IsFiniteSet(Nodes) /\ Cardinality(Nodes) \in Nat
               /\ IsFiniteSet(ring.nodes) /\ Cardinality(ring.nodes) \in Nat
               /\ counted \subseteq ring.nodes
               /\ Cardinality(counted) \in Nat
               /\ Cardinality(counted) <= Cardinality(ring.nodes)
               /\ Cardinality(counted) = Cardinality(ring.nodes) => counted = ring.nodes
               /\ Cardinality(counted) <= Cardinality(Nodes)
<1> DEFINE counted == {n \in Nodes \ failedNodes : Holds(nodeCache[n], k)}
<1>1. ring.nodes \subseteq Nodes /\ Separate(NodeHashes)
  BY NodesForFacts DEF ClusterInv
<1>2. IsFiniteSet(Nodes) /\ IsFiniteSet(ring.nodes)
  BY <1>1, NodesFinite, FS_Subset
<1>3. counted \subseteq ring.nodes /\ counted \subseteq Nodes
  BY InvFacts DEF Holds
<1> HIDE DEF counted
<1>4. /\ IsFiniteSet(counted)
      /\ Cardinality(counted) <= Cardinality(ring.nodes)
      /\ Cardinality(counted) = Cardinality(ring.nodes) => counted = ring.nodes
      /\ Cardinality(counted) <= Cardinality(Nodes)
  BY <1>2, <1>3, FS_Subset
<1> QED
  BY <1>2, <1>3, <1>4, FS_CardinalityType DEF counted

\* The thread's own variables have their types.
ThreadTypes ==
    /\ at \in {"asleep", "scan", "compare", "repair"}
    /\ nodesLeft \in SUBSET Nodes
    /\ keysLeft \in SUBSET Keys
    /\ key \in Keys \cup {NoKey}
    /\ actual \in 0 .. Cardinality(Nodes)
    /\ quiet \in BOOLEAN

\* Every reachable cluster with its repair thread has its types.
THEOREM ATypeTheorem == ASpec => []ATypeOK
<1>1. 0 \in 0 .. Cardinality(Nodes)
  <2>1. IsFiniteSet(Nodes)
    <3>1. Separate(NodeHashes)
      BY ClusterAssumption DEF Separate
    <3> QED
      BY <3>1, NodesFinite
  <2> QED
    BY <2>1, FS_CardinalityType
<1>2. AInit /\ ClusterInv => ThreadTypes
  <2> SUFFICES ASSUME AInit, ClusterInv PROVE ThreadTypes
    OBVIOUS
  <2> QED
    BY <1>1 DEF AInit, ThreadTypes
<1>3. ThreadTypes /\ ClusterInv /\ KeyInv /\ [ANext]_avars => ThreadTypes'
  <2> SUFFICES ASSUME ThreadTypes, ClusterInv, KeyInv, [ANext]_avars
               PROVE  ThreadTypes'
    OBVIOUS
  <2> USE DEF ThreadTypes
  <2>1. CASE Begin
    <3>1. ring.nodes \subseteq Nodes
      BY DEF ClusterInv, Complete, Rings
    <3> QED
      BY <2>1, <3>1 DEF Begin, AllHealthyNodes
  <2>2. ASSUME NEW n \in Nodes, CollectKeys(n) PROVE ThreadTypes'
    BY <2>2 DEF CollectKeys, KeysOnNode
  <2>3. ASSUME NEW k \in Keys, Count(k) PROVE ThreadTypes'
    <3>1. ActualReplicationCount(k) \in 0 .. Cardinality(Nodes)
      BY CountedFacts DEF ActualReplicationCount
    <3> QED
      BY <2>3, <3>1 DEF Count
  <2>4. CASE Compare
    BY <1>1, <2>4 DEF Compare
  <2>5. CASE Repair
    BY <2>5 DEF Repair
  <2>6. CASE End
    BY <2>6 DEF End
  <2>7. CASE Disturb
    BY <2>7 DEF Disturb, passVars
  <2>8. CASE UNCHANGED avars
    BY <2>8 DEF avars, passVars
  <2> QED
    BY <2>1, <2>2, <2>3, <2>4, <2>5, <2>6, <2>7, <2>8 DEF ANext, Pass
<1>4. ThreadTypes /\ TypeOK => ATypeOK
  BY DEF ThreadTypes, ATypeOK
<1> QED
  BY <1>2, <1>3, <1>4, PassImplementsCluster, ClusterInvariant, TypeTheorem,
     KeyInvariant, PTL DEF ASpec

----------------------------------------------------------------------------
(* A pass that nobody disturbs.                                            *)

\* The pass has still to come to k: it will find k on a node that it has not
\* scanned yet, or has found it, or is at it.
Pending(k) ==
    \/ at = "scan" /\ \E n \in nodesLeft : k \in KeysOnNode(n)
    \/ k \in keysLeft
    \/ at \in {"compare", "repair"} /\ key = k

\* As long as nobody disturbs it, a pass has still to come to every key that
\* lacks a copy, and what it counted is so.
QuietInv ==
    /\ at = "asleep" => keysLeft = {}
    /\ quiet /\ ShardCapacity = 0 =>
          /\ at = "compare" => actual = ActualReplicationCount(key)
          /\ \A k \in Keys : Replicated(k) \/ Pending(k)

\* A key that lacks a copy is found on some member.
LEMMA FoundFacts ==
    ASSUME ClusterInv, NEW k \in Keys, ~Replicated(k)
    PROVE  \E n \in ring.nodes : k \in KeysOnNode(n)
<1>1. PICK n \in Elements(NodesFor(ring, k)) : Holds(nodeCache[n], k)
  BY DEF Replicated
<1>2. n \in ring.nodes \ failedNodes
  BY <1>1, OperationFacts
<1> QED
  BY <1>1, <1>2 DEF KeysOnNode

\* A key with as many copies as a pass expects is on every member.
LEMMA EnoughFacts ==
    ASSUME ClusterInv, NEW k \in Keys, ~(ActualReplicationCount(k) < ExpectedCount)
    PROVE  Replicated(k)
<1> DEFINE counted == {n \in Nodes \ failedNodes : Holds(nodeCache[n], k)}
<1>1. /\ Cardinality(ring.nodes) \in Nat
      /\ Cardinality(counted) \in Nat
      /\ Cardinality(counted) <= Cardinality(ring.nodes)
      /\ Cardinality(counted) = Cardinality(ring.nodes) => counted = ring.nodes
  BY CountedFacts
<1>2. ExpectedCount \in Nat /\ Cardinality(ring.nodes) <= ExpectedCount
  BY <1>1, ClusterAssumption DEF ExpectedCount, AllHealthyNodes
<1>3. ~(Cardinality(counted) < ExpectedCount)
  BY DEF ActualReplicationCount
<1>4. counted = ring.nodes
  <2> HIDE DEF counted
  <2> QED
    BY <1>1, <1>2, <1>3
<1>5. \A n \in ring.nodes : Holds(nodeCache[n], k)
  BY <1>4
<1> QED
  BY <1>5, OperationFacts DEF Replicated

\* The repair of a key gives it its copies, and takes none from another key.
LEMMA RepairReplicates ==
    ASSUME ClusterInv, NEW k \in Keys, RepairKey(k), ShardCapacity = 0
    PROVE  /\ Replicated(k)'
           /\ \A j \in Keys : Replicated(j) => Replicated(j)'
<1>1. UNCHANGED <<ring, failedNodes, now>>
  BY DEF RepairKey
<1>2. \A j \in Keys : NodesFor(ring, j)' = NodesFor(ring, j)
  BY <1>1 DEF NodesFor
<1>3. \A n \in Nodes, j \in Keys : Holds(nodeCache[n], j)' = Holds(nodeCache'[n], j)
  BY <1>1 DEF Holds
<1>4. \A j \in Keys : Elements(NodesFor(ring, j)) \subseteq ring.nodes \cap Nodes
  BY OperationFacts
<1>5. Replicated(k)'
  BY <1>2, <1>3, <1>4, RepairHolds DEF Replicated
<1>6. ASSUME NEW j \in Keys \ {k}, Replicated(j)
      PROVE  Replicated(j)'
  BY <1>2, <1>3, <1>4, <1>6, RepairHolds DEF Replicated
<1> QED
  BY <1>5, <1>6

LEMMA QuietStep ==
    ASSUME QuietInv, ClusterInv, KeyInv, [ANext]_avars
    PROVE  QuietInv'
<1>1. UNCHANGED vars =>
         /\ \A k \in Keys : Replicated(k)' <=> Replicated(k)
         /\ \A n : KeysOnNode(n)' = KeysOnNode(n)
         /\ \A k : ActualReplicationCount(k)' = ActualReplicationCount(k)
  BY DEF vars, Replicated, NodesFor, Holds, KeysOnNode, ActualReplicationCount
<1>2. CASE Begin
  BY <1>1, <1>2, FoundFacts DEF Begin, AllHealthyNodes, QuietInv, Pending
<1>3. ASSUME NEW n \in Nodes, CollectKeys(n) PROVE QuietInv'
  BY <1>1, <1>3 DEF CollectKeys, QuietInv, Pending
<1>4. ASSUME NEW k \in Keys, Count(k) PROVE QuietInv'
  BY <1>1, <1>4 DEF Count, QuietInv, Pending
<1>5. CASE Compare
  <2>1. UNCHANGED vars /\ key \in Keys
    BY <1>5 DEF Compare, KeyInv
  <2>2. quiet /\ ShardCapacity = 0 /\ ~(actual < ExpectedCount) => Replicated(key)
    BY <1>5, <2>1, EnoughFacts DEF Compare, QuietInv
  <2> QED
    BY <1>1, <1>5, <2>1, <2>2 DEF Compare, QuietInv, Pending
<1>6. CASE Repair
  <2>1. PICK k \in Keys : k = key /\ RepairKey(k)
    BY <1>6 DEF Repair, KeyInv
  <2>2. ShardCapacity = 0 =>
           Replicated(k)' /\ \A j \in Keys : Replicated(j) => Replicated(j)'
    BY <2>1, RepairReplicates
  <2> QED
    BY <1>6, <2>1, <2>2 DEF Repair, QuietInv, Pending
<1>7. CASE End
  BY <1>1, <1>7 DEF End, QuietInv, Pending
<1>8. CASE Disturb
  BY <1>8 DEF Disturb, passVars, QuietInv
<1>9. CASE UNCHANGED avars
  BY <1>1, <1>9 DEF avars, passVars, QuietInv, Pending
<1> QED
  BY <1>2, <1>3, <1>4, <1>5, <1>6, <1>7, <1>8, <1>9 DEF ANext, Pass

\* A pass that nobody disturbed leaves no key under-replicated
\* (anti_entropy.cpp:67-105).
THEOREM QuietTheorem == ASpec => []QuietPassRestores
<1>1. AInit => QuietInv
  BY DEF AInit, QuietInv
<1>2. QuietInv => QuietPassRestores
  BY DEF QuietInv, QuietPassRestores, FullyReplicated, Pending
<1> QED
  BY <1>1, <1>2, QuietStep, PassImplementsCluster, ClusterInvariant, KeyInvariant,
     PTL DEF ASpec

----------------------------------------------------------------------------
(* The copies of a key in a cluster whose members stay the same.           *)

\* The distance of a node from a key on the ring.
From(k, n) == Distance(NodeHashes, n, KeyHash[k])

\* With k responsible is whoever is at most as far away as one that is.
LEMMA ResponsibleClosed ==
    ASSUME NEW r, Complete(r, NodeHashes), NEW k \in Keys,
           NEW x \in Elements(NodesFor(r, k)), NEW y \in r.nodes \ failedNodes,
           From(k, y) < From(k, x)
    PROVE  y \in Elements(NodesFor(r, k))
<1> DEFINE healthy == r.nodes \ failedNodes
           limit   == Replicas + 1
           p       == KeyHash[k]
           Nearer(z) == Closer(NodeHashes, healthy, z, p)
<1>1. /\ Separate(NodeHashes) /\ p \in Positions /\ Replicas \in Nat
      /\ r.nodes \subseteq Nodes
  BY NodesForFacts
<1>2. Elements(NodesFor(r, k)) = Nearby(NodeHashes, healthy, p, limit)
  BY <1>1, ExpectedMembers DEF NodesFor
<1>3. x \in healthy /\ Cardinality(Nearer(x)) < limit
  BY <1>2 DEF Nearby
<1>4. IsFiniteSet(healthy)
  BY <1>1, NodesFinite, FS_Subset
<1>5. \A z \in healthy : From(k, z) \in Int
  BY <1>1, DistanceFacts, PositionsAreNumbers DEF From
<1>6. Nearer(y) \subseteq Nearer(x)
  BY <1>3, <1>5 DEF Closer, From
<1>7. Nearer(x) \subseteq healthy
  BY DEF Closer
<1> HIDE DEF Nearer, healthy
<1>8. /\ Cardinality(Nearer(y)) \in Nat /\ Cardinality(Nearer(x)) \in Nat
      /\ Cardinality(Nearer(y)) <= Cardinality(Nearer(x))
  BY <1>4, <1>6, <1>7, FS_Subset, FS_CardinalityType
<1>9. Cardinality(Nearer(y)) < limit
  BY <1>1, <1>3, <1>8
<1> QED
  BY <1>2, <1>9 DEF Nearby, Nearer, healthy

\* A node that is responsible for k stays so when others fail.
LEMMA ResponsibleStays ==
    ASSUME NEW r, Complete(r, NodeHashes), NEW k \in Keys, NEW more,
           failedNodes \subseteq more, NEW x \in Elements(NodesFor(r, k)), x \notin more
    PROVE  x \in Elements(ExpectedNodes(r, KeyHash[k], Replicas, more))
<1> DEFINE healthy == r.nodes \ failedNodes
           left    == r.nodes \ more
           limit   == Replicas + 1
           p       == KeyHash[k]
           Nearer(S) == Closer(NodeHashes, S, x, p)
<1>1. /\ Separate(NodeHashes) /\ p \in Positions /\ Replicas \in Nat
      /\ r.nodes \subseteq Nodes
  BY NodesForFacts
<1>2. Elements(NodesFor(r, k)) = Nearby(NodeHashes, healthy, p, limit)
  BY <1>1, ExpectedMembers DEF NodesFor
<1>3. Elements(ExpectedNodes(r, p, Replicas, more)) = Nearby(NodeHashes, left, p, limit)
  BY <1>1, ExpectedMembers
<1>4. x \in left /\ Cardinality(Nearer(healthy)) < limit
  BY <1>2 DEF Nearby
<1>5. IsFiniteSet(healthy)
  BY <1>1, NodesFinite, FS_Subset
<1>6. Nearer(left) \subseteq Nearer(healthy) /\ Nearer(healthy) \subseteq healthy
  BY DEF Closer
<1> HIDE DEF Nearer, healthy, left
<1>7. /\ Cardinality(Nearer(left)) \in Nat /\ Cardinality(Nearer(healthy)) \in Nat
      /\ Cardinality(Nearer(left)) <= Cardinality(Nearer(healthy))
  BY <1>5, <1>6, FS_Subset, FS_CardinalityType
<1>8. Cardinality(Nearer(left)) < limit
  BY <1>1, <1>4, <1>7
<1> QED
  BY <1>3, <1>4, <1>8 DEF Nearby, Nearer

\* del: the key goes, the others stay.
LEMMA DeleteInEntries ==
    ASSUME NEW c \in GoodCaches, NEW k \in Keys, NEW j \in Keys
    PROVE  EntryOf([c EXCEPT ![ShardOf[k]] = Delete(@, k)], j)
             = IF j = k THEN NoEntry ELSE EntryOf(c, j)
<1>1. /\ ShardOf[k] \in Shards /\ ShardOf[j] \in Shards /\ DOMAIN c = Shards
      /\ ShardFor(c, k) \in ShardStates
  BY ShardForFacts DEF GoodCaches
<1>2. Delete(ShardFor(c, k), k).store[j]
        = IF j = k THEN NoEntry ELSE ShardFor(c, k).store[j]
  BY DEF Delete, Erase
<1> QED
  BY <1>1, <1>2 DEF EntryOf, ShardFor

\* set and setWithTtl, by whether they succeed.
LEMMA PutInOutcome ==
    ASSUME NEW c \in GoodCaches, NEW k \in Keys, NEW e \in Entry
    PROVE  /\ EntryOf(PutIn(c, k, e), k) = IF PutOk(c, k, e) THEN e ELSE NoEntry
           /\ ~PutOk(c, k, e) => EntryOf(c, k) = NoEntry
<1>1. /\ ShardOf[k] \in Shards /\ DOMAIN c = Shards
      /\ ShardFor(c, k) \in ShardStates
  BY ShardForFacts DEF GoodCaches
<1>2. EntryOf(PutIn(c, k, e), k) = Put(ShardFor(c, k), k, e).shard.store[k]
  BY <1>1 DEF EntryOf, PutIn, ShardFor
<1>3. EntryOf(c, k) = ShardFor(c, k).store[k]
  BY DEF EntryOf
<1> QED
  BY <1>1, <1>2, <1>3, PutStore DEF PutOk

\* A new cache holds nothing.
LEMMA NewCacheEmpty == \A k \in Keys : EntryOf(NewCache, k) = NoEntry
BY ShardForFacts DEF EntryOf, ShardFor, NewCache, NewShard, EmptyStore

\* What a node may hold of a key whose last acknowledged entry is l.
Matches(e, l) ==
    /\ l # NoEntry
    /\ e.data = l.data
    /\ l.expiry = NoExpiry => e = l

\* Every copy at a healthy node, live or not, is at a responsible one and
\* matches what was last written.
CopyInv ==
    \A n \in ring.nodes \ failedNodes, k \in Keys :
        EntryOf(nodeCache[n], k) # NoEntry =>
            /\ n \in Elements(NodesFor(ring, k))
            /\ Matches(EntryOf(nodeCache[n], k), latest[k])

\* A node that takes part before and after a step holds less of every key but
\* k, and of k what matches the entry l.
LEMMA CopyUpdate ==
    ASSUME CopyInv, NEW k \in Keys, NEW l,
           latest' = [latest EXCEPT ![k] = l], DOMAIN latest = Keys,
           UNCHANGED <<ring, failedNodes>>,
           \A n \in ring.nodes \ failedNodes, j \in Keys \ {k} :
               EntryOf(nodeCache'[n], j) \in {EntryOf(nodeCache[n], j), NoEntry},
           \A n \in ring.nodes \ failedNodes :
               EntryOf(nodeCache'[n], k) # NoEntry =>
                   /\ n \in Elements(NodesFor(ring, k))
                   /\ Matches(EntryOf(nodeCache'[n], k), l)
    PROVE  CopyInv'
<1>1. \A j \in Keys : NodesFor(ring, j)' = NodesFor(ring, j)
  BY DEF NodesFor
<1>2. \A j \in Keys : latest'[j] = IF j = k THEN l ELSE latest[j]
  OBVIOUS
<1>3. ASSUME NEW n \in ring.nodes \ failedNodes, NEW j \in Keys,
             EntryOf(nodeCache'[n], j) # NoEntry
      PROVE  /\ n \in Elements(NodesFor(ring, j))
             /\ Matches(EntryOf(nodeCache'[n], j), latest'[j])
  <2>1. CASE j = k
    BY <1>2, <1>3, <2>1
  <2>2. CASE j # k
    <3>1. EntryOf(nodeCache'[n], j) = EntryOf(nodeCache[n], j)
      BY <1>3, <2>2
    <3> QED
      BY <1>2, <1>3, <2>2, <3>1 DEF CopyInv
  <2> QED
    BY <2>1, <2>2
<1>4. \A n \in ring.nodes \ failedNodes, j \in Keys :
         EntryOf(nodeCache[n], j)' = EntryOf(nodeCache'[n], j)
  BY DEF EntryOf, ShardFor
<1> QED
  BY <1>1, <1>3, <1>4 DEF CopyInv, Elements, Matches

HistoryTypes ==
    /\ latest \in [Keys -> Entry \cup {NoEntry}]
    /\ took \in [Keys -> SUBSET Nodes]
    /\ kept \in [Keys -> SUBSET Nodes]

\* A set writes its entry to all responsible nodes, or leaves the old ones.
LEMMA WriteCopies ==
    ASSUME ClusterInv, HistoryTypes, CopyInv, NEW k \in Keys, NEW e \in Entry,
           Write(k, e)
    PROVE  CopyInv'
<1> DEFINE expected == NodesFor(ring, k)
           ok       == PutOk(nodeCache[Head(expected)], k, e)
           targets  == IF ok THEN Elements(expected) ELSE {Head(expected)}
           l        == IF ok THEN e ELSE latest[k]
<1>1. /\ expected # <<>>
      /\ nodeCache' = [n \in Nodes |-> IF n \in targets
                                       THEN PutIn(nodeCache[n], k, e)
                                       ELSE nodeCache[n]]
      /\ UNCHANGED <<ring, failedNodes>>
  BY DEF Write, SetEntry
<1>2. latest' = [latest EXCEPT ![k] = l] /\ DOMAIN latest = Keys
  BY DEF Write, HistoryTypes
<1>3. Head(expected) \in Elements(expected)
      /\ Elements(expected) \subseteq ring.nodes \ failedNodes
  BY <1>1, NodesForFacts DEF ClusterInv
<1>4. Elements(expected) = Elements(NodesFor(ring, k))
  OBVIOUS
<1> HIDE DEF expected, targets
<1>5. ASSUME NEW n \in ring.nodes \ failedNodes
      PROVE  /\ \A j \in Keys \ {k} :
                   EntryOf(nodeCache'[n], j) \in {EntryOf(nodeCache[n], j), NoEntry}
             /\ EntryOf(nodeCache'[n], k) # NoEntry =>
                   n \in Elements(expected) /\ Matches(EntryOf(nodeCache'[n], k), l)
  <2>1. n \in Nodes /\ nodeCache[n] \in GoodCaches
    BY OperationFacts
  <2>2. CASE n \in targets
    <3>1. nodeCache'[n] = PutIn(nodeCache[n], k, e)
      BY <1>1, <2>1, <2>2
    <3>2. \A j \in Keys \ {k} :
             EntryOf(nodeCache'[n], j) \in {EntryOf(nodeCache[n], j), NoEntry}
      BY <2>1, <3>1, PutInEntries
    <3>3. EntryOf(nodeCache'[n], k) \in {e, NoEntry}
      BY <2>1, <3>1, PutInOutcome
    <3>4. CASE ok
      BY <1>3, <2>2, <3>2, <3>3, <3>4, EntryAssumption DEF targets, Matches
    <3>5. CASE ~ok
      <4>1. n = Head(expected)
        BY <2>2, <3>5 DEF targets
      <4>2. EntryOf(nodeCache'[n], k) = NoEntry
        BY <2>1, <3>1, <3>5, <4>1, PutInOutcome
      <4> QED
        BY <3>2, <4>2
    <3> QED
      BY <3>4, <3>5
  <2>3. CASE n \notin targets
    <3>1. nodeCache'[n] = nodeCache[n]
      BY <1>1, <2>1, <2>3
    <3>2. ok => n \notin Elements(expected)
      BY <2>3 DEF targets
    <3>3. EntryOf(nodeCache[n], k) # NoEntry
            => n \in Elements(expected) /\ Matches(EntryOf(nodeCache[n], k), latest[k])
      BY <1>4 DEF CopyInv
    <3> QED
      BY <3>1, <3>2, <3>3
  <2> QED
    BY <2>2, <2>3
<1> HIDE DEF l
<1> QED
  BY <1>1, <1>2, <1>4, <1>5, CopyUpdate

\* A step that writes nothing of k and forgets perhaps some of it.
LEMMA ForgetCopies ==
    ASSUME HistoryTypes, CopyInv, NEW k \in Keys, UNCHANGED latest,
           UNCHANGED <<ring, failedNodes>>,
           \A n \in ring.nodes \ failedNodes, j \in Keys :
               EntryOf(nodeCache'[n], j) \in {EntryOf(nodeCache[n], j), NoEntry}
    PROVE  CopyInv'
<1>1. latest' = [latest EXCEPT ![k] = latest[k]] /\ DOMAIN latest = Keys
  BY DEF HistoryTypes
<1>2. \A n \in ring.nodes \ failedNodes :
         EntryOf(nodeCache'[n], k) # NoEntry =>
             /\ n \in Elements(NodesFor(ring, k))
             /\ Matches(EntryOf(nodeCache'[n], k), latest[k])
  BY DEF CopyInv
<1> DEFINE l == latest[k]
<1> HIDE DEF l
<1> QED
  BY <1>1, <1>2, CopyUpdate DEF l

\* get removes an expired entry at most.
LEMMA GetCopies ==
    ASSUME ClusterInv, HistoryTypes, CopyInv, NEW k \in Keys, GetKey(k),
           UNCHANGED latest
    PROVE  CopyInv'
<1> DEFINE primary == Primary(ring, k)
<1>1. /\ nodeCache' = [nodeCache EXCEPT ![primary] = ReadIn(@, k)]
      /\ UNCHANGED <<ring, failedNodes>>
  BY DEF GetKey, ReadIn
<1> HIDE DEF primary
<1>2. ASSUME NEW n \in ring.nodes \ failedNodes, NEW j \in Keys
      PROVE  EntryOf(nodeCache'[n], j) \in {EntryOf(nodeCache[n], j), NoEntry}
  <2>1. /\ n \in Nodes /\ nodeCache[n] \in GoodCaches
        /\ DOMAIN nodeCache = Nodes
    BY OperationFacts DEF ClusterInv, Furnished
  <2>2. nodeCache'[n] \in {nodeCache[n], ReadIn(nodeCache[n], k)}
    BY <1>1, <2>1
  <2>3. EntryOf(ReadIn(nodeCache[n], k), j) \in {EntryOf(nodeCache[n], j), NoEntry}
    BY <2>1, ReadInEntries
  <2> QED
    BY <2>2, <2>3
<1> QED
  BY <1>1, <1>2, ForgetCopies

\* del reaches every copy.
LEMMA DelCopies ==
    ASSUME ClusterInv, HistoryTypes, CopyInv, NEW k \in Keys, Del(k), Erasing({k})
    PROVE  CopyInv'
<1> DEFINE S == Elements(NodesFor(ring, k))
<1>1. /\ nodeCache' = [n \in Nodes |->
             IF n \in S THEN [nodeCache[n] EXCEPT ![ShardOf[k]] = Delete(@, k)]
             ELSE nodeCache[n]]
      /\ UNCHANGED <<ring, failedNodes>>
  BY DEF Del
<1>2. latest' = [latest EXCEPT ![k] = NoEntry] /\ DOMAIN latest = Keys
  BY DEF Erasing, HistoryTypes
<1> HIDE DEF S
<1>3. ASSUME NEW n \in ring.nodes \ failedNodes, NEW j \in Keys
      PROVE  EntryOf(nodeCache'[n], j)
               = IF j = k THEN NoEntry ELSE EntryOf(nodeCache[n], j)
  <2>1. n \in Nodes /\ nodeCache[n] \in GoodCaches
    BY OperationFacts
  <2>2. CASE n \in S
    <3>1. nodeCache'[n] = [nodeCache[n] EXCEPT ![ShardOf[k]] = Delete(@, k)]
      BY <1>1, <2>1, <2>2
    <3> QED
      BY <2>1, <3>1, DeleteInEntries
  <2>3. CASE n \notin S
    <3>1. nodeCache'[n] = nodeCache[n]
      BY <1>1, <2>1, <2>3
    <3>2. EntryOf(nodeCache[n], k) = NoEntry
      BY <2>3 DEF CopyInv, S
    <3> QED
      BY <3>1, <3>2
  <2> QED
    BY <2>2, <2>3
<1> QED
  BY <1>1, <1>2, <1>3, CopyUpdate

\* clear reaches every cache.
LEMMA ClearCopies ==
    ASSUME ClusterInv, HistoryTypes, CopyInv, Clear
    PROVE  CopyInv'
<1>1. ASSUME NEW n \in ring.nodes, NEW k \in Keys
      PROVE  EntryOf(nodeCache'[n], k) = NoEntry
  <2>1. n \in Nodes /\ nodeCache[n] # NoCache
    BY InvFacts
  <2>2. nodeCache'[n] = NewCache
    BY <2>1 DEF Clear
  <2> QED
    BY <2>2, NewCacheEmpty
<1>2. \A n \in ring.nodes, k \in Keys : EntryOf(nodeCache[n], k)' = EntryOf(nodeCache'[n], k)
  BY DEF EntryOf, ShardFor
<1> QED
  BY <1>1, <1>2 DEF CopyInv, Clear

\* repairKey writes what a copy says, but for its deadline.
LEMMA RepairMatches ==
    ASSUME NEW e \in Entry, NEW l, Matches(e, l)
    PROVE  Matches(RepairEntry(e), l)
<1>1. RepairEntry(e).data = e.data
  BY DEF RepairEntry, Mortal, Immortal
<1>2. e.expiry = NoExpiry => RepairEntry(e) = e
  BY DEF RepairEntry, Immortal, Entry
<1> QED
  BY <1>1, <1>2 DEF Matches

\* A repair copies between responsible nodes.
LEMMA RepairCopies ==
    ASSUME ClusterInv, HistoryTypes, CopyInv, NEW k \in Keys, RepairKey(k),
           UNCHANGED latest
    PROVE  CopyInv'
<1> DEFINE S == Elements(NodesFor(ring, k))
           some == \E m \in S : Holds(nodeCache[m], k)
           l == latest[k]
<1>1. PICK e :
          /\ S \in SUBSET (ring.nodes \ failedNodes)
          /\ some => /\ e \in Entry /\ ~IsExpired(e, now)
                     /\ \E m \in S : /\ Holds(nodeCache[m], k)
                                     /\ e = RepairEntry(EntryOf(nodeCache[m], k))
          /\ \A n \in Nodes \ S : nodeCache'[n] = nodeCache[n]
          /\ \A n \in S :
                RepairedCache(nodeCache[n], k, e,
                              ~Holds(nodeCache[n], k) /\ some, nodeCache'[n])
          /\ CanCountAll(k)
          /\ UNCHANGED <<ring, failedNodes, now>>
  BY RepairFacts
<1>2. latest' = [latest EXCEPT ![k] = l] /\ DOMAIN latest = Keys
  BY DEF HistoryTypes
<1>3. S = Elements(NodesFor(ring, k))
  OBVIOUS
<1>4. \A n \in ring.nodes \ failedNodes :
         EntryOf(nodeCache[n], k) # NoEntry
             => n \in S /\ Matches(EntryOf(nodeCache[n], k), l)
  BY DEF CopyInv
<1>5. some => e \in Entry /\ Matches(e, l)
  <2> SUFFICES ASSUME some PROVE e \in Entry /\ Matches(e, l)
    OBVIOUS
  <2>1. PICK m \in S : Holds(nodeCache[m], k) /\ e = RepairEntry(EntryOf(nodeCache[m], k))
    BY <1>1
  <2>2. m \in ring.nodes \ failedNodes /\ nodeCache[m] \in GoodCaches
    BY <1>1, <2>1, OperationFacts
  <2>3. EntryOf(nodeCache[m], k) # NoEntry /\ EntryOf(nodeCache[m], k) \in Entry
    BY <2>1, <2>2, HoldsFacts, ShardForFacts
  <2> QED
    BY <1>1, <1>4, <2>1, <2>2, <2>3, RepairMatches
<1> HIDE DEF S, l, some
<1>6. ASSUME NEW n \in ring.nodes \ failedNodes
      PROVE  /\ \A j \in Keys \ {k} :
                   EntryOf(nodeCache'[n], j) \in {EntryOf(nodeCache[n], j), NoEntry}
             /\ EntryOf(nodeCache'[n], k) # NoEntry =>
                   n \in S /\ Matches(EntryOf(nodeCache'[n], k), l)
  <2>1. /\ n \in Nodes /\ nodeCache[n] \in GoodCaches
        /\ CanCount(ShardFor(nodeCache[n], k).pol, k)
    BY <1>1, OperationFacts
  <2>2. CASE n \notin S
    BY <1>1, <1>4, <2>1, <2>2
  <2>3. CASE n \in S
    <3> DEFINE c == nodeCache[n]
               lacks == ~Holds(c, k) /\ some
    <3>1. PICK d \in {c, ReadIn(c, k)} :
              nodeCache'[n] = IF lacks THEN PutIn(d, k, e) ELSE d
      BY <1>1, <2>3 DEF RepairedCache
    <3> HIDE DEF c
    <3>2. d \in GoodCaches
      BY <2>1, <3>1, GetInFacts DEF ReadIn, c
    <3>3. \A j \in Keys : EntryOf(d, j) \in {EntryOf(c, j), NoEntry}
      BY <2>1, <3>1, ReadInEntries DEF c
    <3>4. CASE lacks
      <4>1. nodeCache'[n] = PutIn(d, k, e) /\ e \in Entry /\ Matches(e, l)
        BY <1>5, <3>1, <3>4
      <4>2. /\ \A j \in Keys \ {k} :
                  EntryOf(PutIn(d, k, e), j) \in {EntryOf(d, j), NoEntry}
            /\ EntryOf(PutIn(d, k, e), k) \in {e, NoEntry}
        BY <3>2, <4>1, PutInEntries
      <4> QED
        BY <2>3, <3>3, <4>1, <4>2 DEF c
    <3>5. CASE ~lacks
      BY <1>4, <2>3, <3>1, <3>3, <3>5 DEF c
    <3> QED
      BY <3>4, <3>5
  <2> QED
    BY <2>2, <2>3
<1>7. /\ \A n \in ring.nodes \ failedNodes, j \in Keys \ {k} :
            EntryOf(nodeCache'[n], j) \in {EntryOf(nodeCache[n], j), NoEntry}
      /\ \A n \in ring.nodes \ failedNodes :
            EntryOf(nodeCache'[n], k) # NoEntry =>
                n \in Elements(NodesFor(ring, k)) /\ Matches(EntryOf(nodeCache'[n], k), l)
  BY <1>3, <1>6
<1> QED
  BY <1>1, <1>2, <1>7, CopyUpdate

\* A node that fails leaves the copies of the others where they belong.
LEMMA FailureCopies ==
    ASSUME ClusterInv, CopyInv, NEW x \in Nodes, MarkNodeFailed(x), UNCHANGED latest
    PROVE  CopyInv'
<1>1. /\ failedNodes' = failedNodes \cup {x}
      /\ UNCHANGED <<ring, nodeCache>>
  BY DEF MarkNodeFailed
<1>2. ASSUME NEW n \in ring.nodes \ failedNodes', NEW k \in Keys,
             EntryOf(nodeCache[n], k) # NoEntry
      PROVE  /\ n \in Elements(NodesFor(ring, k))'
             /\ Matches(EntryOf(nodeCache[n], k), latest[k])
  <2>1. /\ n \in Elements(NodesFor(ring, k))
        /\ Matches(EntryOf(nodeCache[n], k), latest[k])
    BY <1>1, <1>2 DEF CopyInv
  <2>2. n \in Elements(ExpectedNodes(ring, KeyHash[k], Replicas, failedNodes'))
    BY <1>1, <2>1, ResponsibleStays DEF ClusterInv
  <2>3. Elements(NodesFor(ring, k))'
          = Elements(ExpectedNodes(ring, KeyHash[k], Replicas, failedNodes'))
    BY <1>1 DEF NodesFor, Elements
  <2> QED
    BY <2>1, <2>2, <2>3
<1>3. \A n \in ring.nodes, k \in Keys : EntryOf(nodeCache[n], k)' = EntryOf(nodeCache[n], k)
  BY <1>1 DEF EntryOf, ShardFor
<1> QED
  BY <1>1, <1>2, <1>3 DEF CopyInv, Matches

\* The nodes that kept a key took it, are healthy and have it.
KeptInv ==
    \A k \in Keys :
        /\ kept[k] \subseteq took[k]
        /\ \A n \in kept[k] : n \notin failedNodes /\ Holds(nodeCache[n], k)

LEMMA ObserveStep ==
    ASSUME HistoryTypes, KeptInv, Observe, latest' \in [Keys -> Entry \cup {NoEntry}]
    PROVE  HistoryTypes' /\ KeptInv'
<1>1. /\ took' = took
      /\ kept' = [k \in Keys |-> Keeping(k)]
  BY DEF Observe
<1>2. \A k \in Keys : Keeping(k) \subseteq kept[k]
  BY DEF Keeping
<1>3. HistoryTypes'
  BY <1>1, <1>2 DEF HistoryTypes
<1>4. ASSUME NEW k \in Keys
      PROVE  /\ kept'[k] \subseteq took'[k]
             /\ \A n \in kept'[k] : n \notin failedNodes' /\ Holds(nodeCache[n], k)'
  BY <1>1 DEF KeptInv, Keeping
<1> QED
  BY <1>3, <1>4 DEF KeptInv, Holds

LEMMA RenewStep ==
    ASSUME HistoryTypes, KeptInv, NEW k \in Keys, NEW S \in SUBSET Nodes, Renew(k, S),
           \A n \in S : n \notin failedNodes' /\ Holds(nodeCache[n], k)',
           latest' \in [Keys -> Entry \cup {NoEntry}]
    PROVE  /\ HistoryTypes' /\ KeptInv'
           /\ \A j \in Keys : took'[j] = IF j = k THEN S ELSE took[j]
<1>1. /\ took' = [took EXCEPT ![k] = S]
      /\ kept' = [j \in Keys |-> IF j = k THEN S ELSE Keeping(j)]
  BY DEF Renew
<1>2. \A j \in Keys : took'[j] = IF j = k THEN S ELSE took[j]
  BY <1>1 DEF HistoryTypes
<1>3. \A j \in Keys : Keeping(j) \subseteq kept[j]
  BY DEF Keeping
<1>4. HistoryTypes'
  BY <1>1, <1>2, <1>3 DEF HistoryTypes
<1>5. ASSUME NEW j \in Keys
      PROVE  /\ kept'[j] \subseteq took'[j]
             /\ \A n \in kept'[j] : n \notin failedNodes' /\ Holds(nodeCache[n], j)'
  <2>1. CASE j = k
    BY <1>1, <1>2, <2>1
  <2>2. CASE j # k
    <3>1. kept'[j] = Keeping(j) /\ took'[j] = took[j]
      BY <1>1, <1>2, <2>2
    <3> QED
      BY <3>1 DEF KeptInv, Keeping
  <2> QED
    BY <2>1, <2>2
<1> QED
  BY <1>2, <1>4, <1>5 DEF KeptInv, Holds

----------------------------------------------------------------------------
(* Caches that take every key.                                             *)

\* The policies of a cache agree with its store (PolicyTheorem of Cache_proofs,
\* for the cache of a node).
SoundCache(c) == \A i \in Shards : Sound(c[i])

\* The operations on one key keep that.
LEMMA SoundCacheFacts ==
    ASSUME NEW c \in GoodCaches, SoundCache(c), NEW k \in Keys
    PROVE  /\ SoundCache([c EXCEPT ![ShardOf[k]] = Delete(@, k)])
           /\ CanCount(ShardFor(c, k).pol, k) => SoundCache(ReadIn(c, k))
           /\ \A e \in Entry : CanCount(ShardFor(c, k).pol, k)
                                  => SoundCache(PutIn(c, k, e))
<1> DEFINE sh == ShardFor(c, k)
<1>1. /\ ShardOf[k] \in Shards /\ DOMAIN c = Shards
      /\ sh = c[ShardOf[k]] /\ sh \in ShardStates /\ Sound(sh)
  BY ShardForFacts DEF GoodCaches, SoundCache, ShardFor
<1>2. \A x : Sound(x) => SoundCache([c EXCEPT ![ShardOf[k]] = x])
  BY <1>1 DEF SoundCache
<1>3. Sound(Delete(sh, k))
  BY <1>1, RemovalFacts DEF Delete
<1>4. CanCount(sh.pol, k) => Sound(Get(sh, k, now).shard)
  BY <1>1, GetFacts
<1>5. \A e \in Entry : CanCount(sh.pol, k) => Sound(Put(sh, k, e).shard)
  BY <1>1, PutFacts
<1>6. /\ [c EXCEPT ![ShardOf[k]] = Delete(@, k)]
           = [c EXCEPT ![ShardOf[k]] = Delete(sh, k)]
      /\ ReadIn(c, k) = [c EXCEPT ![ShardOf[k]] = Get(sh, k, now).shard]
      /\ \A e : PutIn(c, k, e) = [c EXCEPT ![ShardOf[k]] = Put(sh, k, e).shard]
  BY <1>1 DEF ReadIn, PutIn
<1> HIDE DEF sh
<1>7. SoundCache([c EXCEPT ![ShardOf[k]] = Delete(@, k)])
  BY <1>2, <1>3, <1>6
<1>8. CanCount(sh.pol, k) => SoundCache(ReadIn(c, k))
  BY <1>2, <1>4, <1>6
<1>9. \A e \in Entry : CanCount(sh.pol, k) => SoundCache(PutIn(c, k, e))
  BY <1>2, <1>5, <1>6
<1> QED
  BY <1>7, <1>8, <1>9 DEF sh

\* A new cache is in order.
LEMMA SoundNewCache == SoundCache(NewCache)
BY NewShardFacts DEF SoundCache, NewCache

\* What the caches of all members are.
SoundInv == \A n \in ring.nodes : SoundCache(nodeCache[n])

LEMMA SoundStep ==
    ASSUME ClusterInv, SoundInv, Joining = {}, Leaving = {}, [Next]_vars
    PROVE  SoundInv'
<1> SUFFICES /\ ring' = ring
             /\ \A n \in ring.nodes : SoundCache(nodeCache'[n])
  BY DEF SoundInv, SoundCache, Sound, Stored
<1>1. \A n \in ring.nodes : /\ n \in Nodes /\ nodeCache[n] \in GoodCaches
                            /\ SoundCache(nodeCache[n]) /\ nodeCache[n] # NoCache
  BY InvFacts DEF SoundInv
<1>2. ASSUME NEW k \in Keys, NEW e \in Entry, SetEntry(k, e)
      PROVE  ring' = ring /\ \A n \in ring.nodes : SoundCache(nodeCache'[n])
  <2>1. \A n \in ring.nodes : CanCount(ShardFor(nodeCache[n], k).pol, k)
    BY <1>2, OperationFacts DEF SetEntry
  <2>2. /\ ring' = ring
        /\ \A n \in Nodes : nodeCache'[n] \in {nodeCache[n], PutIn(nodeCache[n], k, e)}
    BY <1>2 DEF SetEntry
  <2> QED
    BY <1>1, <2>1, <2>2, SoundCacheFacts
<1>3. ASSUME NEW k \in Keys, GetKey(k)
      PROVE  ring' = ring /\ \A n \in ring.nodes : SoundCache(nodeCache'[n])
  <2>1. \A n \in ring.nodes : CanCount(ShardFor(nodeCache[n], k).pol, k)
    BY <1>3, OperationFacts DEF GetKey
  <2>2. /\ nodeCache' = [nodeCache EXCEPT ![Primary(ring, k)] = ReadIn(@, k)]
        /\ DOMAIN nodeCache = Nodes /\ ring' = ring
    BY <1>3 DEF GetKey, ReadIn, ClusterInv, Furnished
  <2>3. \A n \in Nodes : nodeCache'[n] \in {nodeCache[n], ReadIn(nodeCache[n], k)}
    BY <2>2
  <2> QED
    BY <1>1, <2>1, <2>2, <2>3, SoundCacheFacts
<1>4. ASSUME NEW k \in Keys, Del(k)
      PROVE  ring' = ring /\ \A n \in ring.nodes : SoundCache(nodeCache'[n])
  <2>1. /\ ring' = ring
        /\ \A n \in Nodes :
              nodeCache'[n] \in {nodeCache[n],
                                 [nodeCache[n] EXCEPT ![ShardOf[k]] = Delete(@, k)]}
    BY <1>4 DEF Del
  <2> QED
    BY <1>1, <2>1, SoundCacheFacts
<1>5. ASSUME Clear
      PROVE  ring' = ring /\ \A n \in ring.nodes : SoundCache(nodeCache'[n])
  <2>1. ring' = ring /\ \A n \in ring.nodes : nodeCache'[n] = NewCache
    BY <1>1, <1>5 DEF Clear
  <2> QED
    BY <2>1, SoundNewCache
<1>6. ASSUME NEW k \in Keys, RepairKey(k)
      PROVE  ring' = ring /\ \A n \in ring.nodes : SoundCache(nodeCache'[n])
  <2> DEFINE S == Elements(NodesFor(ring, k))
             some == \E m \in S : Holds(nodeCache[m], k)
  <2>1. PICK e :
            /\ some => e \in Entry
            /\ \A n \in Nodes \ S : nodeCache'[n] = nodeCache[n]
            /\ \A n \in S : RepairedCache(nodeCache[n], k, e,
                                          ~Holds(nodeCache[n], k) /\ some, nodeCache'[n])
            /\ CanCountAll(k)
            /\ UNCHANGED <<ring, failedNodes, now>>
    BY <1>6, RepairFacts
  <2> HIDE DEF S, some
  <2>2. ASSUME NEW n \in ring.nodes, n \in S
        PROVE  SoundCache(nodeCache'[n])
    <3> DEFINE c == nodeCache[n]
               lacks == ~Holds(c, k) /\ some
    <3>1. c \in GoodCaches /\ SoundCache(c) /\ CanCount(ShardFor(c, k).pol, k)
      BY <1>1, <2>1, OperationFacts
    <3>2. PICK d \in {c, ReadIn(c, k)} :
              nodeCache'[n] = IF lacks THEN PutIn(d, k, e) ELSE d
      BY <2>1, <2>2 DEF RepairedCache
    <3>3. lacks => ~Exists(ShardFor(c, k), k, now) /\ e \in Entry
      BY <1>1, <2>1 DEF Holds
    <3> HIDE DEF c, lacks
    <3>4. /\ ReadIn(c, k) \in GoodCaches
          /\ ~Exists(ShardFor(c, k), k, now)
                => CanCount(ShardFor(ReadIn(c, k), k).pol, k)
      BY <3>1, GetInFacts DEF ReadIn
    <3>5. /\ d \in GoodCaches /\ SoundCache(d)
          /\ lacks => CanCount(ShardFor(d, k).pol, k)
      BY <3>1, <3>2, <3>3, <3>4, SoundCacheFacts
    <3> QED
      BY <3>2, <3>3, <3>5, SoundCacheFacts
  <2> QED
    BY <1>1, <2>1, <2>2
<1>7. ASSUME nodeCache' = nodeCache, ring' = ring
      PROVE  ring' = ring /\ \A n \in ring.nodes : SoundCache(nodeCache'[n])
  BY <1>1, <1>7
<1>8. \A k \in Keys, v \in Values : Set(k, v) => \E e \in Entry : SetEntry(k, e)
  BY WrittenFacts DEF Set, ClusterInv
<1>9. \A k \in Keys, v \in Values, ttl \in Ttls :
         SetWithTtl(k, v, ttl) => \E e \in Entry : SetEntry(k, e)
  BY WrittenFacts, ClusterAssumption DEF SetWithTtl, ClusterInv
<1>10. \A n : MarkNodeFailed(n) => nodeCache' = nodeCache /\ ring' = ring
  BY DEF MarkNodeFailed
<1>11. Tick \/ UNCHANGED vars => nodeCache' = nodeCache /\ ring' = ring
  BY DEF Tick, vars
<1> QED
  BY <1>2, <1>3, <1>4, <1>5, <1>6, <1>7, <1>8, <1>9, <1>10, <1>11 DEF Next, Operate

\* Such a cache takes every key.
LEMMA PutTakes ==
    ASSUME TakesEveryKey, NEW c \in GoodCaches, SoundCache(c),
           NEW k \in Keys, NEW e \in Entry
    PROVE  PutOk(c, k, e)
<1> DEFINE sh     == ShardFor(c, k)
           room   == Admit(sh, k)
           victim == Evict(sh.pol).key
<1>1. /\ ShardOf[k] \in Shards /\ sh = c[ShardOf[k]]
      /\ sh \in ShardStates /\ Bounded(sh)
  BY ShardForFacts DEF GoodShards, ShardFor
<1>2. CASE ShardCapacity = 0
  BY <1>1, <1>2, PutStore DEF PutOk
<1>3. CASE ShardCapacity # 0
  <2>1. Policy = "LRU" /\ EmptyKey \notin Keys /\ Sound(sh)
    BY <1>1, <1>3 DEF TakesEveryKey, SoundCache
  <2>2. ASSUME k \notin Stored(sh), Full(sh) PROVE ~Full(room)
    <3>1. /\ IsFiniteSet(Stored(sh)) /\ Cardinality(Stored(sh)) \in Nat
          /\ Cardinality(Stored(sh)) <= ShardCapacity /\ ShardCapacity \in Nat
          /\ Stored(sh) \subseteq Keys /\ Stored(sh) # {}
      BY <1>1, <1>3, <2>2, FS_CardinalityType, FS_EmptySet, ShardCapacityType
         DEF Bounded, Full, Stored
    <3>2. victim \in Stored(sh)
      BY <1>1, <2>1, <3>1, EvictFacts DEF Sound, ShardStates
    <3>3. room.store = Erase(sh.store, {victim})
      BY <2>1, <2>2, <3>1, <3>2 DEF Admit, MakeRoom
    <3> HIDE DEF room, victim, sh
    <3>4. Stored(room) = Stored(sh) \ {victim}
      BY <3>3 DEF Stored, Erase
    <3>5. Cardinality(Stored(room)) = Cardinality(Stored(sh)) - 1
      BY <3>1, <3>2, <3>4, FS_RemoveElement
    <3> QED
      BY <3>1, <3>5 DEF Full
  <2>3. ~Full(sh) => room = sh
    BY DEF Admit
  <2>4. ~(k \notin Stored(sh) /\ Full(room))
    BY <2>2, <2>3
  <2>5. PutOk(c, k, e) = Put(sh, k, e).ok
    BY DEF PutOk
  <2> HIDE DEF sh
  <2> QED
    BY <2>4, <2>5 DEF Put
<1> QED
  BY <1>2, <1>3

----------------------------------------------------------------------------
(* Histories.                                                              *)

\* Who is healthy and closer to a key than a node that took it took it too, if
\* caches take every key: whoever answers for a key while copies are kept has
\* taken one.
TookInv ==
    TakesEveryKey =>
        \A k \in Keys : \A x \in took[k], y \in ring.nodes \ failedNodes :
            From(k, y) < From(k, x) => y \in took[k]

\* No step adds to the healthy members or loses who took a key.
LEMMA TookStays ==
    ASSUME TookInv, UNCHANGED <<ring, took>>, failedNodes \subseteq failedNodes'
    PROVE  TookInv'
BY DEF TookInv, TakesEveryKey, From

LEMMA TookRenewed ==
    ASSUME TookInv, NEW k \in Keys, UNCHANGED <<ring, failedNodes>>, NEW S,
           \A j \in Keys : took'[j] = IF j = k THEN S ELSE took[j],
           TakesEveryKey =>
               \A x \in S, y \in ring.nodes \ failedNodes :
                   From(k, y) < From(k, x) => y \in S
    PROVE  TookInv'
BY DEF TookInv, TakesEveryKey, From

\* A set: who is responsible takes the entry, or nobody does.
LEMMA WriteStep ==
    ASSUME ClusterInv, HistoryTypes, KeptInv, SoundInv, TookInv,
           NEW k \in Keys, NEW e \in Entry, Write(k, e)
    PROVE  HistoryTypes' /\ KeptInv' /\ TookInv'
<1> DEFINE expected == NodesFor(ring, k)
           ok       == PutOk(nodeCache[Head(expected)], k, e)
           S        == Takers(Elements(expected), k)
<1>1. /\ expected # <<>>
      /\ nodeCache' = [n \in Nodes |-> IF n \in (IF ok THEN Elements(expected)
                                                       ELSE {Head(expected)})
                                       THEN PutIn(nodeCache[n], k, e)
                                       ELSE nodeCache[n]]
      /\ UNCHANGED <<ring, failedNodes, now>>
  BY DEF Write, SetEntry
<1>2. IF ok THEN latest' = [latest EXCEPT ![k] = e] /\ Renew(k, S)
            ELSE UNCHANGED latest /\ Observe
  BY DEF Write
<1>3. latest' \in [Keys -> Entry \cup {NoEntry}]
  BY <1>2 DEF HistoryTypes
<1>4. Elements(expected) \subseteq ring.nodes \ failedNodes /\ ring.nodes \subseteq Nodes
  BY NodesForFacts DEF ClusterInv
<1>5. CASE ok
  <2>1. /\ S \in SUBSET Nodes
        /\ \A n \in S : n \notin failedNodes' /\ Holds(nodeCache[n], k)'
    BY <1>1, <1>4 DEF Takers
  <2>2. ASSUME TakesEveryKey, NEW x \in S, NEW y \in ring.nodes \ failedNodes,
               From(k, y) < From(k, x)
        PROVE  y \in S
    <3>1. x \in Elements(expected) /\ Holds(nodeCache[x], k)'
      BY DEF Takers
    <3>2. y \in Elements(expected)
      BY <2>2, <3>1, ResponsibleClosed DEF ClusterInv
    <3>3. ASSUME NEW n \in Elements(expected)
          PROVE  /\ nodeCache'[n] \in GoodCaches
                 /\ EntryOf(nodeCache'[n], k) = e
      <4>1. n \in Nodes /\ n \in ring.nodes /\ nodeCache[n] \in GoodCaches
            /\ CanCount(ShardFor(nodeCache[n], k).pol, k)
        BY <1>4, OperationFacts DEF Write, SetEntry
      <4>2. nodeCache'[n] = PutIn(nodeCache[n], k, e)
        BY <1>1, <1>5, <4>1
      <4>3. PutOk(nodeCache[n], k, e)
        BY <2>2, <4>1, PutTakes DEF SoundInv
      <4> QED
        BY <4>1, <4>2, <4>3, PutInFacts, PutInOutcome
    <3> HIDE DEF expected, S
    <3>4. \A n \in Elements(expected) :
             Holds(nodeCache[n], k)' <=> e # NoEntry /\ ~IsExpired(e, now)
      <4>1. \A n : Holds(nodeCache[n], k)' <=>
                     /\ nodeCache'[n] # NoCache
                     /\ EntryOf(nodeCache'[n], k) # NoEntry
                     /\ ~IsExpired(EntryOf(nodeCache'[n], k), now)
        BY <1>1 DEF Holds, Exists, EntryOf, ShardFor
      <4> QED
        BY <3>3, <4>1, NewCacheFacts
    <3>5. Holds(nodeCache[y], k)'
      BY <3>1, <3>2, <3>4
    <3> QED
      BY <3>2, <3>5 DEF S, Takers
  <2>3. Renew(k, S)
    BY <1>2, <1>5
  <2> HIDE DEF S, ok, expected
  <2>4. /\ HistoryTypes' /\ KeptInv'
        /\ \A j \in Keys : took'[j] = IF j = k THEN S ELSE took[j]
    BY <1>3, <2>1, <2>3, RenewStep
  <2>5. TookInv'
    BY <1>1, <2>2, <2>4, TookRenewed
  <2> QED
    BY <2>4, <2>5
<1>6. CASE ~ok
  <2>1. Observe /\ took' = took
    BY <1>2, <1>6 DEF Observe
  <2> QED
    BY <1>1, <1>3, <2>1, ObserveStep, TookStays
<1> QED
  BY <1>5, <1>6

\* A repair: all the responsible nodes hold the key after it, or it does not
\* count.
LEMMA RestoreStep ==
    ASSUME ClusterInv, HistoryTypes, KeptInv, TookInv, NEW k \in Keys, Restore(k)
    PROVE  HistoryTypes' /\ KeptInv' /\ TookInv'
<1> DEFINE S == Elements(NodesFor(ring, k))
<1>1. /\ IF Takers(S, k) = S THEN Renew(k, S) ELSE Observe
      /\ UNCHANGED <<ring, failedNodes, now, latest>>
  BY DEF Restore, RepairKey
<1>2. S \subseteq ring.nodes \ failedNodes /\ ring.nodes \subseteq Nodes
  BY NodesForFacts DEF ClusterInv
<1>3. \A x \in S, y \in ring.nodes \ failedNodes : From(k, y) < From(k, x) => y \in S
  BY ResponsibleClosed DEF ClusterInv
<1> HIDE DEF S
<1>4. latest' \in [Keys -> Entry \cup {NoEntry}]
  BY <1>1 DEF HistoryTypes
<1>5. CASE Takers(S, k) = S
  <2>1. /\ S \in SUBSET Nodes
        /\ \A n \in S : n \notin failedNodes' /\ Holds(nodeCache[n], k)'
    BY <1>1, <1>2, <1>5 DEF Takers
  <2>2. /\ HistoryTypes' /\ KeptInv'
        /\ \A j \in Keys : took'[j] = IF j = k THEN S ELSE took[j]
    BY <1>1, <1>4, <1>5, <2>1, RenewStep
  <2>3. TookInv'
    BY <1>1, <1>3, <2>2, TookRenewed
  <2> QED
    BY <2>2, <2>3
<1>6. CASE Takers(S, k) # S
  <2>1. Observe /\ took' = took
    BY <1>1, <1>6 DEF Observe
  <2> QED
    BY <1>1, <1>4, <2>1, ObserveStep, TookStays
<1> QED
  BY <1>5, <1>6

\* Every other step.
LEMMA OtherStep ==
    ASSUME HistoryTypes, KeptInv, TookInv, Observe, UNCHANGED ring,
           failedNodes \subseteq failedNodes',
           latest' \in [Keys -> Entry \cup {NoEntry}]
    PROVE  HistoryTypes' /\ KeptInv' /\ TookInv'
<1>1. took' = took
  BY DEF Observe
<1> QED
  BY <1>1, ObserveStep, TookStays

\* The histories do not change what the cluster does.
LEMMA CopiesImplementCluster == CSpec => Spec
<1>1. CInit => Init
  BY DEF CInit
<1>2. [CNext]_cvars => [Next]_vars
  <2>1. \A k \in Keys, v \in Values : Write(k, Immortal(v)) => Set(k, v)
    BY DEF Write, Set
  <2>2. \A k \in Keys, v \in Values, ttl \in Ttls :
           Write(k, Mortal(v, ttl, now)) => SetWithTtl(k, v, ttl)
    BY DEF Write, SetWithTtl
  <2>3. \A k \in Keys : Restore(k) => RepairKey(k)
    BY DEF Restore
  <2>4. UNCHANGED cvars => UNCHANGED vars
    BY DEF cvars, vars
  <2> QED
    BY <2>1, <2>2, <2>3, <2>4 DEF CNext, Next, Operate
<1> QED
  BY <1>1, <1>2, PTL DEF CSpec, Spec

CopiesInv ==
    ClusterInv /\ HistoryTypes /\ CopyInv /\ KeptInv /\ SoundInv /\ TookInv

LEMMA CopiesInit == CInit => CopiesInv
<1> SUFFICES ASSUME CInit PROVE CopiesInv
  OBVIOUS
<1>1. ClusterInv
  BY InitInv DEF CInit
<1>2. \A n \in ring.nodes : nodeCache[n] = NewCache
  <2>1. \A n \in ring.nodes : n \in Nodes /\ nodeCache[n] # NoCache
    BY <1>1, InvFacts
  <2> QED
    BY <2>1 DEF CInit, Init
<1>3. HistoryTypes /\ KeptInv /\ TookInv
  BY DEF CInit, HistoryTypes, KeptInv, TookInv
<1>4. CopyInv
  BY <1>2, NewCacheEmpty DEF CopyInv
<1>5. SoundInv
  BY <1>2, SoundNewCache DEF SoundInv
<1> QED
  BY <1>1, <1>3, <1>4, <1>5 DEF CopiesInv

LEMMA CopiesStep ==
    ASSUME Joining = {}, Leaving = {}, CopiesInv, [CNext]_cvars, [Next]_vars
    PROVE  CopiesInv'
<1>1. ClusterInv' /\ SoundInv'
  BY Step, SoundStep DEF CopiesInv
<1>2. ClusterInv /\ HistoryTypes /\ CopyInv /\ KeptInv /\ SoundInv /\ TookInv
  BY DEF CopiesInv
<1> DEFINE Preserved == HistoryTypes' /\ CopyInv' /\ KeptInv' /\ TookInv'
<1>3. ASSUME NEW k \in Keys, NEW e \in Entry, Write(k, e) PROVE Preserved
  BY <1>2, <1>3, WriteCopies, WriteStep
<1>4. ASSUME NEW k \in Keys, Del(k), Erasing({k}) PROVE Preserved
  <2>1. /\ Observe /\ UNCHANGED <<ring, failedNodes>>
        /\ latest' \in [Keys -> Entry \cup {NoEntry}]
    BY <1>2, <1>4 DEF Erasing, Del, HistoryTypes
  <2> QED
    BY <1>2, <1>4, <2>1, DelCopies, OtherStep
<1>5. ASSUME Clear, Erasing(Keys) PROVE Preserved
  <2>1. /\ Observe /\ UNCHANGED <<ring, failedNodes>>
        /\ latest' \in [Keys -> Entry \cup {NoEntry}]
    BY <1>2, <1>5 DEF Erasing, Clear, HistoryTypes
  <2> QED
    BY <1>2, <1>5, <2>1, ClearCopies, OtherStep
<1>6. ASSUME NEW k \in Keys, Restore(k) PROVE Preserved
  BY <1>2, <1>6, RepairCopies, RestoreStep DEF Restore
<1>7. UNCHANGED latest => latest' \in [Keys -> Entry \cup {NoEntry}]
  BY <1>2 DEF HistoryTypes
<1>8. ASSUME NEW k \in Keys, GetKey(k), Observe, UNCHANGED latest PROVE Preserved
  BY <1>2, <1>7, <1>8, GetCopies, OtherStep DEF GetKey
<1>9. ASSUME NEW n \in Nodes, MarkNodeFailed(n), Observe, UNCHANGED latest PROVE Preserved
  BY <1>2, <1>7, <1>9, FailureCopies, OtherStep DEF MarkNodeFailed
<1>10. ASSUME UNCHANGED <<ring, nodeCache, failedNodes, latest>> PROVE CopyInv'
  BY <1>2, <1>10 DEF CopyInv, NodesFor, EntryOf, ShardFor, Matches, Elements
<1>11. ASSUME Tick, Observe, UNCHANGED latest PROVE Preserved
  BY <1>2, <1>7, <1>10, <1>11, OtherStep DEF Tick
<1>12. ASSUME UNCHANGED cvars PROVE Preserved
  BY <1>2, <1>10, <1>12
     DEF cvars, vars, HistoryTypes, KeptInv, TookInv, Holds, From, TakesEveryKey
<1>13. /\ \A v \in Values : Immortal(v) \in Entry
       /\ \A v \in Values, ttl \in Ttls : Mortal(v, ttl, now) \in Entry
  BY <1>2, WrittenFacts, ClusterAssumption DEF ClusterInv
<1>14. Preserved
  <2> HIDE DEF Preserved
  <2> QED
    BY <1>3, <1>4, <1>5, <1>6, <1>8, <1>9, <1>11, <1>12, <1>13, ClusterAssumption
       DEF CNext, Preserved
<1> QED
  BY <1>1, <1>14 DEF CopiesInv

LEMMA CopiesInvariant ==
    ASSUME Joining = {}, Leaving = {}
    PROVE  CSpec => []CopiesInv
<1>1. CopiesInv /\ [CNext]_cvars /\ [Next]_vars => CopiesInv'
  BY CopiesStep
<1>2. CSpec => [][Next]_vars
  BY CopiesImplementCluster, PTL DEF Spec
<1> QED
  BY <1>1, <1>2, CopiesInit, PTL DEF CSpec

\* Types of the histories and of the cluster below, also while nodes join and
\* leave.
THEOREM CTypeTheorem == CSpec => []CTypeOK
<1>1. CInit => HistoryTypes
  BY DEF CInit, HistoryTypes
<1>2. ClusterInv /\ HistoryTypes /\ [CNext]_cvars => HistoryTypes'
  <2> SUFFICES ASSUME ClusterInv, HistoryTypes, [CNext]_cvars PROVE HistoryTypes'
    OBVIOUS
  <2>1. Observe => /\ took' \in [Keys -> SUBSET Nodes]
                   /\ kept' \in [Keys -> SUBSET Nodes]
    BY DEF HistoryTypes, Observe, Keeping
  <2>2. ASSUME NEW k \in Keys, NEW S \in SUBSET Nodes, Renew(k, S)
        PROVE  /\ took' \in [Keys -> SUBSET Nodes]
               /\ kept' \in [Keys -> SUBSET Nodes]
    BY <2>2 DEF HistoryTypes, Renew, Keeping
  <2>3. \A k \in Keys : /\ Elements(NodesFor(ring, k)) \in SUBSET Nodes
                        /\ Takers(Elements(NodesFor(ring, k)), k) \in SUBSET Nodes
    BY NodesForFacts DEF ClusterInv, Takers
  <2>4. ASSUME NEW k \in Keys, NEW e \in Entry, Write(k, e) PROVE HistoryTypes'
    BY <2>1, <2>2, <2>3, <2>4 DEF Write, HistoryTypes
  <2>5. ASSUME NEW S \in SUBSET Keys, Erasing(S) PROVE HistoryTypes'
    BY <2>1, <2>5 DEF Erasing, HistoryTypes
  <2>6. ASSUME NEW k \in Keys, Restore(k) PROVE HistoryTypes'
    BY <2>1, <2>2, <2>3, <2>6 DEF Restore, HistoryTypes
  <2>7. ASSUME Observe, UNCHANGED latest PROVE HistoryTypes'
    BY <2>1, <2>7 DEF HistoryTypes
  <2>8. ASSUME UNCHANGED cvars PROVE HistoryTypes'
    BY <2>8 DEF cvars, HistoryTypes
  <2>9. /\ \A v \in Values : Immortal(v) \in Entry
        /\ \A v \in Values, ttl \in Ttls : Mortal(v, ttl, now) \in Entry
    BY WrittenFacts, ClusterAssumption DEF ClusterInv
  <2> QED
    BY <2>4, <2>5, <2>6, <2>7, <2>8, <2>9 DEF CNext
<1>3. ClusterInv /\ HistoryTypes => CTypeOK
  BY InvFacts DEF CTypeOK, HistoryTypes
<1>4. CSpec => []ClusterInv
  BY CopiesImplementCluster, ClusterInvariant
<1> QED
  BY <1>1, <1>2, <1>3, <1>4, PTL DEF CSpec

\* As long as no node joins or leaves, every healthy copy of a key is what was
\* last written to it (distributed_cache.cpp:118-222, 376-448).
THEOREM CopiesTheorem ==
    ASSUME Joining = {}, Leaving = {}
    PROVE  CSpec => []CopiesAreLatest
<1>1. CopiesInv => CopiesAreLatest
  <2> SUFFICES ASSUME CopiesInv, NEW n \in Nodes, NEW k \in Keys, Live(n, k)
               PROVE  /\ latest[k] # NoEntry
                      /\ EntryOf(nodeCache[n], k).data = latest[k].data
    BY DEF CopiesAreLatest
  <2>1. n \in ring.nodes \ failedNodes /\ EntryOf(nodeCache[n], k) # NoEntry
    BY DEF Live, Holds, Exists, EntryOf
  <2> QED
    BY <2>1 DEF CopiesInv, CopyInv, Matches
<1> QED
  BY <1>1, CopiesInvariant, PTL

\* As long as no node joins or leaves, a deleted key stays deleted: what the
\* run `deleted' refutes takes a change of membership
\* (distributed_cache.h:86-87).
THEOREM DeletedTheorem ==
    ASSUME Joining = {}, Leaving = {}
    PROVE  CSpec => []DeletedStaysDeleted
<1>1. CopiesInv => DeletedStaysDeleted
  <2> SUFFICES ASSUME CopiesInv, NEW k \in Keys, latest[k] = NoEntry
               PROVE  Read(k) = NoEntry
    BY DEF DeletedStaysDeleted
  <2> DEFINE primary == Primary(ring, k)
  <2>1. primary # NoNode => primary \in ring.nodes \ failedNodes
    BY OperationFacts DEF CopiesInv
  <2> HIDE DEF primary
  <2>2. primary # NoNode => EntryOf(nodeCache[primary], k) = NoEntry
    BY <2>1 DEF CopiesInv, CopyInv, Matches
  <2> QED
    BY <2>2 DEF Read, Holds, Exists, EntryOf, primary
<1> QED
  BY <1>1, CopiesInvariant, PTL

\* As long as no node joins or leaves, a key without a TTL outlives every loss
\* of copies short of the last one; if no cache ever refuses a key, the node
\* that answers for it took a copy (distributed_cache.cpp:118-222, 376-448).
THEOREM SurvivalTheorem ==
    ASSUME Joining = {}, Leaving = {}
    PROVE  CSpec => []SurvivesLosses
<1>1. CopiesInv => SurvivesLosses
  <2> SUFFICES ASSUME CopiesInv, NEW k \in Keys, latest[k] # NoEntry,
                      latest[k].expiry = NoExpiry, kept[k] # {}
               PROVE  /\ kept[k] \subseteq Elements(NodesFor(ring, k))
                      /\ \A n \in kept[k] : EntryOf(nodeCache[n], k) = latest[k]
                      /\ TakesEveryKey => Primary(ring, k) \in took[k]
    BY DEF SurvivesLosses
  <2>1. ASSUME NEW n \in kept[k]
        PROVE  /\ n \in took[k] /\ n \in ring.nodes \ failedNodes
               /\ EntryOf(nodeCache[n], k) # NoEntry
    <3>1. /\ n \in Nodes /\ n \in took[k] /\ n \notin failedNodes
          /\ Holds(nodeCache[n], k)
      BY DEF CopiesInv, HistoryTypes, KeptInv
    <3> QED
      BY <3>1, InvFacts DEF CopiesInv, Holds, Exists, EntryOf
  <2>2. \A n \in kept[k] : /\ n \in Elements(NodesFor(ring, k))
                           /\ EntryOf(nodeCache[n], k) = latest[k]
    BY <2>1 DEF CopiesInv, CopyInv, Matches
  <2>3. ASSUME TakesEveryKey PROVE Primary(ring, k) \in took[k]
    <3> DEFINE primary == FindPrimaryNode(ring, KeyHash[k], failedNodes)
    <3>1. PICK n \in kept[k] : TRUE
      OBVIOUS
    <3>2. /\ primary \in ring.nodes \ failedNodes
          /\ primary # n => From(k, primary) < From(k, n)
      BY <2>1, NearestFacts DEF CopiesInv, ClusterInv, From
    <3> HIDE DEF primary
    <3>3. primary \in took[k]
      BY <2>1, <2>3, <3>2 DEF CopiesInv, TookInv
    <3> QED
      BY <3>3 DEF Primary, primary
  <2> QED
    BY <2>2, <2>3
<1> QED
  BY <1>1, CopiesInvariant, PTL
=============================================================================
