-------------------------- MODULE DistributedCache --------------------------
(***************************************************************************)
(* class DistributedCache (distributed_cache.h, distributed_cache.cpp): a  *)
(* cluster simulated in one process.  Each node is a Cache of its own; a   *)
(* key is written to its primary, the first healthy node on the ring, and  *)
(* to the replicas behind it.                                              *)
(*                                                                         *)
(* Every operation holds the cluster's lock to its end.  Those that write  *)
(* hold it exclusively, so that each is one atomic action.  The others     *)
(* share it; of these only get changes anything (an expired entry goes, a  *)
(* live one counts as accessed), under the lock of one shard, so that it   *)
(* is one atomic action too.  Each repairKey of the anti-entropy service   *)
(* is an action here as well, which happens at any time and for any key:   *)
(* the service repairs some key that it found under-replicated earlier.    *)
(*                                                                         *)
(*   ring         hashRing                                                 *)
(*   nodeCache    the map nodeCache; NoCache where it has no node          *)
(*   failedNodes  failedNodes                                              *)
(*   now          system_clock::now()                                      *)
(***************************************************************************)
EXTENDS Shard, HashRing

CONSTANTS NoCache,            \* a node without a cache
          KeyHash,            \* the position of each key
          NodeHashes,         \* the positions of each node's virtual nodes
          ReplicationFactor,  \* the number of copies of each key
          SizeModulus,        \* 2^64, the modulus of size_t
          Ttls,               \* the TTLs clients give, in seconds
          Founders,           \* the nodes the cluster is built with
          Joining, Leaving,   \* the nodes that addNode, removeNode and
          Failing             \* markNodeFailed name

ASSUME ClusterAssumption ==
    /\ KeyHash \in [Keys -> Positions]
    /\ NodeHashes \in [Nodes -> (SUBSET Positions) \ {{}}]
    /\ \A x, y \in Nodes : x # y => NodeHashes[x] \cap NodeHashes[y] = {}
    /\ ReplicationFactor \in Nat
    /\ SizeModulus \in Nat \ {0}
    /\ Ttls \subseteq Int
    /\ Founders \subseteq Nodes /\ Joining \subseteq Nodes
    /\ Leaving \subseteq Nodes /\ Failing \subseteq Nodes

VARIABLES ring, nodeCache, failedNodes, now

vars == <<ring, nodeCache, failedNodes, now>>

\* A wrong form of the constructor of Cache, for the mutation checks.
NewCacheMissesLast == [i \in Shards \ {NumShards} |-> NewShard]

\* The state of a Cache, and a new one.
Caches   == [Shards -> ShardStates]
NewCache == [i \in Shards |-> NewShard]

ASSUME NoCacheAssumption == NoCache \notin Caches

TypeOK ==
    /\ ring \in Rings
    /\ nodeCache \in [Nodes -> Caches \cup {NoCache}]
    /\ failedNodes \in SUBSET Nodes
    /\ now \in 0 .. MaxTime

\* A cluster is built empty; Founders are the nodes added to it before the
\* first key is written, as concurrent_test.cpp:202-211 does.
Init ==
    /\ ring = [at    |-> [q \in Positions |->
                            IF \E n \in Founders : q \in NodeHashes[n]
                            THEN CHOOSE n \in Founders : q \in NodeHashes[n]
                            ELSE NoNode],
               nodes |-> Founders]
    /\ nodeCache = [n \in Nodes |-> IF n \in Founders THEN NewCache ELSE NoCache]
    /\ failedNodes = {}
    /\ now = 0

----------------------------------------------------------------------------
(* One node's cache.                                                       *)

ShardFor(c, k) == c[ShardOf[k]]

\* Cache::set and setWithTtl: whether it succeeds, and the cache after it.
PutOk(c, k, e) == Put(ShardFor(c, k), k, e).ok
PutIn(c, k, e) == [c EXCEPT ![ShardOf[k]] = Put(@, k, e).shard]

\* Cache::exists: the cache holds a live entry for k.
Holds(c, k) == c # NoCache /\ Exists(ShardFor(c, k), k, now)

EntryOf(c, k) == ShardFor(c, k).store[k]

\* The bound on the LFU counters, for one access to k on every node.
CanCountAll(k) ==
    \A n \in Nodes : nodeCache[n] # NoCache
        => CanCount(ShardFor(nodeCache[n], k).pol, k)

----------------------------------------------------------------------------
(* Placement of keys.                                                      *)

\* replicationFactor - 1, of type size_t.
Replicas == (ReplicationFactor - 1) % SizeModulus

\* The nodes to which k is written, primary first.
NodesFor(r, k) == ExpectedNodes(r, KeyHash[k], Replicas, failedNodes)

Primary(r, k) == FindPrimaryNode(r, KeyHash[k], failedNodes)

----------------------------------------------------------------------------
(* Operations of clients.  Without a healthy node they change nothing.     *)

\* set and setWithTtl: the replicas are written only if the primary took the
\* entry; whether they took it is not asked.
SetEntry(k, e) ==
    LET expected == NodesFor(ring, k)
        targets  == IF PutOk(nodeCache[Head(expected)], k, e)
                    THEN Elements(expected) ELSE {Head(expected)}
    IN  /\ CanCountAll(k)
        /\ expected # <<>>
        /\ nodeCache' = [n \in Nodes |-> IF n \in targets
                                         THEN PutIn(nodeCache[n], k, e)
                                         ELSE nodeCache[n]]
        /\ UNCHANGED <<ring, failedNodes, now>>

Set(k, v) == SetEntry(k, Immortal(v))

SetWithTtl(k, v, ttl) == SetEntry(k, Mortal(v, ttl, now))

\* get asks the primary only.
GetKey(k) ==
    LET primary == Primary(ring, k)
    IN  /\ CanCountAll(k)
        /\ primary # NoNode
        /\ nodeCache' = [nodeCache EXCEPT ![primary][ShardOf[k]] =
                                              Get(@, k, now).shard]
        /\ UNCHANGED <<ring, failedNodes, now>>

\* What get returns.
Read(k) ==
    LET primary == Primary(ring, k)
    IN  IF primary # NoNode /\ Holds(nodeCache[primary], k)
        THEN EntryOf(nodeCache[primary], k) ELSE NoEntry

\* A wrong form of del, for the mutation checks.
DelFromPrimary(k) ==
    LET primary == Primary(ring, k)
    IN  /\ primary # NoNode
        /\ nodeCache' = [nodeCache EXCEPT ![primary][ShardOf[k]] = Delete(@, k)]
        /\ UNCHANGED <<ring, failedNodes, now>>

Del(k) ==
    LET expected == NodesFor(ring, k)
    IN  /\ expected # <<>>
        /\ nodeCache' = [n \in Nodes |->
               IF n \in Elements(expected)
               THEN [nodeCache[n] EXCEPT ![ShardOf[k]] = Delete(@, k)]
               ELSE nodeCache[n]]
        /\ UNCHANGED <<ring, failedNodes, now>>

Clear ==
    /\ nodeCache' = [n \in Nodes |-> IF nodeCache[n] = NoCache
                                     THEN NoCache ELSE NewCache]
    /\ UNCHANGED <<ring, failedNodes, now>>

----------------------------------------------------------------------------
(* Membership.                                                             *)

\* A wrong form of addNode, for the mutation checks.
AddNodeWithoutCache(n) ==
    /\ ring' = RingAdd(ring, n, NodeHashes[n])
    /\ UNCHANGED <<nodeCache, failedNodes, now>>

\* Another wrong form: the marks of all failed nodes go when a node joins.
AddNodeForgetsFailures(n) ==
    /\ nodeCache' = [nodeCache EXCEPT ![n] = NewCache]
    /\ ring' = RingAdd(ring, n, NodeHashes[n])
    /\ failedNodes' = {}
    /\ UNCHANGED now

\* addNode gives the node a new cache even if it is a member already, in
\* which case the ring refuses it and addNode returns false.
AddNode(n) ==
    /\ nodeCache' = [nodeCache EXCEPT ![n] = NewCache]
    /\ ring' = RingAdd(ring, n, NodeHashes[n])
    /\ UNCHANGED <<failedNodes, now>>

\* markNodeFailed; there is no way back.
MarkNodeFailed(n) ==
    /\ n \in ring.nodes \ failedNodes
    /\ failedNodes' = failedNodes \cup {n}
    /\ UNCHANGED <<ring, nodeCache, now>>

\* A wrong form of writeWithOptionalTtl, for the mutation checks.
WriteWithoutTtl(c, k, e) == PutIn(c, k, Immortal(e.data))

\* writeWithOptionalTtl: an entry with less than a whole second to live is
\* dropped.
WriteWithOptionalTtl(c, k, e) ==
    IF e.expiry = NoExpiry THEN PutIn(c, k, e)
    ELSE LET ttl == RemainingSeconds(e, now)
         IN  IF ttl > 0 THEN PutIn(c, k, Mortal(e.data, ttl, now)) ELSE c

\* The caches after entry e has been written to the nodes that r gives k.
Redistribute(caches, r, k, e) ==
    [n \in Nodes |-> IF n \in Elements(NodesFor(r, k))
                     THEN WriteWithOptionalTtl(caches[n], k, e)
                     ELSE caches[n]]

\* The caches after the entries in moved have been written, key by key in the
\* given order.
RedistributeAll(caches, r, moved, order) ==
    LET after[i \in 0 .. Len(order)] ==
            IF i = 0 THEN caches
            ELSE Redistribute(after[i - 1], r, order[i], moved[order[i]])
    IN  after[Len(order)]

\* A wrong form of removeNode, for the mutation checks: its data is dropped.
RemoveNodeDropsData(n) ==
    /\ n \in ring.nodes
    /\ ring' = RingRemove(ring, n, NodeHashes[n])
    /\ nodeCache' = [nodeCache EXCEPT ![n] = NoCache]
    /\ UNCHANGED <<failedNodes, now>>

\* removeNode of a member: it leaves the ring with its cache, then each of
\* its live entries, in whatever order getAllData returns them, is written
\* over what the nodes that take over hold for the key.  The node may be one
\* that has failed, and stays in failedNodes.
RemoveNode(n) ==
    LET live == {k \in Keys : Holds(nodeCache[n], k)}
        left == RingRemove(ring, n, NodeHashes[n])
    IN  /\ n \in ring.nodes
        /\ \A k \in live : CanCountAll(k)
        /\ ring' = left
        /\ \E order \in SetToSeqs(live) :
              nodeCache' =
                  RedistributeAll([nodeCache EXCEPT ![n] = NoCache], left,
                                  [k \in live |-> EntryOf(nodeCache[n], k)],
                                  order)
        /\ UNCHANGED <<failedNodes, now>>

----------------------------------------------------------------------------
(* Repair.                                                                 *)

\* A wrong form of what repairKey writes, for the mutation checks.
RepairEntryTooShort(e) ==
    IF e.expiry = NoExpiry THEN e
    ELSE Mortal(e.data, RemainingSeconds(e, now) - 1, now)

\* What repairKey writes for an entry it read: the TTL that is left, in whole
\* seconds; no expiry if that is none.
RepairEntry(e) ==
    LET ttl == RemainingSeconds(e, now)
    IN  IF e.expiry # NoExpiry /\ ttl > 0 THEN Mortal(e.data, ttl, now)
                                          ELSE Immortal(e.data)

\* A wrong form of repairKey, for the mutation checks: the loop over the
\* nodes to write to ends at the source, where it should go on.
RepairKeyStopsAtSource(k) ==
    LET expected == NodesFor(ring, k)
        having   == {i \in DOMAIN expected : Holds(nodeCache[expected[i]], k)}
        source   == CHOOSE i \in having : \A j \in having : i <= j
        lacking  == IF having = {} THEN {} ELSE {expected[i] : i \in 1 .. source - 1}
    IN  /\ nodeCache' =
              [n \in Nodes |->
                  IF n \in lacking
                  THEN PutIn(nodeCache[n], k, RepairEntry(
                                EntryOf(nodeCache[expected[source]], k)))
                  ELSE nodeCache[n]]
        /\ UNCHANGED <<ring, failedNodes, now>>

\* repairKey reads k from the expected nodes in turn, until one has it, and
\* writes it to those of the others that have no live entry.  (The nodes are
\* bound by \E, not by LET, whose definition TLC would evaluate at each use
\* when it asks whether the action is enabled.)
RepairKey(k) ==
    \E expected \in {NodesFor(ring, k)} :
    LET having   == {i \in DOMAIN expected : Holds(nodeCache[expected[i]], k)}
        source   == CHOOSE i \in having : \A j \in having : i <= j
        asked    == IF having = {} THEN Elements(expected)
                    ELSE {expected[i] : i \in 1 .. source}
        lacking  == IF having = {} THEN {}
                    ELSE {expected[i] : i \in DOMAIN expected \ having}
        read     == [n \in Nodes |->
                       IF n \in asked
                       THEN [nodeCache[n] EXCEPT ![ShardOf[k]] =
                                                     Get(@, k, now).shard]
                       ELSE nodeCache[n]]
    IN  /\ CanCountAll(k)
        /\ nodeCache' =
              [n \in Nodes |->
                  IF n \in lacking
                  THEN PutIn(read[n], k, RepairEntry(
                                EntryOf(nodeCache[expected[source]], k)))
                  ELSE read[n]]
        /\ UNCHANGED <<ring, failedNodes, now>>

Tick ==
    /\ now < MaxTime
    /\ now' = now + 1
    /\ UNCHANGED <<ring, nodeCache, failedNodes>>

\* What the program does with the cluster, apart from repairing it.
Operate ==
    \/ \E k \in Keys, v \in Values : Set(k, v)
    \/ \E k \in Keys, v \in Values, ttl \in Ttls : SetWithTtl(k, v, ttl)
    \/ \E k \in Keys : GetKey(k)
    \/ \E k \in Keys : Del(k)
    \/ Clear
    \/ \E n \in Joining : AddNode(n)
    \/ \E n \in Leaving : RemoveNode(n)
    \/ \E n \in Failing : MarkNodeFailed(n)

Next ==
    \/ Operate
    \/ \E k \in Keys : RepairKey(k)
    \/ Tick

Spec == Init /\ [][Next]_vars

----------------------------------------------------------------------------
(* Properties.                                                             *)

\* Every member of the ring has a cache, and only members have one: whatever
\* node a lookup returns, getNodeCache finds its cache and does not throw
\* (distributed_cache.cpp:109-116).
CachesMatchRing ==
    {n \in Nodes : nodeCache[n] # NoCache} = ring.nodes

\* e has at least a whole second to live.
Lasting(e) == e.expiry = NoExpiry \/ RemainingSeconds(e, now) > 0

\* Removing a node leaves every key readable that was, as long as a healthy
\* node remains: the nodes that become responsible for the node's keys are
\* the ones that removeNode writes its data to.  Keys in their last second
\* are dropped, and a bounded cache may refuse them
\* (distributed_cache.cpp:28-82).
RemovalKeepsKeysReadable ==
    [][\A n \in ring.nodes \ ring'.nodes, k \in Keys :
          /\ ShardCapacity = 0
          /\ ring'.nodes \ failedNodes # {}
          /\ Read(k) # NoEntry
          /\ Lasting(Read(k))
          => Read(k)' # NoEntry]_vars

\* Data that removeNode moves keeps its deadline, to the second: no node ends
\* up with an entry that outlives the one it was copied from
\* (distributed_cache.cpp:84-100).
RemovalKeepsDeadlines ==
    [][\A n \in ring.nodes \ ring'.nodes, m \in ring'.nodes, k \in Keys :
          LET moved  == EntryOf(nodeCache[n], k)
              placed == EntryOf(nodeCache'[m], k)
          IN  placed \notin {NoEntry, EntryOf(nodeCache[m], k)} =>
                 \/ placed = moved
                 \/ /\ moved.expiry # NoExpiry /\ placed.expiry # NoExpiry
                    /\ placed.expiry <= moved.expiry
                    /\ placed.expiry + TicksPerSecond > moved.expiry]_vars

\* A key that its primary and a replica hold survives the failure of any one
\* node: the node that answers for it next holds a copy
\* (consistent_hash.cpp:90-135, 204-275).
FailureKeepsReplicatedKeys ==
    [][\A k \in Keys :
          LET expected == NodesFor(ring, k)
          IN  /\ failedNodes' # failedNodes
              /\ Len(expected) >= 2
              /\ \A n \in Elements(expected) : Holds(nodeCache[n], k)
              => Read(k)' # NoEntry]_vars

\* A node that joins, or a member that is added again and whose cache addNode
\* replaces by an empty one, costs no key that all the nodes responsible for it
\* hold, two at least: one of those responsible afterwards holds it, so that
\* repairKey finds it there, and only a primary that has just been added can
\* answer with a miss (distributed_cache.cpp:20-26).
JoinKeepsReplicatedKeys ==
    [][\A n \in Nodes, k \in Keys :
          LET expected == NodesFor(ring, k)
          IN  /\ AddNode(n)
              /\ Len(expected) >= 2
              /\ \A m \in Elements(expected) : Holds(nodeCache[m], k)
              => /\ \E m \in Elements(NodesFor(ring, k)') : Holds(nodeCache[m], k)'
                 /\ Primary(ring, k)' # n => Read(k)' # NoEntry]_vars

\* A node that was marked as failed takes no part any more: no write, read,
\* repair or redistribution changes what its cache holds, not even after it
\* was removed and has joined again, since failedNodes keeps its name ("The
\* node will be excluded from operations", distributed_cache.h:155).  Only
\* clear, which goes to every cache, and membership do.
FailedNodesLeftAlone ==
    [][\A n \in failedNodes :
          nodeCache'[n] # nodeCache[n]
              => Clear \/ AddNode(n) \/ RemoveNode(n)]_vars

\* When repairKey finds a copy, every node that is expected to hold the key
\* does so afterwards, and what other nodes hold of it is left alone
\* ("Re-replicate a key to restore replication factor",
\* distributed_cache.h:177).
RepairRestoresReplicas ==
    [][\A k \in Keys :
          LET expected == Elements(NodesFor(ring, k))
          IN  /\ RepairKey(k)
              /\ ShardCapacity = 0
              /\ \E n \in expected : Holds(nodeCache[n], k)
              => \A n \in ring.nodes :
                    IF n \in expected THEN Holds(nodeCache[n], k)'
                    ELSE nodeCache'[n] = nodeCache[n]]_vars
=============================================================================
