# A verification of CacheSystem in TLA+

CacheSystem is an in-memory cache in C++ with TTLs, two eviction policies and
lock sharding, and on top of it a cluster of such caches, simulated in one
process, with consistent hashing, replication and a background repair service.
This directory models it in TLA+: TLC checks the models on small instances,
TLAPS proves all of their safety properties, and two refinements, for every value
of the constants. Paths below are relative to the repository's root.

## 1. Inventory

| Component | Source | State | Operations that change it |
|---|---|---|---|
| Eviction policies | `src/core/eviction.cpp`, `include/eviction.h` | LRU: a list and a map into it. LFU: counters, one list per count, `minFrequency` | `onAccess`, `onAdd`, `onRemove`, `evict`, `clear` |
| Cache | `src/core/cache.cpp`, `include/cache.h` | 16 shards, each a map, a policy and a reader-writer lock | `set`, `setWithTtl`, `get`, `getValueWithTtl`, `del`, `clear`, `cleanupExpired`; `size`, `exists` and `getAllData` only read |
| Consistent hash ring | `src/core/consistent_hash.cpp` | `ring` (hash to node), `nodes` | `addNode`, `removeNode`, `clear`; lookups |
| Distributed cache | `src/core/distributed_cache.cpp` | the ring, a cache per node, `failedNodes`, one reader-writer lock | `addNode`, `removeNode`, `set`, `setWithTtl`, `get`, `del`, `clear`, `markNodeFailed`, `repairKey`; queries |
| Anti-entropy service | `src/core/anti_entropy.cpp` | `running`, `stopRequested`, a thread, a condition variable, statistics | `start`, `stop`, `triggerRepair`, the loop |
| Command parser | `src/core/command_parser.cpp` | none: a table of operations and numbers of arguments | - |
| Command line | `src/main.cpp` | `isDistributed`, `localCache`, `distributedCache` | one handler per command and mode; `CLUSTER`, `CONFIG`, `EXIT` |
| Concurrency test | `src/concurrent_test.cpp` | a driver | - |

How they interact. A shard calls its policy under the shard's lock. A cluster
operation takes the cluster's lock, asks the ring for the responsible nodes and
calls operations of their caches, which take shard locks. The service's thread
calls the public operations of the cluster, each under a lock of its own, and
decides between them. `main` runs one command at a time, beside the thread of
its cluster. Nothing is sent over a network and nothing is persisted.

What is hard, and what makes each component correct:

* **Policies.** They keep redundant structures that every path of the cache has
  to maintain. Correct: a policy tracks exactly the stored keys; a full shard
  has a key to evict; the key is the least recently (frequently) used.
* **Cache.** Scans hold one shard lock at a time while everything else runs in
  between; expiry is lazy; capacity is divided by the shards. Correct: capacity
  is respected; a scan is right about whatever did not change during it.
* **Ring.** Wrapping loops that skip failed and repeated nodes; two maps.
  Correct: lookups find the nearest healthy nodes; changes move no more than
  they must.
* **Distributed cache.** Copies of a key at several nodes, which fail, evict,
  expire, join and leave. Correct: copies do not come to differ; no data is
  lost short of the last copy; deleted data does not return; deadlines hold.
* **Service.** Decisions from state that may be stale; stop, destruction and the
  thread's wait race; a lock is taken twice. Correct: repair never brings back
  old data and completes; stop returns; the thread does not use what is gone.
* **Command line.** The parser's table and the handlers of two modes must agree;
  a cluster is replaced while its thread runs. Correct: every command returns,
  and no thread stays behind.

`PROJECT.json` lists the hazards at their lines, and the property that guards
each.

## 2. Modules

    KeyList   lists of keys          LRU  LFU   the policies
        \________________ Eviction (dispatch) ________________/
                              Shard (one shard's operations)
                      _________/     \__________________
                  Cache (threads, scans)          DistributedCache --- HashRing
                 /      \                          |           |          |
        CacheScans   CacheRecency         ClusterCopies  AntiEntropy   Placement
        (history)    (history)              (history)    (the pass)
                        |
                     CacheLRU  ==implements==>  RecencyCache (abstract)

    RepairService (the thread, its cluster's life) --- Session (main, parser)

* **KeyList, LRU, LFU, Eviction.** The policies are values, their methods are
  operators on them. `keyToIterator` is not kept, since it always maps the keys of
  the list to their places. An absent LFU bucket is the empty list. Erasing from
  a list is defined by rank and not with a recursive filter, so that it can be
  reasoned about in proofs; `MCCacheLRU` compares it with `SelectSeq`.
* **Shard.** What each operation of `Cache` does to one shard while it holds the
  lock, as operators: `Put` (set, setWithTtl) with the capacity check, the
  eviction loop, both failure exits and the policy call; `Get`, `Delete`,
  `Cleanup`, `Exists`. Time is a natural number and a second has
  `TicksPerSecond` ticks, so that rounding a TTL down to seconds is visible. The
  eviction loop is one step: the shard is never above its capacity
  (`CapacityRespected`, proved), so one victim ends it.
* **Cache.** One action per single-key operation, because each holds its shard's
  lock throughout. `size`, `clear`, `cleanupExpired`, `getAllData` are scans: a
  thread starts one, visits one shard per step, returns. Any number of threads
  scan at once, and clients' operations fall between any two visits.
  `get` and `getValueWithTtl` change a shard in the same way and share `GetKey`.
* **CacheScans** adds, per scan, what was in the cache all the time since it
  started and what was there at some time: the two bounds of what a non-atomic
  scan can promise. **CacheRecency** adds the order in which clients last used
  the keys. **RecencyCache** is the abstract LRU cache: sets of keys and which
  was used before which. **CacheLRU** maps a Cache to it, taking the order from
  the history and not from the policy's own list.
* **HashRing** has the ring as a record and the lookups as operators. An
  iterator that wraps is a distance walked clockwise from the key, and `Collect`
  names the node that a lookup finds n-th by how many other nodes come earlier,
  which is what a loop that skips repeated nodes comes to.
  **Placement** is the ring as a state machine over every hash function: virtual
  nodes may collide, in which case the later one takes the place and the removal
  of either node erases it. The walk of the lookup that does not skip failed nodes
  has no check for having gone round; `WalkEnds` says that it comes to an end.
* **DistributedCache** composes `Shard` and `HashRing`. All operations that
  write hold the cluster's lock exclusively, so each is one action with all that
  it calls: `SetEntry` writes the replicas only if the primary accepted;
  `RemoveNode` leaves the ring, drops the cache, then writes each live entry, in
  every order, to the nodes responsible after it; `RepairKey` reads the expected
  nodes in turn (which removes expired entries and counts as an access), then
  writes those that lack the key. `AddNode` includes the call for a node that is
  already a member, which wipes its cache. `RepairKey` happens at any time and
  for any key: that covers every decision the service can make
  (`PassImplementsCluster`, proved).
  **ClusterCopies** adds the last acknowledged entry of each key, who took it,
  and who still has it.
* **AntiEntropy** composes the cluster with `performRepair`, one action per
  acquisition of the cluster's lock: `Begin` (the nodes), `CollectKeys` per node,
  `Count` and `Compare` per key, `Repair`, `End`. Any operation of the cluster may
  come between two of them. The faults of the code are in it as they are:
  `AllHealthyNodes` is all nodes, the count includes nodes that are not
  responsible, the expected count is a maximum. The history variable `quiet` says
  that nothing came between.
* **RepairService** is the service as a thread: construction with `start`, the loop,
  the second shared lock inside `getAllHealthyNodes`, `wait_for` split into the
  question for the flag, the moment before it blocks, and the wait (a notification
  reaches only the last), spurious wake-ups, the time-out; and the destructor in
  the order in which C++ runs it: the members first, then `stop` in three steps,
  then `join`. Using destroyed members is undefined behaviour: it sets `touched`
  and the thread goes on, or the program crashes (`Crash`).
* **Session** composes it with `main`: the prompt, the parser's table (`Arity`), the
  handlers of both modes as the arguments that they read (`LocalReads`,
  `ClusterReads`) and the lock that they take, `CLUSTER`, `EXIT`. What commands do
  to keys is left to `Cache` and `DistributedCache`. `NODES` takes the lock once
  here, and for every node in the code.

The operators marked as wrong forms are plausible bugs, one for each property: the
property is violated when the wrong form takes the place of the right one.

## 3. Runs

| Run | Shows | Bounds |
|---|---|---|
| `lru` | capacity, policy in step with store, victim exists, implements `RecencyCache` | 5 keys in 2 shards, of 3 places each: four keys compete for one shard, so that the order of three keys matters at each eviction; one scanning thread; an expiry |
| `lfu` | capacity, counters and buckets, ties by recency | 3 keys and the empty string as a fourth, 2 places, counters up to 3: two keys tie at counts 1, 2 and 3, `minFrequency` goes stale, and the empty string is evicted, which leaves it in the store |
| `scans` | what clear, cleanupExpired, getAllData, size promise | 2 shards of one key, one scanning thread, three clock readings: each client operation falls before, between and after the two visits |
| `hash_ring` | ring and members agree, lookups, their ends, minimal movement | 3 nodes of at most 2 virtual nodes, 6 positions, every placement of the virtual nodes, colliding ones included, every key position, every number of copies |
| `cluster` | membership, redistribution, joins, failures, repair | 3 nodes, one of them with two virtual nodes, 2 copies, one key, 2 values, 2 ticks a second and 1.5 seconds of time; all nodes may join (again) and leave |
| `copies` | copies agree, keys survive | 3 static nodes of which two may fail, 2 copies, 2 keys that compete for one place on each node, LRU, entries that are expired when written |
| `anti_entropy` | a quiet pass restores, repair converges (liveness) | 3 nodes, 2 copies, 2 keys, one founder; the others join, one leaves, all may fail, at any point of a pass |
| `session` | types, no stray thread, arguments, sleepers, every command returns, the service keeps passing (liveness) | 2 clusters at a time, which is as many as `CLUSTER` makes overlap; one key per pass at most |
| `lfu_full`, `deleted`, `deadline`, `orphans` | a counterexample each, section 4 | the smallest instance that has it |

Why the bounds are enough. Shards do not share state, so two of them show
everything that scans can do between visits. The policies compare at most two
keys of a list at a time, and the runs have three in one. In the cluster, keys
interact only through capacity, hence one key where capacity is unlimited and
two where it is not (`anti_entropy` has two, so that a pass is interrupted
between them); with 2 copies, three nodes give a primary, a replica and one that
takes over. `Failing` names the nodes that may fail: where all have failed,
clients change nothing any more. `Values` are interchangeable (symmetry in
`copies`, where no property distinguishes them). `MaxTime`, `MaxFreq`
(`CanCount`) and the sets of TTLs are the only bounds on behaviour; a shard's
operations are not taken when a counter has reached `MaxFreq`.

Fairness. `AntiEntropy` assumes weak fairness of the pass as a whole (`WF(Pass)`):
the thread wakes up after each interval, and in a pass always has a step to take,
since nobody holds the cluster's lock for ever. Clients are not fair; the
liveness property assumes that they stop (`<>[][Pass]`), the clock included, and
a stopped cluster with unlimited caches (`ShardCapacity = 0`, as `main.cpp`
builds it: with a limit, one repair may evict what another restored).
`Session` assumes weak fairness of what `main` does without waiting, and of the
worker's own steps and of acquiring the lock strong fairness: the lock is free
again and again, and the `pthread_rwlock_t` under libstdc++'s `shared_mutex` hands it to a waiting
writer when the last reader leaves, while the service sleeps for 30 seconds
between passes. The end of the interval is strongly fair, since `wait_for` keeps
its deadline over spurious wake-ups; a spurious wake-up need never happen, and nobody
needs to type anything. That readers may pass a waiting writer matters: with
the other kind of lock, which the standard allows, the second shared lock
deadlocks with a client that waits to write (mutant
`WorkerMaySharePolitely`). Without the time-out a lost notification hangs `stop`
(mutant `NeverTimesOut`).

Deadlock is checked in every run but `session`, where the program ends.

What the passing runs do not say: `CopiesAreLatest` and `SurvivesLosses` hold
only as long as no node joins or leaves; with changes of membership they fail:
`deleted` shows one way. The last part of `SurvivesLosses`, that the node which
answers for a key took a copy, is for caches that never refuse a key
(`TakesEveryKey`: unlimited, or LRU): with LFU or no policy a full replica may
refuse, become the primary when the primary fails, and answer with a miss while
a third node has the key. `RemovalKeepsKeysReadable` and
`RepairRestoresReplicas` are stated for unlimited capacity, since a full cache
without a policy may refuse. `RemovalKeepsKeysReadable` leaves out keys in their
last second, which `writeWithOptionalTtl` drops. `JoinKeepsReplicatedKeys` does
not say that a key stays readable when a node joins: it says how far the miss can
go, that only the new primary can answer with one, and that a responsible node still
has the key for a repair to find. It needs at least two responsible nodes and the
key on all of them: a key that only the node added again held is lost.
`SizeIsBounded` counts on
the lower side only keys that have not expired when `size` returns, and so leaves
open whether expired keys are counted (section 4).

## 4. Where the code departs from its comments

1. **`lfu_full`.** `LFUEvictionPolicy` does not keep `minFrequency`. It is not
   lowered when a new key arrives and not moved on when its bucket empties, so
   `evict` first takes a more frequent key than it should and later none at
   all; `set` then fails on a full shard for ever (unless keys reach that count
   again or are deleted).
2. **`deleted`.** `del` reaches the nodes responsible now. A node that stopped
   being responsible when another joined keeps its copy, and `removeNode` writes
   that copy back over newer data.
3. **`deadline`.** `repairKey` copies a key in its last second without an
   expiry.
4. **`orphans`.** A pass finds every key on any healthy node, but `repairKey` asks
   only the nodes responsible for it now. A key whose copies are all on nodes
   that were responsible before is found in every pass and given up as lost in
   every pass.

Seen while reading, with no run of their own:

* A capacity from 1 to 15 becomes 0 per shard, which means unlimited
  (`cache.cpp:27`; `cache.h:71` calls it the maximum number of keys). Every
  other capacity is kept (`TotalTheorem`).
* `get` never asks a replica unless the primary is marked as failed, so that a node
  that has just joined answers with a miss (`distributed_cache.cpp:174`;
  `distributed_cache.h:74` says that it falls back). `JoinKeepsReplicatedKeys` says
  when a responsible node still has the key; a later pass of the service copies it
  then (`RepairConverges`).
* `addNode` of a member empties its cache and returns false
  (`distributed_cache.cpp:24-25`). The nodes that share its keys keep theirs.
* Once evicted, the empty string stays in its shard until it is deleted, expires or
  is cleared, and can never be evicted again: it takes a place, and no more
  (`CapacityTheorem`, `PolicyTheorem`).
* The destructor of `DistributedCache` destroys lock, ring and caches before it stops the
  thread that uses them: a pass under way at `CLUSTER` or `EXIT` goes on with
  destroyed members. `SleepersStayAway` says when that cannot happen; the model
  reaches states with `touched`.
* `Cache::size` counts expired keys that nobody has removed yet
  (`cache.cpp:219-226`), while `cache.h:117` says "excluding expired ones";
  `getAllHealthyNodes` returns all nodes; `CLUSTERINFO` shows the number of
  virtual nodes as "Total Keys"; `performRepair` takes the maximum of replication
  factor and number of nodes, so that every key is repaired in every pass of a larger
  cluster, to no effect; `removeNode` of the last node returns false after
  removing it if it held data.
* At the end of the input `getline` leaves `input` empty, and `main` asks for
  ever; `main.cpp` does not compile at this commit (`Cache::evictionCount` is
  commented out, and the void `del` is used as a condition).

## 5. Proofs

Everything is proved by TLAPS (SMT, Zenon, LS4), with the constants arbitrary
within the named assumptions of the modules, which TLC evaluates in the runs:
numbers are numbers and sets that are counted are finite (`ShardAssumption`,
`PolicyAssumption`, `CacheAssumption`, `RingAssumption`, `VirtualNodesAssumption`,
`ServiceAssumption`); the marks for "nothing" are no values (`EntryAssumption`,
`NoCacheAssumption`, `NoKeyAssumption`, `NoClusterAssumption`); and the virtual
nodes of the cluster do not collide (`ClusterAssumption`; `Placement` does without).
Three hypotheses are stated with the theorems that need them:

* `EmptyKey \notin Keys`: the empty string, which `evict` returns for "nothing",
  is no key. Evicting it leaves it in the store, untracked. That an LRU shard has a
  victim, and what rests on it (`LRUVictimTheorem`, `ImplementsTheorem`, and
  `TakesEveryKey` in `SurvivesLosses`), is false otherwise; nothing else needs it.
* `Joining = {}, Leaving = {}`: the membership of the cluster is static. What is
  said of copies is false otherwise (`deleted`).
* `MaxCapacity >= NumShards`, for the capacity as a whole, which is
  unlimited otherwise.

Each inductive invariant below was checked by TLC on the run of its module before it
was proved. The provers have no induction over an arbitrary predicate; the few
inductions over numbers go by the least counterexample (`LeastNumber`).

* **KeyList_proofs**: the rank of an index, its inverse, and from them that
  erasing keys gives a list with exactly the other keys, in order and without new
  duplicates.
* **Shard_proofs**: for both policies and for none, what each method does to
  the tracked keys and to the consistency of the structures, ending in one lemma
  per method of the interface; then what each operation does to a shard: its type,
  the bound on its keys (`Bounded`), the agreement of policy and store (`Sound`),
  and which keys are stored afterwards. The proofs of the cache and of the cluster
  rest on these.
* **Cache_proofs**
  - `TypeTheorem` and `CapacityTheorem` follow from `BoundedInv`: well typed,
    and each shard's set of keys finite and within the capacity. Types alone are
    not inductive, because a scan adds the cardinality of a set that has to be
    finite; the finiteness holds because each step adds one key at most.
    `TotalTheorem` adds up the shards.
  - `PolicyTheorem` and `ConsistencyTheorem`: `PolicyTracksStore` and
    `PoliciesConsistent` are inductive only together (`SoundInv`): a key that is twice
    in a list stays tracked after its eviction, and a key that is tracked but not
    stored is added twice. Both hold with the empty string as a key, which may be
    stored and untracked, and nothing else may (`Tracks`). `LRUVictimTheorem`
    follows: with LRU a full shard has a victim. Under LFU this is what `lfu_full`
    refutes.
  - `ClearTheorem`, `CleanupTheorem`, `SnapshotTheorem`, `SizeTheorem`, for any
    number of threads: `ScanInv` says, for each scan under way, that what it did or
    found in the shards *behind* it lies between what was there all the time and
    what was there at some time. It takes that keys stay in their shard
    (`HomeInv`): a key that moved between shards could be missed or counted twice.
    `size` needs the two bounds as finite sets, which grow while the scan runs; the
    keys that have not expired when it returns are among the lower one.
* **Recency_proofs**: `RecencyInv` lists each shard's stored keys in the order of
  last use by clients, once each, and has the policy's list (LRU) or each of its
  buckets (LFU) in that order; for LRU only where the empty string is no key, since
  it may be missing from the list. `TiesTheorem` is its LFU half.
  `ImplementsTheorem` is the refinement: with LRU, initial states map to initial
  states of `RecencyCache`, and each step to one of its steps or to a stutter;
  a scan's visit of a shard maps to the expiry or the clearing of several keys.
* **HashRing_proofs**: lookups return distinct healthy members, nearest first, as
  many as there are, up to the number asked for (`CollectFacts`,
  `ExpectedFacts`); losing a node keeps the order of the others
  (`LossKeepsOrder`); the walk without a check for having gone round ends where
  virtual nodes do not collide (`WalkEndsFacts`).
* **Placement_proofs**, for every hash function: `MapsAgree` with the types is
  inductive because a place leads to a node only if it is one of the node's own
  positions: then removal clears every place of the node. Collisions may take
  places away from members, and never leave one behind. `ExpectedTheorem`,
  `WalkTheorem` and the two theorems about movement, `AddTheorem` and
  `LossTheorem`, follow from it and from the lemmas above.
* **Cluster_proofs**
  - `TypeTheorem`, `CachesTheorem`, `FailedTheorem`, from `ClusterInv`: the ring is
    complete (every member at all of its virtual nodes), exactly the members have a
    cache, and each cache is typed and within its capacity. Redistribution is a fold
    over the entries in every order; what holds for it is shown to survive one more
    entry.
  - `DeadlinesTheorem`, `RemovalTheorem`, `FailureTheorem`, `JoinTheorem`,
    `RepairTheorem`: the action properties of the run `cluster`. With unlimited
    caches a write is never refused and gives nothing else up, which is what the
    removal and the repair need; deadlines, failures and joins need no such
    condition. A join puts at most one node in front of the old primary, so that this
    stays among the responsible if there are replicas (`PrimaryResponsible`); a
    member that is added again moves nothing, and shares the key with another
    (`ExpectedDiffer`).
  - `PassImplementsCluster`: every step of a pass of the repair thread maps to
    `RepairKey` of a key or to a stutter, because the pass repairs keys of the cluster
    only (`KeyInv`). So the theorems above hold beside the pass as well.
  - `QuietTheorem`: `QuietInv` says that an undisturbed pass has still to come to
    each key that lacks a copy. Its counts include nodes that are not responsible,
    but it expects the maximum of replication factor and number of members: a key
    with as many copies is on every member (`EnoughFacts`). With the minimum, which
    is the number of copies there should be, it fails (mutant `ExpectedCountMin`).
  - `CopiesTheorem`, `DeletedTheorem`, `SurvivalTheorem`, from `CopiesInv`. Every
    copy at a healthy member, *expired ones included*, is at a responsible node and
    is the last entry written (`CopyInv`): expired copies count because a repair
    may read them, and responsibility because `del` and `set` reach nobody else.
    A failure keeps it, since the nodes responsible before and still healthy stay
    responsible (`ResponsibleStays`). Who kept a key took it and has it
    (`KeptInv`); a healthy node closer to a key than one that took it took it too
    (`TookInv`), so that whoever becomes the primary did; and that an LRU cache
    never refuses is the policy theorem once more, for the caches of the
    cluster (`SoundInv`). `CTypeTheorem` holds without the hypothesis.
* **Session_proofs**: for any number of clusters, that a thread lives exactly as
  long as its cluster (`NoStrayWorkersTheorem`), that a sleeping thread stays away
  from a cluster being destroyed (`SleepersTheorem`), that handlers have their
  arguments (`HandlersTheorem`), and the types. The inductive invariant `Inv`
  fixes which objects live at each point of `main` (`Lives`, `Owners`), and where a
  thread may be that slept when the destruction began: it may check the flag
  only once that is set (`Sleepers`). The types alone are not inductive: the
  destructor must have a cluster to destroy.

Every invariant and action property that a passing run checks is stated by a theorem.
Model-checked only: liveness (`RepairConverges`, `CommandsReturn`,
`ServiceKeepsPassing`), which is out of the prover's reach, and the four
counterexamples.

The LFU counters are bounded by `MaxFreq` in the proofs as in the runs, for
every `MaxFreq`, and the cluster's clock by `MaxTime`.

## 6. Not modelled, and why

* Trimming and splitting of command lines, output, the text of errors. Numbers that
  do not parse: the command changes nothing.
* The concurrency test: a driver of the same operations.
* The statistics of the service and of the cluster: nothing reads them but the
  display. `triggerRepair`: no caller.
* `enforceCapacityShard`, `cleanupExpiredBatch`, `ConsistentHashRing::clear`:
  no callers. `evictedCount`: never read.
* Exceptions and allocation failure (`catch (...)` around the policy calls):
  no policy method throws.
* The hash functions: `ShardOf`, `KeyHash`, `NodeHashes` are constants; in
  `Placement` every choice is explored. `DistributedCache` assumes that virtual
  nodes do not collide (`ClusterAssumption`).
* Thread scheduling below a lock: each critical section is one step.

## 7. Plan

Done, in this order: policies, `Shard`, `Cache` and its histories, the abstract
LRU cache; `HashRing`, `Placement`; `DistributedCache`, `ClusterCopies`; type
and capacity theorems, policy theorem, ring theorem; collisions and the walk of
the other lookup; `AntiEntropy`; `RepairService`, `Session` and their theorems;
the lookups and movement; the cluster, its pass and its copies; scans; ties and
the refinement of `RecencyCache`; the empty key, for policies, capacity and ties;
joins.

Next:

1. What still holds of copies when nodes join and leave: which copies can be
   stale, and that no node that stayed responsible has one.
2. An LFU refinement: what an LFU cache promises, as far as the code keeps it.
3. The empty key: what an LRU shard that has evicted it still promises.
4. `SoundInv`, that the policies of the cluster's caches agree with their stores,
   without its hypothesis: over a redistribution.
