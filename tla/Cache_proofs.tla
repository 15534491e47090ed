---------------------------- MODULE Cache_proofs ----------------------------
(***************************************************************************)
(* Proofs about Cache, for any number of keys, shards and threads, any     *)
(* capacity and any of the eviction policies:                              *)
(*                                                                         *)
(*   - the type invariant;                                                 *)
(*   - no shard exceeds its share of the capacity;                         *)
(*   - the policies track exactly the stored keys and stay consistent      *)
(*     (for clients that do not use the empty string as a key);            *)
(*   - with the LRU policy a full shard always has a key to evict.         *)
(*                                                                         *)
(* What the operations do to one shard is shown in Shard_proofs; here that *)
(* every action of Cache preserves the invariants.                         *)
(***************************************************************************)
EXTENDS CacheScans, Shard_proofs

----------------------------------------------------------------------------
(* The type invariant.                                                     *)

\* The entries that set and setWithTtl make are entries.
LEMMA EntryTypes ==
    ASSUME NEW x \in Values, NEW ttl \in Ttls, now \in 0 .. MaxTime
    PROVE  Immortal(x) \in Entry /\ Mortal(x, ttl, now) \in Entry
<1>1. ttl \in Int /\ now \in Int /\ TicksPerSecond \in Int
  BY CacheAssumption, ShardAssumption
<1>2. now + ttl * TicksPerSecond \in Int
  BY <1>1
<1> QED
  BY <1>2 DEF Immortal, Mortal, Entry

\* getShard names a shard.
LEMMA ShardOfType == ASSUME NEW k \in Keys PROVE ShardOf[k] \in Shards
BY ShardAssumption DEF Shards

\* What one visit of a scan does to the shard it visits.
LEMMA VisitFacts ==
    ASSUME NEW sh \in ShardStates, NEW op
    PROVE  /\ Visit(op, sh) \in ShardStates
           /\ Bounded(sh) => Bounded(Visit(op, sh))
           /\ Sound(sh) => Sound(Visit(op, sh))
<1>1. CASE op = "clear"
  BY <1>1, NewShardFacts DEF Visit
<1>2. CASE op = "cleanupExpired"
  BY <1>2, RemovalFacts DEF Visit, Cleanup
<1>3. CASE op # "clear" /\ op # "cleanupExpired"
  BY <1>3 DEF Visit
<1> QED
  BY <1>1, <1>2, <1>3

\* Every step leaves each shard alone, or puts there what one operation makes
\* of it.
LEMMA ShardSteps ==
    ASSUME TypeOK, [Next]_vars, NEW i \in Shards
    PROVE  \/ shards'[i] = shards[i]
           \/ \E k \in Keys, e \in Entry :
                 /\ ShardOf[k] = i /\ CanCount(shards[i].pol, k)
                 /\ shards'[i] = Put(shards[i], k, e).shard
           \/ \E k \in Keys :
                 /\ CanCount(shards[i].pol, k)
                 /\ shards'[i] = Get(shards[i], k, now).shard
           \/ \E k \in Keys : shards'[i] = Delete(shards[i], k)
           \/ \E op : shards'[i] = Visit(op, shards[i])
<1> USE DEF TypeOK
<1>1. ASSUME NEW k \in Keys, NEW x \in Values, Set(k, x)
      PROVE  \/ shards'[i] = shards[i]
             \/ \E e \in Entry :
                   /\ ShardOf[k] = i /\ CanCount(shards[i].pol, k)
                   /\ shards'[i] = Put(shards[i], k, e).shard
  <2>1. Immortal(x) \in Entry
    BY DEF Immortal, Entry
  <2> QED
    BY <1>1, <2>1, ShardOfType DEF Set, PutEntry
<1>2. ASSUME NEW k \in Keys, NEW x \in Values, NEW ttl \in Ttls,
             SetWithTtl(k, x, ttl)
      PROVE  \/ shards'[i] = shards[i]
             \/ \E e \in Entry :
                   /\ ShardOf[k] = i /\ CanCount(shards[i].pol, k)
                   /\ shards'[i] = Put(shards[i], k, e).shard
  BY <1>2, EntryTypes, ShardOfType DEF SetWithTtl, PutEntry
<1>3. ASSUME NEW k \in Keys, GetKey(k)
      PROVE  \/ shards'[i] = shards[i]
             \/ /\ CanCount(shards[i].pol, k)
                /\ shards'[i] = Get(shards[i], k, now).shard
  BY <1>3, ShardOfType DEF GetKey
<1>4. ASSUME NEW k \in Keys, Del(k)
      PROVE  shards'[i] = shards[i] \/ shards'[i] = Delete(shards[i], k)
  BY <1>4, ShardOfType DEF Del
<1>5. ASSUME NEW t \in Threads, ScanShard(t)
      PROVE  \/ shards'[i] = shards[i]
             \/ \E op : shards'[i] = Visit(op, shards[i])
  BY <1>5 DEF ScanShard
<1>6. ASSUME NEW t \in Threads, NEW op \in ScanOps, StartScan(t, op)
      PROVE  shards'[i] = shards[i]
  BY <1>6 DEF StartScan
<1>7. ASSUME NEW t \in Threads, Return(t)
      PROVE  shards'[i] = shards[i]
  BY <1>7 DEF Return
<1>8. ASSUME Tick \/ UNCHANGED vars
      PROVE  shards'[i] = shards[i]
  BY <1>8 DEF Tick, vars
<1> QED
  BY <1>1, <1>2, <1>3, <1>4, <1>5, <1>6, <1>7, <1>8 DEF Next

\* So whatever the operations preserve, every step preserves for each shard.
LEMMA ShardInvariants ==
    ASSUME TypeOK, [Next]_vars, NEW i \in Shards
    PROVE  /\ shards'[i] \in ShardStates
           /\ Bounded(shards[i]) => Bounded(shards'[i])
           /\ Sound(shards[i]) => Sound(shards'[i])
<1>1. shards[i] \in ShardStates
  BY DEF TypeOK
<1>2. CASE shards'[i] = shards[i]
  BY <1>1, <1>2
<1>3. CASE \E k \in Keys, e \in Entry :
             /\ ShardOf[k] = i /\ CanCount(shards[i].pol, k)
             /\ shards'[i] = Put(shards[i], k, e).shard
  BY <1>1, <1>3, PutFacts
<1>4. CASE \E k \in Keys :
             /\ CanCount(shards[i].pol, k)
             /\ shards'[i] = Get(shards[i], k, now).shard
  BY <1>1, <1>4, GetFacts
<1>5. CASE \E k \in Keys : shards'[i] = Delete(shards[i], k)
  BY <1>1, <1>5, RemovalFacts DEF Delete
<1>6. CASE \E op : shards'[i] = Visit(op, shards[i])
  BY <1>1, <1>6, VisitFacts
<1> QED
  BY <1>2, <1>3, <1>4, <1>5, <1>6, ShardSteps

\* A scan's result stays well typed as it gathers another shard.
LEMMA GatherType ==
    ASSUME NEW s \in Scan, s.next <= NumShards, NEW sh \in ShardStates,
           IsFiniteSet(Stored(sh))
    PROVE  Gather(s, sh) \in Scan
<1>1. /\ s.op \in ScanOps
      /\ s.next + 1 \in 1 .. NumShards + 1
      /\ s.count \in Nat
      /\ s.data \in [Keys -> Entry \cup {NoEntry}]
  <2>1. /\ s.op \in ScanOps
        /\ s.next \in 1 .. NumShards + 1
        /\ s.count \in Nat
        /\ s.data \in [Keys -> Entry \cup {NoEntry}]
    BY DEF Scan
  <2>2. NumShards \in Nat
    BY ShardAssumption
  <2> QED
    BY <2>1, <2>2
<1>2. Gather(s, sh).count \in Nat
  <2>1. IsFiniteSet(ExpiredKeys(sh, now)) /\ IsFiniteSet({})
    BY FS_Subset, FS_EmptySet DEF ExpiredKeys
  <2>2. \A S : IsFiniteSet(S) => s.count + Cardinality(S) \in Nat
    BY <1>1, FS_CardinalityType
  <2> QED
    BY <2>1, <2>2 DEF Gather
<1>3. Gather(s, sh).data \in [Keys -> Entry \cup {NoEntry}]
  BY <1>1 DEF Gather, ShardStates
<1> QED
  BY <1>1, <1>2, <1>3 DEF Gather, Scan

\* Every step keeps the scans well typed: a scan visits a shard or is over.
LEMMA ScanSteps ==
    ASSUME TypeOK, [Next]_vars, \A i \in Shards : Bounded(shards[i])
    PROVE  scan' \in [Threads -> Scan \cup {Idle}] /\ now' \in 0 .. MaxTime
<1> USE DEF TypeOK
<1>1. ASSUME NEW t \in Threads, NEW op \in ScanOps, StartScan(t, op)
      PROVE  scan' \in [Threads -> Scan \cup {Idle}] /\ now' = now
  <2>1. [op |-> op, next |-> 1, count |-> 0, data |-> EmptyStore] \in Scan
    <3>1. 1 \in 1 .. NumShards + 1
      BY ShardAssumption
    <3> QED
      BY <3>1 DEF Scan, EmptyStore
  <2> QED
    BY <1>1, <2>1 DEF StartScan
<1>2. ASSUME NEW t \in Threads, ScanShard(t)
      PROVE  scan' \in [Threads -> Scan \cup {Idle}] /\ now' = now
  <2>1. scan[t] \in Scan /\ scan[t].next <= NumShards
    BY <1>2 DEF ScanShard
  <2>2. scan[t].next \in Shards
    BY <2>1, ShardAssumption DEF Scan, Shards
  <2>3. Gather(scan[t], shards[scan[t].next]) \in Scan
    BY <2>1, <2>2, GatherType DEF Bounded
  <2> QED
    BY <1>2, <2>3 DEF ScanShard
<1>3. ASSUME NEW t \in Threads, Return(t)
      PROVE  scan' \in [Threads -> Scan \cup {Idle}] /\ now' = now
  BY <1>3 DEF Return
<1>4. ASSUME Tick
      PROVE  scan' = scan /\ now' \in 0 .. MaxTime
  <2>1. MaxTime \in Nat /\ now \in 0 .. MaxTime
    BY ShardAssumption
  <2> QED
    BY <1>4, <2>1 DEF Tick
<1>5. ASSUME UNCHANGED vars
      PROVE  scan' = scan /\ now' = now
  BY <1>5 DEF vars
<1>6. ASSUME NEW k \in Keys,
             \/ \E x \in Values : Set(k, x)
             \/ \E x \in Values, ttl \in Ttls : SetWithTtl(k, x, ttl)
             \/ GetKey(k)
             \/ Del(k)
      PROVE  scan' = scan /\ now' = now
  BY <1>6 DEF Set, SetWithTtl, PutEntry, GetKey, Del
<1> QED
  BY <1>1, <1>2, <1>3, <1>4, <1>5, <1>6 DEF Next

----------------------------------------------------------------------------
(* The theorems.                                                           *)

\* The inductive invariant of the first two theorems.  The types alone are
\* not inductive: a scan's count is a number because the store it counts is
\* finite.
BoundedInv == TypeOK /\ \A i \in Shards : Bounded(shards[i])

\* A new cache has it.
LEMMA InitFacts == Init => BoundedInv
<1> SUFFICES ASSUME Init PROVE BoundedInv
  OBVIOUS
<1>1. \A i \in Shards : shards[i] = NewShard
  BY DEF Init
<1>2. TypeOK
  <2>1. 0 \in 0 .. MaxTime
    BY ShardAssumption
  <2> QED
    BY <2>1, NewShardFacts DEF Init, TypeOK
<1> QED
  BY <1>1, <1>2, NewShardFacts DEF BoundedInv

\* Every state of the cache has BoundedInv, whatever the keys and the policy.
THEOREM BoundedTheorem == Spec => []BoundedInv
<1>1. Init => BoundedInv
  BY InitFacts
<1>2. BoundedInv /\ [Next]_vars => BoundedInv'
  <2> SUFFICES ASSUME BoundedInv, [Next]_vars PROVE BoundedInv'
    OBVIOUS
  <2>1. TypeOK /\ \A i \in Shards : Bounded(shards[i])
    BY DEF BoundedInv
  <2>2. \A i \in Shards : shards'[i] \in ShardStates /\ Bounded(shards'[i])
    BY <2>1, ShardInvariants
  <2>3. shards' = [i \in Shards |-> shards'[i]]
    BY <2>1 DEF TypeOK, Next, vars, Set, SetWithTtl, PutEntry, GetKey, Del,
                StartScan, ScanShard, Return, Tick
  <2>4. shards' \in [Shards -> ShardStates]
    BY <2>2, <2>3
  <2>5. scan' \in [Threads -> Scan \cup {Idle}] /\ now' \in 0 .. MaxTime
    BY <2>1, ScanSteps
  <2> QED
    BY <2>2, <2>4, <2>5 DEF BoundedInv, TypeOK, Bounded, Stored
<1> QED
  BY <1>1, <1>2, PTL DEF Spec

\* The type invariant.
THEOREM TypeTheorem == Spec => []TypeOK
<1>1. BoundedInv => TypeOK
  BY DEF BoundedInv
<1> QED
  BY <1>1, BoundedTheorem, PTL

\* No shard ever holds more keys than its share of the capacity, whatever
\* the policy, the keys and the number of concurrent scans.
THEOREM CapacityTheorem == Spec => []CapacityRespected
<1>1. BoundedInv => CapacityRespected
  BY DEF BoundedInv, Bounded, CapacityRespected
<1> QED
  BY <1>1, BoundedTheorem, PTL

\* Finitely many sets of at most c members each.
LEMMA UnionFacts ==
    ASSUME NEW f, NEW c \in Nat, NEW n \in Nat,
           \A i \in 1 .. n : IsFiniteSet(f[i]) /\ Cardinality(f[i]) <= c
    PROVE  /\ Cardinality(UNION {f[i] : i \in 1 .. n}) \in Nat
           /\ Cardinality(UNION {f[i] : i \in 1 .. n}) <= n * c
<1> DEFINE First(m) == UNION {f[i] : i \in 1 .. m}
           Fits(m)  == IsFiniteSet(First(m)) /\ Cardinality(First(m)) <= m * c
           Misfits  == {m \in 0 .. n : ~Fits(m)}
<1>1. Fits(0)
  <2>1. First(0) = {}
    OBVIOUS
  <2> HIDE DEF First
  <2> QED
    BY <2>1, FS_EmptySet
<1>2. ASSUME NEW m \in 1 .. n, Fits(m - 1) PROVE Fits(m)
  <2>1. First(m) = First(m - 1) \cup f[m]
    <3>1. 1 .. m = (1 .. m - 1) \cup {m}
      OBVIOUS
    <3> QED
      BY <3>1
  <2>2. IsFiniteSet(f[m]) /\ Cardinality(f[m]) <= c
    OBVIOUS
  <2> DEFINE less == First(m - 1)
  <2>3. IsFiniteSet(less) /\ Cardinality(less) <= (m - 1) * c
    BY <1>2
  <2> HIDE DEF less
  <2>4. /\ IsFiniteSet(less \cup f[m])
        /\ Cardinality(less \cup f[m])
              = Cardinality(less) + Cardinality(f[m]) - Cardinality(less \cap f[m])
    BY <2>2, <2>3, FS_Union
  <2>5. /\ Cardinality(less) \in Nat /\ Cardinality(f[m]) \in Nat
        /\ Cardinality(less \cap f[m]) \in Nat
    BY <2>2, <2>3, FS_Intersection, FS_CardinalityType
  <2>6. (m - 1) * c + c = m * c /\ (m - 1) * c \in Int /\ m * c \in Int
    OBVIOUS
  <2>7. Cardinality(less \cup f[m]) <= m * c
    BY <2>2, <2>3, <2>4, <2>5, <2>6
  <2> QED
    BY <2>1, <2>4, <2>7 DEF less
<1> HIDE DEF Fits
<1>3. Misfits = {}
  <2> SUFFICES ASSUME Misfits # {} PROVE FALSE
    OBVIOUS
  <2>1. Misfits \in SUBSET Nat
    OBVIOUS
  <2> HIDE DEF Misfits
  <2>2. PICK m \in Misfits : \A x \in Misfits : m <= x
    BY <2>1, LeastNumber
  <2>3. m \in 0 .. n /\ ~Fits(m) /\ m # 0
    BY <1>1, <2>2 DEF Misfits
  <2>4. m \in 1 .. n /\ m - 1 \in 0 .. n /\ m - 1 \notin Misfits
    BY <2>2, <2>3
  <2> QED
    BY <1>2, <2>3, <2>4 DEF Misfits
<1>4. Fits(n)
  BY <1>3
<1> QED
  BY <1>4, FS_CardinalityType DEF Fits

\* The whole cache keeps to its capacity, if that gives every shard a share
\* (cache.h:71); a smaller one is rounded down to none (cache.cpp:27).
THEOREM TotalTheorem ==
    ASSUME MaxCapacity >= NumShards
    PROVE  Spec => []CapacityIsAMaximum
<1>1. /\ NumShards \in Nat \ {0} /\ MaxCapacity \in Nat
      /\ ShardCapacity \in Nat /\ ShardCapacity > 0
      /\ NumShards * ShardCapacity <= MaxCapacity
  <2>1. NumShards \in Nat \ {0} /\ MaxCapacity \in Nat
    BY ShardAssumption
  <2> QED
    BY <2>1 DEF ShardCapacity
<1>2. BoundedInv => CapacityIsAMaximum
  <2> SUFFICES ASSUME BoundedInv
               PROVE  Cardinality(UNION {Stored(shards[i]) : i \in Shards}) <= MaxCapacity
    BY DEF CapacityIsAMaximum
  <2> DEFINE f == [i \in Shards |-> Stored(shards[i])]
             n == NumShards
             c == ShardCapacity
  <2>1. \A i \in 1 .. n : IsFiniteSet(f[i]) /\ Cardinality(f[i]) <= c
    BY <1>1 DEF BoundedInv, Bounded, Shards
  <2>2. UNION {Stored(shards[i]) : i \in Shards} = UNION {f[i] : i \in 1 .. n}
    BY DEF Shards
  <2>3. c \in Nat /\ n \in Nat /\ n * c <= MaxCapacity
    BY <1>1
  <2> HIDE DEF f, n, c
  <2> DEFINE total == Cardinality(UNION {f[i] : i \in 1 .. n})
  <2>4. total \in Nat /\ total <= n * c
    BY <2>1, <2>3, UnionFacts
  <2> HIDE DEF total
  <2>5. total <= MaxCapacity
    BY <1>1, <2>3, <2>4
  <2> QED
    BY <2>2, <2>5 DEF total
<1> QED
  BY <1>2, BoundedTheorem, PTL

\* The inductive invariant of the last two: the policies' consistency is
\* needed as well, for a key that is twice in a list would still be tracked
\* after its eviction.
SoundInv == \A i \in Shards : Sound(shards[i])

\* The policies track what the stores hold, all of it but possibly the empty
\* string, and stay consistent.
THEOREM PolicyTheorem == Spec => [](PolicyTracksStore /\ PoliciesConsistent)
<1>1. Init => SoundInv
  BY NewShardFacts DEF Init, SoundInv
<1>2. BoundedInv /\ SoundInv /\ [Next]_vars => SoundInv'
  <2> SUFFICES ASSUME BoundedInv, SoundInv, [Next]_vars PROVE SoundInv'
    OBVIOUS
  <2>1. \A i \in Shards : Sound(shards'[i])
    BY ShardInvariants DEF BoundedInv, SoundInv
  <2> QED
    BY <2>1 DEF SoundInv, Sound, Stored
<1>3. SoundInv => PolicyTracksStore /\ PoliciesConsistent
  BY DEF SoundInv, Sound, PolicyTracksStore, PoliciesConsistent
<1> QED
  BY <1>1, <1>2, <1>3, BoundedTheorem, PTL DEF Spec

\* With the LRU policy set never fails for want of a key to evict.
THEOREM LRUVictimTheorem ==
    ASSUME EmptyKey \notin Keys, Policy = "LRU"
    PROVE  Spec => []FullShardHasVictim
<1>1. BoundedInv /\ PolicyTracksStore /\ PoliciesConsistent => FullShardHasVictim
  <2> SUFFICES ASSUME BoundedInv, PolicyTracksStore, PoliciesConsistent,
                      NEW i \in Shards, Full(shards[i])
               PROVE  Evict(shards[i].pol).key \in Stored(shards[i]) \ {EmptyKey}
    BY DEF FullShardHasVictim
  <2> DEFINE sh == shards[i]
  <2>1. sh.pol \in PolicyStates /\ Stored(sh) \subseteq Keys
    BY DEF BoundedInv, TypeOK, ShardStates, Stored
  <2>2. Stored(sh) # {}
    BY FS_EmptySet, ShardCapacityType DEF Full
  <2>3. Tracks(sh.pol, Stored(sh)) /\ PolicyConsistent(sh.pol)
    BY DEF PolicyTracksStore, PoliciesConsistent
  <2>4. Evict(sh.pol).key \in Stored(sh)
    BY <2>1, <2>2, <2>3, EvictFacts
  <2> QED
    BY <2>1, <2>4
<1> QED
  BY <1>1, BoundedTheorem, PolicyTheorem, PTL

----------------------------------------------------------------------------
(* What a scan that holds one lock at a time still promises.               *)

\* The keys of a shard are those that getShard sends there.
Home(i) == {k \in Keys : ShardOf[k] = i}
HomeInv == \A i \in Shards : Stored(shards[i]) \subseteq Home(i)

\* The keys among the pairs whose shards the scan s has behind it.
Behind(pairs, s) == {k \in KeysOf(pairs) : ShardOf[k] < s.next}

\* The contents lie between what was there all the time since the scan of
\* thread t began and what was there at some time since.
Window(t) ==
    /\ steady[t] \subseteq Contents
    /\ Contents \subseteq seen[t]
    /\ IsFiniteSet(KeysOf(seen[t]))
    /\ began[t] <= now

\* What the scan s has done to the shards that it has behind it, or found
\* there, when `all' was there all the time since clock reading `start' and
\* `some' at some time.
Promise(s, all, some, start) ==
    /\ s.op = "clear" => \A p \in all : ShardOf[p[1]] >= s.next
    /\ s.op = "cleanupExpired" =>
          \A p \in all : ShardOf[p[1]] < s.next => ~IsExpired(p[2], start)
    /\ s.op = "getAllData" =>
          /\ \A p \in all : ShardOf[p[1]] < s.next => s.data[p[1]] = p[2]
          /\ \A k \in Keys : s.data[k] # NoEntry => <<k, s.data[k]>> \in some
    /\ s.op = "size" =>
          /\ Cardinality(Behind(all, s)) <= s.count
          /\ s.count <= Cardinality(Behind(some, s))

ScanInv ==
    /\ HTypeOK
    /\ HomeInv
    /\ \A t \in Threads :
          scan[t] # Idle =>
              Window(t) /\ Promise(scan[t], steady[t], seen[t], began[t])

\* No operation puts a key into a shard that is not its own.
LEMMA HomeSteps ==
    ASSUME TypeOK, HomeInv, [Next]_vars
    PROVE  HomeInv'
<1> SUFFICES ASSUME NEW i \in Shards PROVE Stored(shards'[i]) \subseteq Home(i)
  BY DEF HomeInv, Stored, Home
<1>1. shards[i] \in ShardStates /\ Stored(shards[i]) \subseteq Home(i)
  BY DEF TypeOK, HomeInv
<1>2. CASE shards'[i] = shards[i]
  BY <1>1, <1>2
<1>3. ASSUME NEW k \in Keys, NEW e \in Entry, ShardOf[k] = i,
             shards'[i] = Put(shards[i], k, e).shard
      PROVE  Stored(shards'[i]) \subseteq Home(i)
  <2>1. \A j \in Keys \ {k} : shards'[i].store[j] \in {shards[i].store[j], NoEntry}
    BY <1>1, <1>3, PutStore
  <2> QED
    BY <1>1, <1>3, <2>1 DEF Stored, Home
<1>4. ASSUME NEW k \in Keys, shards'[i] = Get(shards[i], k, now).shard
      PROVE  Stored(shards'[i]) \subseteq Home(i)
  <2>1. \A j \in Keys : shards'[i].store[j] \in {shards[i].store[j], NoEntry}
    BY <1>1, <1>4, GetStore
  <2> QED
    BY <1>1, <2>1 DEF Stored
<1>5. ASSUME NEW k \in Keys, shards'[i] = Delete(shards[i], k)
      PROVE  Stored(shards'[i]) \subseteq Home(i)
  BY <1>1, <1>5 DEF Delete, Erase, Stored
<1>6. ASSUME NEW op, shards'[i] = Visit(op, shards[i])
      PROVE  Stored(shards'[i]) \subseteq Home(i)
  BY <1>1, <1>6 DEF Visit, Cleanup, NewShard, EmptyStore, Erase, Stored
<1> QED
  BY <1>2, <1>3, <1>4, <1>5, <1>6, ShardSteps

\* The contents of the cache: their type, that their keys are finitely many,
\* and which of them lie in a given shard.
LEMMA ContentsFacts ==
    ASSUME BoundedInv, HomeInv
    PROVE  /\ Contents \subseteq Keys \X Entry
           /\ IsFiniteSet(KeysOf(Contents))
           /\ \A i \in Shards :
                 /\ \A p \in Contents : ShardOf[p[1]] = i =>
                       p[1] \in Stored(shards[i]) /\ p[2] = shards[i].store[p[1]]
                 /\ \A k \in Stored(shards[i]) :
                       /\ k \in Keys /\ ShardOf[k] = i
                       /\ <<k, shards[i].store[k]>> \in Contents
<1>1. \A i \in Shards : shards[i] \in ShardStates /\ Bounded(shards[i])
  BY DEF BoundedInv, TypeOK
<1>2. \A k \in Keys : ShardOf[k] \in Shards
  BY ShardOfType
<1>3. ASSUME NEW p \in Contents
      PROVE  /\ p \in Keys \X Entry
             /\ p[1] \in Stored(shards[ShardOf[p[1]]])
             /\ p[2] = shards[ShardOf[p[1]]].store[p[1]]
  <2>1. PICK k \in Keys : /\ k \in Stored(shards[ShardOf[k]])
                          /\ p = <<k, shards[ShardOf[k]].store[k]>>
    BY DEF Contents
  <2>2. shards[ShardOf[k]].store[k] \in Entry
    BY <1>1, <1>2, <2>1 DEF ShardStates, Stored
  <2> QED
    BY <2>1, <2>2
<1>4. ASSUME NEW i \in Shards, NEW k \in Stored(shards[i])
      PROVE  /\ k \in Keys /\ ShardOf[k] = i
             /\ <<k, shards[i].store[k]>> \in Contents
  BY DEF HomeInv, Home, Stored, Contents
<1>5. IsFiniteSet(KeysOf(Contents))
  <2> DEFINE F == {Stored(shards[i]) : i \in Shards}
             f == [i \in Shards |-> Stored(shards[i])]
  <2>1. IsFiniteSet(F)
    <3>1. IsFiniteSet(Shards)
      BY ShardAssumption, FS_Interval DEF Shards
    <3>2. f \in Surjection(Shards, F)
      BY DEF Surjection
    <3> QED
      BY <3>1, <3>2, FS_Surjection
  <2>2. \A S \in F : IsFiniteSet(S)
    BY <1>1 DEF Bounded
  <2> HIDE DEF F
  <2>3. IsFiniteSet(UNION F)
    BY <2>1, <2>2, FS_UNION
  <2>4. KeysOf(Contents) \subseteq UNION F
    BY <1>2, <1>3 DEF KeysOf, F
  <2> QED
    BY <2>3, <2>4, FS_Subset
<1> QED
  BY <1>3, <1>4, <1>5

\* A promise is kept when less was there all the time, and more at some time.
LEMMA PromiseWeakens ==
    ASSUME NEW s, NEW all, NEW some, NEW start, NEW less, NEW more,
           Promise(s, all, some, start),
           less \subseteq all, all \subseteq some, some \subseteq more,
           IsFiniteSet(KeysOf(more)), s.count \in Nat
    PROVE  Promise(s, less, more, start)
<1>1. /\ Behind(less, s) \subseteq Behind(all, s)
      /\ Behind(all, s) \subseteq Behind(more, s)
      /\ Behind(some, s) \subseteq Behind(more, s)
      /\ Behind(more, s) \subseteq KeysOf(more)
  BY DEF Behind, KeysOf
<1> DEFINE L == Behind(less, s)
           A == Behind(all, s)
           S == Behind(some, s)
           M == Behind(more, s)
<1>2. IsFiniteSet(M)
  BY <1>1, FS_Subset
<1> HIDE DEF L, A, S, M
<1>3. L \subseteq A /\ A \subseteq M /\ S \subseteq M
  BY <1>1 DEF L, A, S, M
<1>4. IsFiniteSet(A)
  BY <1>2, <1>3, FS_Subset
<1>5. Cardinality(L) <= Cardinality(A) /\ IsFiniteSet(L)
  BY <1>3, <1>4, FS_Subset
<1>6. Cardinality(S) <= Cardinality(M) /\ IsFiniteSet(S)
  BY <1>2, <1>3, FS_Subset
<1>7. /\ Cardinality(L) \in Nat /\ Cardinality(A) \in Nat
      /\ Cardinality(S) \in Nat /\ Cardinality(M) \in Nat
  BY <1>2, <1>4, <1>5, <1>6, FS_CardinalityType
<1>8. s.op = "size" => Cardinality(L) <= s.count /\ s.count <= Cardinality(M)
  <2>1. s.op = "size" => Cardinality(A) <= s.count /\ s.count <= Cardinality(S)
    BY DEF Promise, A, S
  <2> QED
    BY <1>5, <1>6, <1>7, <2>1
<1> QED
  BY <1>8 DEF Promise, L, M

\* A scan that has visited no shard has promised nothing yet.
LEMMA PromiseStarts ==
    ASSUME NEW op, NEW all, NEW start, all \subseteq Keys \X Entry
    PROVE  Promise([op |-> op, next |-> 1, count |-> 0, data |-> EmptyStore],
                   all, all, start)
<1> DEFINE s == [op |-> op, next |-> 1, count |-> 0, data |-> EmptyStore]
<1>1. \A k \in Keys : ShardOf[k] >= 1 /\ ~(ShardOf[k] < 1)
  BY ShardAssumption
<1>2. \A k \in KeysOf(all) : k \in Keys
  BY DEF KeysOf
<1>3. /\ s.op = op /\ s.next = 1 /\ s.count = 0
      /\ \A k \in Keys : s.data[k] = NoEntry
  BY DEF EmptyStore
<1> HIDE DEF s
<1>4. Behind(all, s) = {}
  BY <1>1, <1>2, <1>3 DEF Behind
<1>5. Cardinality({}) = 0
  BY FS_EmptySet
<1>6. \A p \in all : p[1] \in Keys
  OBVIOUS
<1>7. \A p \in all : ShardOf[p[1]] >= s.next /\ ~(ShardOf[p[1]] < s.next)
  BY <1>1, <1>3, <1>6
<1>8. Cardinality(Behind(all, s)) <= s.count /\ s.count <= Cardinality(Behind(all, s))
  BY <1>3, <1>4, <1>5
<1> QED
  BY <1>3, <1>7, <1>8 DEF Promise, s

\* A visit keeps the scan's promise and extends it to the shard visited.
LEMMA PromiseVisit ==
    ASSUME BoundedInv, HomeInv,
           NEW s \in Scan, s.next <= NumShards,
           NEW all, NEW some, NEW start \in Int, NEW less,
           start <= now,
           all \subseteq Contents, Contents \subseteq some,
           IsFiniteSet(KeysOf(some)), some \subseteq Keys \X Entry,
           less \subseteq all,
           \A p \in less : ShardOf[p[1]] = s.next =>
               LET visited == Visit(s.op, shards[s.next])
               IN  p[1] \in Stored(visited) /\ p[2] = visited.store[p[1]],
           Promise(s, all, some, start)
    PROVE  Promise(Gather(s, shards[s.next]), less, some, start)
<1> DEFINE i  == s.next
           sh == shards[i]
           g  == Gather(s, sh)
<1>1. /\ i \in Shards /\ i \in Int /\ s.op \in ScanOps /\ s.count \in Nat
      /\ s.data \in [Keys -> Entry \cup {NoEntry}]
  BY ShardAssumption DEF Scan, Shards
<1>2. /\ sh \in ShardStates /\ IsFiniteSet(Stored(sh))
      /\ now \in Int
  BY <1>1 DEF BoundedInv, TypeOK, Bounded
<1>3. \A k \in Keys : ShardOf[k] \in Int
  BY ShardAssumption
<1>4. /\ \A p \in Contents : p[1] \in Keys /\ p[2] \in Entry
      /\ \A p \in Contents : ShardOf[p[1]] = i =>
             p[1] \in Stored(sh) /\ p[2] = sh.store[p[1]]
      /\ \A k \in Stored(sh) : k \in Keys /\ ShardOf[k] = i
                               /\ <<k, sh.store[k]>> \in Contents
  BY <1>1, ContentsFacts
<1>5. /\ g.op = s.op /\ g.next = i + 1
      /\ s.op = "size" => g.count = s.count + Cardinality(Stored(sh))
      /\ s.op = "getAllData" =>
            \A k \in Keys : g.data[k] = IF k \in Stored(sh) THEN sh.store[k]
                                                            ELSE s.data[k]
  BY DEF Gather
<1>6. \A p \in less : /\ ShardOf[p[1]] = i =>
                            /\ p[1] \in Stored(Visit(s.op, sh))
                            /\ p[2] = Visit(s.op, sh).store[p[1]]
                      /\ p[1] \in Keys /\ p[2] \in Entry /\ p \in all
                      /\ p \in Contents
                      /\ ShardOf[p[1]] \in Int
  BY <1>3, <1>4
<1> HIDE DEF i, sh, g
<1>7. ~(i < i)
  BY <1>1
<1>8. \A k \in Stored(sh) : ~(ShardOf[k] < i)
  BY <1>4, <1>7
<1>9. ASSUME s.op = "clear", NEW p \in less
      PROVE  ShardOf[p[1]] >= g.next
  <2>1. ShardOf[p[1]] >= i
    BY <1>6, <1>9 DEF Promise, i
  <2>2. ShardOf[p[1]] # i
    BY <1>6, <1>9 DEF Visit, NewShard, EmptyStore, Stored
  <2> QED
    BY <1>1, <1>5, <1>6, <2>1, <2>2
<1>10. ASSUME s.op = "cleanupExpired", NEW p \in less, ShardOf[p[1]] < g.next
      PROVE  ~IsExpired(p[2], start)
  <2>1. CASE ShardOf[p[1]] < i
    BY <1>6, <1>10, <2>1 DEF Promise, i
  <2>2. CASE ShardOf[p[1]] = i
    <3>1. p[1] \in Stored(Cleanup(sh, now)) /\ p[2] = Cleanup(sh, now).store[p[1]]
      BY <1>6, <1>10, <2>2 DEF Visit
    <3>2. ~IsExpired(p[2], now)
      BY <1>2, <1>6, <3>1 DEF Cleanup, Erase, ExpiredKeys, Stored
    <3>3. p[2].expiry = NoExpiry \/ p[2].expiry \in Int
      BY <1>6 DEF Entry
    <3> QED
      BY <1>2, <3>2, <3>3 DEF IsExpired
  <2> QED
    BY <1>1, <1>5, <1>6, <1>10, <2>1, <2>2
<1>11. ASSUME s.op = "getAllData", NEW p \in less, ShardOf[p[1]] < g.next
      PROVE  g.data[p[1]] = p[2]
  <2>1. CASE ShardOf[p[1]] < i
    <3>1. s.data[p[1]] = p[2]
      BY <1>6, <1>11, <2>1 DEF Promise, i
    <3>2. p[1] \notin Stored(sh)
      BY <1>8, <2>1
    <3> QED
      BY <1>5, <1>6, <1>11, <3>1, <3>2
  <2>2. CASE ShardOf[p[1]] = i
    BY <1>4, <1>5, <1>6, <1>11, <2>2
  <2> QED
    BY <1>1, <1>5, <1>6, <1>11, <2>1, <2>2
<1>12. ASSUME s.op = "getAllData", NEW k \in Keys, g.data[k] # NoEntry
       PROVE  <<k, g.data[k]>> \in some
  <2>1. CASE k \in Stored(sh)
    BY <1>4, <1>5, <1>12, <2>1
  <2>2. CASE k \notin Stored(sh)
    BY <1>5, <1>12, <2>2 DEF Promise
  <2> QED
    BY <2>1, <2>2
<1>13. ASSUME s.op = "size"
       PROVE  /\ Cardinality(Behind(less, g)) <= g.count
              /\ g.count <= Cardinality(Behind(some, g))
  <2> DEFINE L  == Behind(less, g)
             A  == Behind(all, s)
             S  == Behind(some, s)
             M  == Behind(some, g)
             H  == Stored(sh)
             HS == H \cup S
             HA == H \cup A
  <2>0. Cardinality(A) <= s.count /\ s.count <= Cardinality(S)
    BY <1>13 DEF Promise
  <2>1. L \subseteq HA
    <3> SUFFICES ASSUME NEW p \in less, ShardOf[p[1]] < g.next, p[1] \notin H
                 PROVE  p[1] \in A
      BY DEF Behind, KeysOf
    <3>1. ShardOf[p[1]] < i
      BY <1>1, <1>4, <1>5, <1>6
    <3> QED
      BY <1>6, <3>1 DEF Behind, KeysOf, i
  <2>2. HS \subseteq M
    <3>1. \A k \in H : k \in M
      <4> SUFFICES ASSUME NEW k \in H PROVE k \in M
        OBVIOUS
      <4>1. <<k, sh.store[k]>> \in some /\ ShardOf[k] = i
        BY <1>4
      <4>2. k \in KeysOf(some)
        BY <4>1 DEF KeysOf
      <4> QED
        BY <1>1, <1>5, <4>1, <4>2 DEF Behind
    <3>2. \A k \in S : k \in M
      <4> SUFFICES ASSUME NEW k \in S PROVE k \in M
        OBVIOUS
      <4>1. k \in KeysOf(some) /\ ShardOf[k] < i
        BY DEF Behind, i
      <4>2. ShardOf[k] < i + 1
        <5>1. k \in Keys
          BY <4>1 DEF KeysOf
        <5> QED
          BY <1>1, <1>3, <4>1, <5>1
      <4> QED
        BY <1>5, <4>1, <4>2 DEF Behind
    <3> QED
      BY <3>1, <3>2
  <2>3. H \cap S = {}
    BY <1>8 DEF Behind, i
  <2>4. M \subseteq KeysOf(some) /\ A \subseteq KeysOf(some)
    BY DEF Behind, KeysOf
  <2>5. g.count = s.count + Cardinality(H)
    BY <1>5, <1>13
  <2> HIDE DEF L, A, S, M, H
  <2>6. IsFiniteSet(M) /\ IsFiniteSet(A) /\ IsFiniteSet(H)
    BY <1>2, <2>4, FS_Subset DEF H
  <2>7. IsFiniteSet(S)
    BY <2>2, <2>6, FS_Subset
  <2>8. /\ IsFiniteSet(HA)
        /\ Cardinality(HA) = Cardinality(H) + Cardinality(A) - Cardinality(H \cap A)
    BY <2>6, FS_Union
  <2>9. /\ IsFiniteSet(HS)
        /\ Cardinality(HS) = Cardinality(H) + Cardinality(S) - Cardinality({})
    BY <2>3, <2>6, <2>7, FS_Union
  <2>10. IsFiniteSet(H \cap A)
    BY <2>6, FS_Subset
  <2> HIDE DEF HA, HS
  <2>11. Cardinality(L) <= Cardinality(HA) /\ IsFiniteSet(L)
    BY <2>1, <2>8, FS_Subset
  <2>12. Cardinality(HS) <= Cardinality(M)
    BY <2>2, <2>6, FS_Subset
  <2>13. /\ Cardinality(L) \in Nat /\ Cardinality(HA) \in Nat
         /\ Cardinality(HS) \in Nat /\ Cardinality(M) \in Nat
         /\ Cardinality(H) \in Nat /\ Cardinality(A) \in Nat
         /\ Cardinality(S) \in Nat /\ Cardinality(H \cap A) \in Nat
         /\ Cardinality({}) = 0
    BY <2>6, <2>7, <2>8, <2>9, <2>10, <2>11, FS_CardinalityType, FS_EmptySet
  <2>14. Cardinality(L) <= g.count /\ g.count <= Cardinality(M)
    BY <1>1, <2>0, <2>5, <2>8, <2>9, <2>11, <2>12, <2>13
  <2> QED
    BY <2>14 DEF L, M
<1>14. g.op = s.op
  BY <1>5
<1>15. Promise(g, less, some, start)
  BY <1>9, <1>10, <1>11, <1>12, <1>13, <1>14 DEF Promise
<1> QED
  BY <1>15 DEF g, sh, i

\* A step ends the scan of thread t, leaves it alone, starts it or lets it
\* visit a shard.
LEMMA ThreadSteps ==
    ASSUME TypeOK, [Next]_vars, NEW t \in Threads
    PROVE  /\ \/ scan'[t] = Idle
              \/ scan'[t] = scan[t]
              \/ /\ scan[t] = Idle
                 /\ shards' = shards /\ now' = now
                 /\ \E op \in ScanOps :
                       scan'[t] = [op |-> op, next |-> 1, count |-> 0,
                                   data |-> EmptyStore]
              \/ /\ scan[t] # Idle /\ scan[t] \in Scan
                 /\ scan[t].next \in Shards /\ scan[t].next <= NumShards
                 /\ shards'[scan[t].next]
                       = Visit(scan[t].op, shards[scan[t].next])
                 /\ scan'[t] = Gather(scan[t], shards[scan[t].next])
           /\ now <= now'
<1> USE DEF TypeOK
<1>1. now \in Int /\ now <= now /\ now <= now + 1
  BY ShardAssumption
<1>2. ASSUME NEW u \in Threads, NEW op \in ScanOps, StartScan(u, op)
      PROVE  /\ \/ scan'[t] = scan[t]
                \/ /\ scan[t] = Idle
                   /\ scan'[t] = [op |-> op, next |-> 1, count |-> 0,
                                  data |-> EmptyStore]
             /\ shards' = shards /\ now' = now
  BY <1>2 DEF StartScan
<1>3. ASSUME NEW u \in Threads, ScanShard(u), u # t
      PROVE  scan'[t] = scan[t] /\ now' = now
  BY <1>3 DEF ScanShard
<1>4. ASSUME ScanShard(t)
      PROVE  /\ scan[t] # Idle /\ scan[t] \in Scan
             /\ scan[t].next \in Shards /\ scan[t].next <= NumShards
             /\ shards'[scan[t].next]
                   = Visit(scan[t].op, shards[scan[t].next])
             /\ scan'[t] = Gather(scan[t], shards[scan[t].next])
             /\ now' = now
  <2>1. scan[t] # Idle /\ scan[t] \in Scan /\ scan[t].next <= NumShards
    BY <1>4 DEF ScanShard
  <2>2. scan[t].next \in Shards
    BY <2>1, ShardAssumption DEF Scan, Shards
  <2> QED
    BY <1>4, <2>1, <2>2 DEF ScanShard
<1>5. ASSUME NEW u \in Threads, Return(u)
      PROVE  (scan'[t] = scan[t] \/ scan'[t] = Idle) /\ now' = now
  BY <1>5 DEF Return
<1>6. ASSUME Tick \/ UNCHANGED vars
      PROVE  scan'[t] = scan[t] /\ (now' = now \/ now' = now + 1)
  BY <1>6 DEF Tick, vars
<1>7. ASSUME NEW k \in Keys,
             \/ \E x \in Values : Set(k, x)
             \/ \E x \in Values, ttl \in Ttls : SetWithTtl(k, x, ttl)
             \/ GetKey(k)
             \/ Del(k)
      PROVE  scan'[t] = scan[t] /\ now' = now
  BY <1>7 DEF Set, SetWithTtl, PutEntry, GetKey, Del
<1> QED
  BY <1>1, <1>2, <1>3, <1>4, <1>5, <1>6, <1>7 DEF Next

\* The histories change as Observe says, with one thread in view.
LEMMA ObserveFacts ==
    ASSUME Observe, NEW t \in Threads
    PROVE  /\ scan'[t] # Idle /\ scan[t] = Idle =>
                 steady'[t] = Contents /\ seen'[t] = Contents /\ began'[t] = now
           /\ scan'[t] # Idle /\ scan[t] # Idle =>
                 /\ steady'[t] = steady[t] \cap Contents'
                 /\ seen'[t] = seen[t] \cup Contents'
                 /\ began'[t] = began[t]
           /\ scan'[t] = Idle =>
                 steady'[t] = {} /\ seen'[t] = {} /\ began'[t] = 0
BY DEF Observe, Becomes

\* What ContentsFacts says of the contents alone.
ContentsTyped == Contents \subseteq Keys \X Entry /\ IsFiniteSet(KeysOf(Contents))

\* The histories keep their types.
LEMMA HistoryTypes ==
    ASSUME HTypeOK, Observe, TypeOK',
           Contents \subseteq Keys \X Entry, Contents' \subseteq Keys \X Entry
    PROVE  HTypeOK'
<1>1. now \in 0 .. MaxTime /\ 0 \in 0 .. MaxTime
  BY ShardAssumption DEF HTypeOK, TypeOK
<1>2. ASSUME NEW t \in Threads
      PROVE  /\ steady'[t] \in SUBSET (Keys \X Entry)
             /\ seen'[t] \in SUBSET (Keys \X Entry)
             /\ began'[t] \in 0 .. MaxTime
  <2>1. /\ steady[t] \in SUBSET (Keys \X Entry)
        /\ seen[t] \in SUBSET (Keys \X Entry)
        /\ began[t] \in 0 .. MaxTime
    BY DEF HTypeOK
  <2>2. CASE scan'[t] = Idle
    BY <1>1, <2>2, ObserveFacts
  <2>3. CASE scan'[t] # Idle /\ scan[t] = Idle
    BY <1>1, <2>3, ObserveFacts
  <2>4. CASE scan'[t] # Idle /\ scan[t] # Idle
    BY <2>1, <2>4, ObserveFacts
  <2> QED
    BY <2>2, <2>3, <2>4
<1>3. /\ steady' = [t \in Threads |-> steady'[t]]
      /\ seen' = [t \in Threads |-> seen'[t]]
      /\ began' = [t \in Threads |-> began'[t]]
  BY DEF Observe
<1>4. /\ steady' \in [Threads -> SUBSET (Keys \X Entry)]
      /\ seen' \in [Threads -> SUBSET (Keys \X Entry)]
      /\ began' \in [Threads -> 0 .. MaxTime]
  BY <1>2, <1>3
<1> QED
  BY <1>4 DEF HTypeOK

\* A step keeps what a scan's histories and result say.
LEMMA ScanStep ==
    ASSUME BoundedInv, ScanInv, [Next]_vars, Observe,
           ContentsTyped, ContentsTyped', BoundedInv', HTypeOK', HomeInv',
           NEW t \in Threads, scan'[t] # Idle
    PROVE  /\ Window(t)'
           /\ Promise(scan'[t], steady'[t], seen'[t], began'[t])
<1>1. TypeOK /\ HomeInv /\ now \in Int /\ now' \in Int
  BY ShardAssumption DEF BoundedInv, TypeOK, ScanInv
<1>2. now <= now'
  BY <1>1, ThreadSteps
<1>3. CASE scan[t] = Idle
  <2>1. /\ shards' = shards
        /\ \E op \in ScanOps :
              scan'[t] = [op |-> op, next |-> 1, count |-> 0,
                          data |-> EmptyStore]
    BY <1>1, <1>3, ThreadSteps
  <2>2. Contents' = Contents
    BY <2>1 DEF Contents, Stored
  <2>3. steady'[t] = Contents /\ seen'[t] = Contents /\ began'[t] = now
    BY <1>3, ObserveFacts
  <2>4. Promise(scan'[t], Contents, Contents, now)
    BY <2>1, PromiseStarts DEF ContentsTyped
  <2>5. Window(t)'
    BY <1>2, <2>2, <2>3 DEF Window, ContentsTyped
  <2> QED
    BY <2>3, <2>4, <2>5
<1>4. CASE scan[t] # Idle
  <2>1. /\ Window(t) /\ Promise(scan[t], steady[t], seen[t], began[t])
        /\ seen[t] \subseteq Keys \X Entry /\ began[t] \in Int
    BY <1>4, ShardAssumption DEF ScanInv, HTypeOK
  <2>2. /\ scan[t] \in Scan /\ scan'[t] \in Scan
        /\ scan[t].count \in Nat /\ scan'[t].count \in Nat
    <3>1. scan[t] \in Scan /\ scan'[t] \in Scan
      BY <1>1, <1>4 DEF BoundedInv, TypeOK
    <3> QED
      BY <3>1 DEF Scan
  <2>3. /\ steady'[t] = steady[t] \cap Contents'
        /\ seen'[t] = seen[t] \cup Contents'
        /\ began'[t] = began[t]
    BY <1>4, ObserveFacts
  <2>4. IsFiniteSet(KeysOf(seen'[t]))
    <3>1. KeysOf(seen'[t]) = KeysOf(seen[t]) \cup KeysOf(Contents')
      BY <2>3 DEF KeysOf
    <3>2. IsFiniteSet(KeysOf(seen[t])) /\ IsFiniteSet(KeysOf(Contents'))
      BY <2>1 DEF Window, ContentsTyped
    <3> QED
      BY <3>1, <3>2, FS_Union
  <2>5. Window(t)'
    BY <1>1, <1>2, <2>1, <2>3, <2>4 DEF Window
  <2>6. /\ steady'[t] \subseteq steady[t] /\ steady[t] \subseteq seen[t]
        /\ steady'[t] \subseteq seen[t] /\ seen[t] \subseteq seen'[t]
    BY <2>1, <2>3 DEF Window
  <2>7. CASE scan'[t] = scan[t]
    BY <2>1, <2>2, <2>3, <2>4, <2>5, <2>6, <2>7, PromiseWeakens
  <2>8. CASE /\ scan[t].next <= NumShards
             /\ shards'[scan[t].next] = Visit(scan[t].op, shards[scan[t].next])
             /\ scan'[t] = Gather(scan[t], shards[scan[t].next])
    <3>1. \A p \in steady'[t] : ShardOf[p[1]] = scan[t].next =>
              LET visited == Visit(scan[t].op, shards[scan[t].next])
              IN  p[1] \in Stored(visited) /\ p[2] = visited.store[p[1]]
      BY <2>3, <2>8 DEF Contents, Stored
    <3>2. Promise(scan'[t], steady'[t], seen[t], began[t])
      BY <1>1, <2>1, <2>2, <2>6, <2>8, <3>1, PromiseVisit DEF Window
    <3> QED
      BY <2>2, <2>3, <2>4, <2>5, <2>6, <3>2, PromiseWeakens
  <2> QED
    BY <1>1, <1>4, <2>7, <2>8, ThreadSteps
<1> QED
  BY <1>3, <1>4

\* A new cache holds no key, so none that is not at home.
LEMMA InitHome == Init => HomeInv
BY DEF Init, HomeInv, NewShard, EmptyStore, Stored

\* Every key stays in its own shard.
THEOREM HomeTheorem == Spec => []HomeInv
<1>1. Init => HomeInv
  BY InitHome
<1>2. BoundedInv /\ HomeInv /\ [Next]_vars => HomeInv'
  BY HomeSteps DEF BoundedInv
<1> QED
  BY <1>1, <1>2, BoundedTheorem, PTL DEF Spec

\* The inductive invariant of the properties of scans, with which a scan
\* keeps its promise about the shards that it has behind it.
THEOREM ScanTheorem == HSpec => []ScanInv
<1>1. HSpec => Spec
  <2>1. HInit => Init
    BY DEF HInit
  <2>2. [HNext]_hvars => [Next]_vars
    BY DEF HNext, hvars
  <2> QED
    BY <2>1, <2>2, PTL DEF HSpec, Spec
<1>2. BoundedInv /\ HomeInv => ContentsTyped
  BY ContentsFacts DEF ContentsTyped
<1>3. HInit => ScanInv
  <2> SUFFICES ASSUME HInit PROVE ScanInv
    OBVIOUS
  <2>1. TypeOK /\ HomeInv
    BY InitFacts, InitHome DEF HInit, BoundedInv
  <2>2. 0 \in 0 .. MaxTime
    BY ShardAssumption
  <2>3. HTypeOK
    BY <2>1, <2>2 DEF HInit, HTypeOK
  <2>4. \A t \in Threads : scan[t] = Idle
    BY DEF HInit, Init
  <2> QED
    BY <2>1, <2>3, <2>4 DEF ScanInv
<1>4. /\ BoundedInv /\ HomeInv /\ ContentsTyped
      /\ BoundedInv' /\ HomeInv' /\ ContentsTyped'
      /\ ScanInv /\ [HNext]_hvars
      => ScanInv'
  <2> SUFFICES ASSUME BoundedInv, HomeInv, ContentsTyped,
                      BoundedInv', HomeInv', ContentsTyped', ScanInv,
                      [HNext]_hvars
               PROVE  ScanInv'
    OBVIOUS
  <2>1. CASE Next /\ Observe
    <3>1. HTypeOK'
      BY <2>1, HistoryTypes DEF ScanInv, BoundedInv, ContentsTyped
    <3>2. \A t \in Threads :
             scan'[t] # Idle =>
                /\ Window(t)'
                /\ Promise(scan'[t], steady'[t], seen'[t], began'[t])
      BY <2>1, <3>1, ScanStep
    <3> QED
      BY <3>1, <3>2 DEF ScanInv, Promise, Behind, KeysOf, IsExpired
  <2>2. CASE UNCHANGED hvars
    <3>1. /\ shards' = shards /\ now' = now /\ scan' = scan
          /\ steady' = steady /\ seen' = seen /\ began' = began
      BY <2>2 DEF hvars, vars, history
    <3>2. HTypeOK' /\ HomeInv'
      BY <3>1 DEF ScanInv, HTypeOK, BoundedInv
    <3>3. Contents' = Contents
      BY <3>1 DEF Contents, Stored
    <3>4. \A t \in Threads : Window(t) => Window(t)'
      BY <3>1, <3>3 DEF Window, KeysOf
    <3> QED
      BY <3>1, <3>2, <3>4 DEF ScanInv, Promise, Behind, KeysOf, IsExpired
  <2> QED
    BY <2>1, <2>2 DEF HNext
<1> QED
  BY <1>1, <1>2, <1>3, <1>4, BoundedTheorem, HomeTheorem, PTL DEF HSpec

\* A scan that has returned has every shard behind it.
LEMMA ReturnedFacts ==
    ASSUME BoundedInv, ScanInv, NEW t \in Threads, Returned(t)
    PROVE  /\ Promise(scan[t], steady[t], seen[t], began[t])
           /\ \A p \in steady[t] : p[1] \in Keys /\ p[2] \in Entry
           /\ \A k \in Keys : ShardOf[k] < scan[t].next /\ ~(ShardOf[k] >= scan[t].next)
           /\ KeysOf(steady[t]) \subseteq Keys /\ KeysOf(seen[t]) \subseteq Keys
<1>1. Promise(scan[t], steady[t], seen[t], began[t])
  BY DEF ScanInv, Returned
<1>2. steady[t] \subseteq Keys \X Entry /\ seen[t] \subseteq Keys \X Entry
  BY DEF ScanInv, HTypeOK
<1>3. scan[t].next \in Int /\ scan[t].next > NumShards
  <2>1. scan[t] \in Scan
    BY DEF BoundedInv, TypeOK, Returned
  <2> QED
    BY <2>1, ShardAssumption DEF Scan, Returned
<1>4. \A k \in Keys : ShardOf[k] < scan[t].next /\ ~(ShardOf[k] >= scan[t].next)
  BY <1>3, ShardAssumption
<1> QED
  BY <1>1, <1>2, <1>4 DEF KeysOf

\* The histories are well typed.
THEOREM HTypeTheorem == HSpec => []HTypeOK
<1>1. ScanInv => HTypeOK
  BY DEF ScanInv
<1> QED
  BY <1>1, ScanTheorem, PTL

\* The cache with histories is the cache.
THEOREM HistoriesTheorem == HSpec => [](BoundedInv /\ ScanInv)
<1>1. HInit => Init
  BY DEF HInit
<1>2. [HNext]_hvars => [Next]_vars
  BY DEF HNext, hvars
<1> QED
  BY <1>1, <1>2, BoundedTheorem, ScanTheorem, PTL DEF HSpec, Spec

\* clear() returns and nothing is left that was there all along, however many
\* other operations ran between its visits.
THEOREM ClearTheorem == HSpec => []ClearLeavesOnlyNewEntries
<1>1. BoundedInv /\ ScanInv => ClearLeavesOnlyNewEntries
  BY ReturnedFacts DEF ClearLeavesOnlyNewEntries, Promise
<1> QED
  BY <1>1, HistoriesTheorem, PTL

\* cleanupExpired() returns and no entry is left that had expired when it was
\* called.
THEOREM CleanupTheorem == HSpec => []CleanupLeavesNothingStale
<1>1. BoundedInv /\ ScanInv => CleanupLeavesNothingStale
  BY ReturnedFacts DEF CleanupLeavesNothingStale, Promise
<1> QED
  BY <1>1, HistoriesTheorem, PTL

\* getAllData() returns every entry that stayed and none that never was there.
THEOREM SnapshotTheorem == HSpec => []SnapshotIsFaithful
<1>1. BoundedInv /\ ScanInv => SnapshotIsFaithful
  <2> SUFFICES ASSUME BoundedInv, ScanInv, NEW t \in Threads, Returned(t),
                      scan[t].op = "getAllData"
               PROVE  LET copy == {<<k, scan[t].data[k]>> :
                                     k \in {x \in Keys : scan[t].data[x] # NoEntry}}
                      IN  steady[t] \subseteq copy /\ copy \subseteq seen[t]
    BY DEF SnapshotIsFaithful
  <2>1. /\ \A p \in steady[t] : /\ p[1] \in Keys /\ p[2] \in Entry
                                /\ scan[t].data[p[1]] = p[2]
        /\ \A k \in Keys : scan[t].data[k] # NoEntry
                              => <<k, scan[t].data[k]>> \in seen[t]
    BY ReturnedFacts DEF Promise
  <2>2. \A p \in steady[t] : p = <<p[1], p[2]>>
    BY DEF ScanInv, HTypeOK
  <2> QED
    BY <2>1, <2>2, EntryAssumption
<1> QED
  BY <1>1, HistoriesTheorem, PTL

\* size() returns a number between how many keys were there all the time and
\* have not expired, and how many were there at some time.
THEOREM SizeTheorem == HSpec => []SizeIsBounded
<1>1. BoundedInv /\ ScanInv => SizeIsBounded
  <2> SUFFICES ASSUME BoundedInv, ScanInv, NEW t \in Threads, Returned(t),
                      scan[t].op = "size"
               PROVE  LET live == {p \in steady[t] : ~IsExpired(p[2], now)}
                      IN  /\ Cardinality(KeysOf(live)) <= scan[t].count
                          /\ scan[t].count <= Cardinality(KeysOf(seen[t]))
    BY DEF SizeIsBounded
  <2> DEFINE live == {p \in steady[t] : ~IsExpired(p[2], now)}
  <2>1. /\ Behind(steady[t], scan[t]) = KeysOf(steady[t])
        /\ Behind(seen[t], scan[t]) = KeysOf(seen[t])
    BY ReturnedFacts DEF Behind
  <2>2. /\ Cardinality(KeysOf(steady[t])) <= scan[t].count
        /\ scan[t].count <= Cardinality(KeysOf(seen[t]))
    BY <2>1, ReturnedFacts DEF Promise
  <2>3. KeysOf(live) \subseteq KeysOf(steady[t])
    BY DEF KeysOf
  <2>4. IsFiniteSet(KeysOf(steady[t]))
    <3>1. Window(t)
      BY DEF ScanInv, Returned
    <3>2. KeysOf(steady[t]) \subseteq KeysOf(seen[t]) /\ IsFiniteSet(KeysOf(seen[t]))
      BY <3>1 DEF Window, KeysOf
    <3> QED
      BY <3>2, FS_Subset
  <2> HIDE DEF live
  <2>5. /\ Cardinality(KeysOf(live)) \in Nat /\ Cardinality(KeysOf(steady[t])) \in Nat
        /\ Cardinality(KeysOf(live)) <= Cardinality(KeysOf(steady[t]))
    BY <2>3, <2>4, FS_Subset, FS_CardinalityType
  <2>6. scan[t].count \in Nat
    <3>1. scan[t] \in Scan
      BY DEF BoundedInv, TypeOK, Returned
    <3> QED
      BY <3>1 DEF Scan
  <2> QED
    BY <2>2, <2>5, <2>6 DEF live
<1> QED
  BY <1>1, HistoriesTheorem, PTL

\* The policies stay consistent, also when the empty string is a key.
THEOREM ConsistencyTheorem == Spec => []PoliciesConsistent
BY PolicyTheorem, PTL
=============================================================================
