------------------------------- MODULE Cache -------------------------------
(***************************************************************************)
(* class Cache (cache.h, cache.cpp): an in-memory cache split into shards, *)
(* each behind a reader-writer lock.                                       *)
(*                                                                         *)
(* set, setWithTtl, get, getValueWithTtl and del take one shard's lock for *)
(* all they do: each is one atomic action.  size, clear, cleanupExpired    *)
(* and getAllData visit the shards in order and hold one lock at a time:   *)
(* each is a scan that a thread runs one shard per step, while any other   *)
(* operation, and any other scan, runs in between.  exists changes nothing *)
(* (operator Exists of Shard).                                             *)
(*                                                                         *)
(*   shards  the shards, by index                                          *)
(*   now     system_clock::now()                                           *)
(*   scan    what each thread is scanning for, and how far it is           *)
(***************************************************************************)
EXTENDS Shard

CONSTANTS Threads,   \* the threads that run the scanning operations
          Idle,      \* a thread that runs none
          Ttls,      \* the TTLs clients give, in seconds
          ScanOps    \* the scanning operations clients call

ASSUME CacheAssumption ==
    /\ Ttls \subseteq Int
    /\ ScanOps \subseteq {"size", "clear", "cleanupExpired", "getAllData"}

VARIABLES shards, now, scan

vars == <<shards, now, scan>>

\* next is the next shard to visit, NumShards + 1 once all are done; count
\* is totalSize or removedCount, data is the map getAllData returns.
Scan == [op    : ScanOps,
         next  : 1 .. NumShards + 1,
         count : Nat,
         data  : [Keys -> Entry \cup {NoEntry}]]

TypeOK ==
    /\ shards \in [Shards -> ShardStates]
    /\ now \in 0 .. MaxTime
    /\ scan \in [Threads -> Scan \cup {Idle}]

Init ==
    /\ shards = [i \in Shards |-> NewShard]
    /\ now = 0
    /\ scan = [t \in Threads |-> Idle]

----------------------------------------------------------------------------
(* Operations on one key.                                                  *)

PutEntry(k, e) ==
    /\ CanCount(shards[ShardOf[k]].pol, k)
    /\ shards' = [shards EXCEPT ![ShardOf[k]] = Put(@, k, e).shard]
    /\ UNCHANGED <<now, scan>>

Set(k, v) == PutEntry(k, Immortal(v))

SetWithTtl(k, v, ttl) == PutEntry(k, Mortal(v, ttl, now))

\* get and getValueWithTtl do the same to the shard.
GetKey(k) ==
    /\ CanCount(shards[ShardOf[k]].pol, k)
    /\ shards' = [shards EXCEPT ![ShardOf[k]] = Get(@, k, now).shard]
    /\ UNCHANGED <<now, scan>>

Del(k) ==
    /\ shards' = [shards EXCEPT ![ShardOf[k]] = Delete(@, k)]
    /\ UNCHANGED <<now, scan>>

----------------------------------------------------------------------------
(* Operations that scan the shards.                                        *)

\* A wrong form, for the mutation checks: the loop starts before the shards.
StartScanBeforeFirst(t, op) ==
    /\ scan[t] = Idle
    /\ scan' = [scan EXCEPT ![t] = [op |-> op, next |-> 0, count |-> 0,
                                    data |-> EmptyStore]]
    /\ UNCHANGED <<shards, now>>

StartScan(t, op) ==
    /\ scan[t] = Idle
    /\ scan' = [scan EXCEPT ![t] = [op |-> op, next |-> 1, count |-> 0,
                                    data |-> EmptyStore]]
    /\ UNCHANGED <<shards, now>>

\* Wrong forms of a visit, for the mutation checks: one that removes nothing
\* and one that forgets what the visits before it gathered.
VisitKeepsStore(op, sh) == sh
GatherOverwrites(s, sh) ==
    [s EXCEPT !.next = @ + 1,
              !.count = Cardinality(Stored(sh)),
              !.data = sh.store]

\* What a visit does to the shard.
Visit(op, sh) ==
    CASE op = "clear"          -> NewShard
      [] op = "cleanupExpired" -> Cleanup(sh, now)
      [] OTHER                 -> sh

\* What a visit adds to the scan's result.
Gather(s, sh) ==
    LET counted == CASE s.op = "size"           -> Stored(sh)
                     [] s.op = "cleanupExpired" -> ExpiredKeys(sh, now)
                     [] OTHER                   -> {}
        copied  == IF s.op = "getAllData" THEN Stored(sh) ELSE {}
    IN  [op    |-> s.op,
         next  |-> s.next + 1,
         count |-> s.count + Cardinality(counted),
         data  |-> [k \in Keys |-> IF k \in copied THEN sh.store[k]
                                                   ELSE s.data[k]]]

ScanShard(t) ==
    /\ scan[t] # Idle
    /\ scan[t].next <= NumShards
    /\ LET i == scan[t].next
       IN  /\ shards' = [shards EXCEPT ![i] = Visit(scan[t].op, @)]
           /\ scan' = [scan EXCEPT ![t] = Gather(@, shards[i])]
    /\ UNCHANGED now

\* The scan has visited every shard.
Returned(t) == scan[t] # Idle /\ scan[t].next > NumShards

Return(t) ==
    /\ Returned(t)
    /\ scan' = [scan EXCEPT ![t] = Idle]
    /\ UNCHANGED <<shards, now>>

Tick ==
    /\ now < MaxTime
    /\ now' = now + 1
    /\ UNCHANGED <<shards, scan>>

Next ==
    \/ \E k \in Keys, v \in Values : Set(k, v)
    \/ \E k \in Keys, v \in Values, ttl \in Ttls : SetWithTtl(k, v, ttl)
    \/ \E k \in Keys : GetKey(k)
    \/ \E k \in Keys : Del(k)
    \/ \E t \in Threads, op \in ScanOps : StartScan(t, op)
    \/ \E t \in Threads : ScanShard(t)
    \/ \E t \in Threads : Return(t)
    \/ Tick

Spec == Init /\ [][Next]_vars

----------------------------------------------------------------------------
(* Properties.                                                             *)

\* No shard ever holds more keys than its share of the capacity, however
\* set, setWithTtl, evictions and scans interleave ("false if capacity
\* exceeded", cache.h:81).
CapacityRespected ==
    \A i \in Shards :
        ShardCapacity > 0 => Cardinality(Stored(shards[i])) <= ShardCapacity

\* The policy of a shard tracks the keys its store holds: a key that only the
\* policy knows would be evicted in vain, and one that only the store knows
\* could never be evicted.  That happens to the empty string alone, which
\* evict() also returns for "nothing" (cache.cpp:69).
PolicyTracksStore ==
    \A i \in Shards : Tracks(shards[i].pol, Stored(shards[i]))

\* The list of the LRU policy holds no key twice; the buckets of the LFU
\* policy hold each key once, at its count (eviction.cpp:54-105).
PoliciesConsistent == \A i \in Shards : PolicyConsistent(shards[i].pol)

\* When a shard with a policy is full, evict() names a key of the store, so
\* that set makes room ("Key to evict, or empty string if nothing to evict",
\* eviction.h:36; only without a policy is a full cache an error, cache.h:55).
FullShardHasVictim ==
    \A i \in Shards :
        Policy # "NONE" /\ Full(shards[i])
            => Evict(shards[i].pol).key \in Stored(shards[i]) \ {EmptyKey}

\* The cache as a whole holds no more keys than the capacity that it was built
\* with ("Maximum number of keys before eviction", cache.h:71).  It is so only
\* if every shard gets a share: a smaller capacity is rounded down to 0, which
\* means unlimited (cache.cpp:27).
CapacityIsAMaximum ==
    MaxCapacity > 0
        => Cardinality(UNION {Stored(shards[i]) : i \in Shards}) <= MaxCapacity
=============================================================================
