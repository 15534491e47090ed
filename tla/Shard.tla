------------------------------- MODULE Shard -------------------------------
(***************************************************************************)
(* One shard of a Cache (struct Cache::Shard) and what each operation of   *)
(* the cache does to it while it holds the shard's lock.                   *)
(*                                                                         *)
(*   store   the map from keys to values; NoEntry where it has no key      *)
(*   pol     the eviction policy's state                                   *)
(*                                                                         *)
(* evictedCount is written and never read, and is left out.  The shard has *)
(* no variables of its own: Cache and DistributedCache keep shards in      *)
(* theirs.                                                                 *)
(***************************************************************************)
EXTENDS Eviction, FiniteSets

CONSTANTS Values,          \* the data clients store
          NoEntry,         \* a key that the store does not hold
          NoExpiry,        \* an entry without an expiry time
          MaxCapacity,     \* the capacity the cache was built with
          NumShards,       \* NUM_SHARDS, 16 in the code
          ShardOf,         \* getShard: the shard of each key
          TicksPerSecond,  \* how many clock readings a second of TTL spans
          MaxTime          \* bound on the clock

ASSUME ShardAssumption ==
    /\ MaxCapacity \in Nat
    /\ NumShards \in Nat \ {0}
    /\ ShardOf \in [Keys -> 1 .. NumShards]
    /\ TicksPerSecond \in Nat \ {0}
    /\ MaxTime \in Nat

Shards == 1 .. NumShards

\* Clock readings.  A TTL may be negative, so an expiry may be as well.
Entry == [data : Values, expiry : Int \cup {NoExpiry}]

ASSUME EntryAssumption == NoEntry \notin Entry /\ NoExpiry \notin Int

\* Every shard gets the same share, rounded down; 0 means unlimited.
ShardCapacity == MaxCapacity \div NumShards

ShardStates == [store : [Keys -> Entry \cup {NoEntry}], pol : PolicyStates]

EmptyStore == [k \in Keys |-> NoEntry]
NewShard   == [store |-> EmptyStore, pol |-> NewPolicy]

Stored(sh) == {k \in Keys : sh.store[k] # NoEntry}

\* A wrong form of the capacity check, for the mutation checks.
FullOffByOne(sh) ==
    ShardCapacity > 0 /\ Cardinality(Stored(sh)) > ShardCapacity

Full(sh) == ShardCapacity > 0 /\ Cardinality(Stored(sh)) >= ShardCapacity

\* Value::isExpired: strictly after the expiry time.
IsExpired(e, now) == e.expiry # NoExpiry /\ now > e.expiry

Immortal(v)        == [data |-> v, expiry |-> NoExpiry]
Mortal(v, ttl, now) == [data |-> v, expiry |-> now + ttl * TicksPerSecond]

\* What is left of an entry's life, in whole seconds, rounded down.
RemainingSeconds(e, now) ==
    IF e.expiry >= now THEN (e.expiry - now) \div TicksPerSecond ELSE 0

\* The store without the keys of S.
Erase(store, S) == [k \in Keys |-> IF k \in S THEN NoEntry ELSE store[k]]

----------------------------------------------------------------------------
(***************************************************************************)
(* set and setWithTtl.  The eviction loop runs while the shard is full; it *)
(* is entered with a shard at its capacity, never above (CapacityRespected *)
(* of module Cache), so that one victim ends it.                           *)
(***************************************************************************)

\* Wrong forms of the operations, for the mutation checks.
MakeRoomKeepsVictim(sh) ==
    IF Policy = "NONE" THEN sh ELSE [sh EXCEPT !.pol = Evict(@).pol]
GetForgetsPolicy(sh, k, now) ==
    IF sh.store[k] = NoEntry THEN [entry |-> NoEntry, shard |-> sh]
    ELSE IF IsExpired(sh.store[k], now)
         THEN [entry |-> NoEntry,
               shard |-> [sh EXCEPT !.store = Erase(@, {k})]]
         ELSE [entry |-> sh.store[k],
               shard |-> [sh EXCEPT !.pol = OnAccess(@, k)]]
DeleteForgetsPolicy(sh, k) == [sh EXCEPT !.store = Erase(@, {k})]

\* The eviction loop.  The empty string and a key that the store does not
\* hold both end it with the policy already changed and nothing erased.
MakeRoom(sh) ==
    LET evicted == Evict(sh.pol)
        erased  == {evicted.key} \cap (Stored(sh) \ {EmptyKey})
    IN  IF Policy = "NONE" THEN sh
        ELSE [store |-> Erase(sh.store, erased), pol |-> evicted.pol]

\* The shard after the capacity check for k: an update needs no room.
Admit(sh, k) == IF k \notin Stored(sh) /\ Full(sh) THEN MakeRoom(sh) ELSE sh

\* Another wrong form: with a policy, the check after the eviction loop is
\* left out.
PutTrustsEviction(sh, k, e) ==
    LET room == Admit(sh, k)
    IN  IF Policy = "NONE" /\ k \notin Stored(sh) /\ Full(sh)
        THEN [ok |-> FALSE, shard |-> sh]
        ELSE [ok    |-> TRUE,
              shard |-> [store |-> [room.store EXCEPT ![k] = e],
                         pol   |-> IF k \in Stored(sh)
                                   THEN OnAccess(room.pol, k)
                                   ELSE OnAdd(room.pol, k)]]

\* Put entry e under k, or fail if the shard is full even so.
Put(sh, k, e) ==
    LET room == Admit(sh, k)
    IN  IF k \notin Stored(sh) /\ Full(room)
        THEN [ok |-> FALSE, shard |-> room]
        ELSE [ok    |-> TRUE,
              shard |-> [store |-> [room.store EXCEPT ![k] = e],
                         pol   |-> IF k \in Stored(sh)
                                   THEN OnAccess(room.pol, k)
                                   ELSE OnAdd(room.pol, k)]]

\* del
Delete(sh, k) ==
    [store |-> Erase(sh.store, {k}), pol |-> OnRemove(sh.pol, {k})]

\* get and getValueWithTtl: an expired entry is removed, a live one counts
\* as an access and is returned.
Get(sh, k, now) ==
    IF sh.store[k] = NoEntry THEN [entry |-> NoEntry, shard |-> sh]
    ELSE IF IsExpired(sh.store[k], now)
         THEN [entry |-> NoEntry, shard |-> Delete(sh, k)]
         ELSE [entry |-> sh.store[k],
               shard |-> [sh EXCEPT !.pol = OnAccess(@, k)]]

\* exists: no access is recorded and an expired entry stays.
Exists(sh, k, now) ==
    sh.store[k] # NoEntry /\ ~IsExpired(sh.store[k], now)

ExpiredKeys(sh, now) == {k \in Stored(sh) : IsExpired(sh.store[k], now)}

\* One shard's part of cleanupExpired.
Cleanup(sh, now) ==
    LET gone == ExpiredKeys(sh, now)
    IN  [store |-> Erase(sh.store, gone), pol |-> OnRemove(sh.pol, gone)]
=============================================================================
