------------------------------ MODULE CacheLRU ------------------------------
(***************************************************************************)
(* A Cache built with EvictionType::LRU implements RecencyCache.  Which of *)
(* two keys is older is taken from what clients did (recency), so that the *)
(* refinement fails if the policy's list tells another story.              *)
(***************************************************************************)
EXTENDS CacheRecency

\* One key is older than another when it comes later in the order.
OlderIn(order) ==
    {p \in Keys \X Keys :
        \E i, j \in DOMAIN order : i < j /\ p = <<order[j], order[i]>>}

Recency == INSTANCE RecencyCache
             WITH Capacity <- ShardCapacity,
                  contents <- [s \in Shards |-> Stored(shards[s])],
                  older    <- [s \in Shards |-> OlderIn(recency[s])]

\* Whatever is set, read, deleted, expired, cleaned up and cleared, and in
\* whatever order, a full shard gives up exactly the key that clients have not
\* used for longest, and only for a new key ("Evicts the key that was accessed
\* longest time ago", eviction.h:59).
ImplementsRecency == Recency!Spec
=============================================================================
