---------------------------- MODULE CacheRecency ----------------------------
(***************************************************************************)
(* Cache with a history variable that says when keys were last used, to    *)
(* judge the policies by what clients did and not by their own lists.      *)
(*                                                                         *)
(*   recency  for each shard, the keys it holds in the order of their last *)
(*            use, latest first                                            *)
(***************************************************************************)
EXTENDS Cache, Sequences

VARIABLE recency

rvars == <<vars, recency>>

RInit == Init /\ recency = [s \in Shards |-> <<>>]

\* The order among the keys that a shard still holds after the step.
Staying(s) == Without(recency[s], Keys \ Stored(shards'[s]))

\* A set or a get that leaves the key in the cache uses it.
Used(k) ==
    recency' = [s \in Shards |->
        IF s = ShardOf[k] /\ k \in Stored(shards'[s])
        THEN <<k>> \o Without(Staying(s), {k}) ELSE Staying(s)]

Unused == recency' = [s \in Shards |-> Staying(s)]

Uses(k) ==
    \/ \E v \in Values : Set(k, v)
    \/ \E v \in Values, ttl \in Ttls : SetWithTtl(k, v, ttl)
    \/ GetKey(k)

RNext ==
    \/ \E k \in Keys : Uses(k) /\ Used(k)
    \/ /\ \/ \E k \in Keys : Del(k)
          \/ \E t \in Threads, op \in ScanOps : StartScan(t, op)
          \/ \E t \in Threads : ScanShard(t)
          \/ \E t \in Threads : Return(t)
          \/ Tick
       /\ Unused

RSpec == RInit /\ [][RNext]_rvars

\* Among keys of the same count the LFU policy evicts the least recently used
\* first ("In case of tie, evicts the least recently used among tied keys",
\* eviction.h:89): each bucket is in the order of last use.
TiesBrokenByRecency ==
    Policy = "LFU" =>
        \A s \in Shards, f \in 1 .. MaxFreq :
            LET bucket   == shards[s].pol.buckets[f]
                place(k) == CHOOSE i \in DOMAIN recency[s] : recency[s][i] = k
            IN  \A i, j \in DOMAIN bucket :
                    i < j => place(bucket[i]) > place(bucket[j])
=============================================================================
