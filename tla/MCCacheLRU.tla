----------------------------- MODULE MCCacheLRU -----------------------------
(***************************************************************************)
(* An instance of CacheLRU for TLC: four keys compete for a shard of three *)
(* places and a fifth is alone in its shard; clear and cleanupExpired run  *)
(* beside the clients, one shard at a time.                                *)
(***************************************************************************)
EXTENDS CacheLRU

CONSTANTS a, b, c, d, e

\* Without, defined by rank, is the filter.
ASSUME WithoutIsFilter ==
    \A s \in BoundedSeq({1, 2, 3}, 4), S \in SUBSET {1, 2, 3} :
        Without(s, S) = SelectSeq(s, LAMBDA x : x \notin S)

MCTwoShards == [k \in Keys |-> IF k = e THEN 2 ELSE 1]
=============================================================================
