---------------------------- MODULE MCCacheScans ----------------------------
(***************************************************************************)
(* Instances of CacheScans for TLC: one key in each of two shards, so that *)
(* writes and removals fall before, between and after a scan's two visits. *)
(***************************************************************************)
EXTENDS CacheScans

CONSTANTS a, c

MCTwoShards == [k \in Keys |-> IF k = c THEN 2 ELSE 1]
=============================================================================
