--------------------------- MODULE MCCacheRecency ---------------------------
(***************************************************************************)
(* An instance of CacheRecency for TLC: three keys besides the empty       *)
(* string, which clients may use as a key as well, and one shard.          *)
(***************************************************************************)
EXTENDS CacheRecency

MCOneShard == [k \in Keys |-> 1]
=============================================================================
