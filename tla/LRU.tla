-------------------------------- MODULE LRU --------------------------------
(***************************************************************************)
(* class LRUEvictionPolicy (eviction.h, eviction.cpp).                     *)
(*                                                                         *)
(* The state of the policy is the list accessOrder, most recently used key *)
(* first.  keyToIterator is not kept apart: it maps every key of the list  *)
(* to its place, so that looking a key up in it is asking whether the list *)
(* holds the key.                                                          *)
(***************************************************************************)
EXTENDS KeyList, SequencesExt

LRUStates == Seq(Keys)
LRUNew    == <<>>

LRUTracked(p) == Elements(p)

\* A wrong form of onAccess, for the mutation checks.
LRUOnAccessKeepsPlace(p, k) == p

\* An access moves a tracked key to the front and ignores any other key.
LRUOnAccess(p, k) ==
    IF k \in LRUTracked(p) THEN <<k>> \o Without(p, {k}) ELSE p

LRUOnAdd(p, k) == <<k>> \o p

\* onRemove for each key of S in turn; the order does not matter.
LRUOnRemove(p, S) == Without(p, S)

\* evict() pops the back of the list, whatever key that is.
LRUEvict(p) ==
    IF p = <<>> THEN [key |-> EmptyKey, pol |-> p]
    ELSE [key |-> Last(p), pol |-> Front(p)]

LRUConsistent(p) == NoDuplicates(p)
=============================================================================
