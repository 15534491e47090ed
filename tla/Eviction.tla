------------------------------ MODULE Eviction ------------------------------
(***************************************************************************)
(* class EvictionPolicy: the interface a shard calls, dispatched on the    *)
(* policy the cache was built with (Cache::createEvictionPolicy).  Without *)
(* a policy (EvictionType::NONE) the shard holds a null pointer and makes  *)
(* none of these calls; the operators then leave the state NoPolicy alone. *)
(***************************************************************************)
EXTENDS LRU, LFU

CONSTANT Policy   \* the EvictionType: "NONE", "LRU" or "LFU"

ASSUME PolicyAssumption ==
    /\ Policy \in {"NONE", "LRU", "LFU"}
    /\ MaxFreq \in Nat \ {0}

NoPolicy == "no policy"

PolicyStates == CASE Policy = "LRU" -> LRUStates
                  [] Policy = "LFU" -> LFUStates
                  [] OTHER          -> {NoPolicy}

NewPolicy == CASE Policy = "LRU" -> LRUNew
               [] Policy = "LFU" -> LFUNew
               [] OTHER          -> NoPolicy

OnAccess(p, k) == CASE Policy = "LRU" -> LRUOnAccess(p, k)
                    [] Policy = "LFU" -> LFUOnAccess(p, k)
                    [] OTHER          -> p

OnAdd(p, k) == CASE Policy = "LRU" -> LRUOnAdd(p, k)
                 [] Policy = "LFU" -> LFUOnAdd(p, k)
                 [] OTHER          -> p

OnRemove(p, S) == CASE Policy = "LRU" -> LRUOnRemove(p, S)
                    [] Policy = "LFU" -> LFUOnRemove(p, S)
                    [] OTHER          -> p

Evict(p) == CASE Policy = "LRU" -> LRUEvict(p)
              [] Policy = "LFU" -> LFUEvict(p)
              [] OTHER          -> [key |-> EmptyKey, pol |-> p]

\* The keys the policy tracks.
Tracked(p) == CASE Policy = "LRU" -> LRUTracked(p)
                [] Policy = "LFU" -> LFUTracked(p)
                [] OTHER          -> {}

\* A policy tracks the keys that the shard stores.  Only the empty string may
\* be stored and not tracked: evict() returns it for "nothing to evict" as
\* well, so that the shard keeps it when it is evicted.
Tracks(p, stored) ==
    Policy # "NONE" => /\ Tracked(p) \subseteq stored
                       /\ stored \subseteq Tracked(p) \cup {EmptyKey}

\* The policy's own structures agree with each other.
PolicyConsistent(p) == CASE Policy = "LRU" -> LRUConsistent(p)
                         [] Policy = "LFU" -> LFUConsistent(p)
                         [] OTHER          -> TRUE

\* The bound on the LFU counters.
CanCount(p, k) == Policy = "LFU" => LFUCanCount(p, k)
=============================================================================
