---------------------------- MODULE ClusterCopies ---------------------------
(***************************************************************************)
(* DistributedCache with history variables, to say how the copies of a key *)
(* relate to what clients last did to it.                                  *)
(*                                                                         *)
(*   latest  the entry of the last acknowledged set of each key; NoEntry   *)
(*           if the key was deleted, or cleared, since                     *)
(*   took    the nodes that held each key after its last acknowledged set  *)
(*           or complete repair                                            *)
(*   kept    those of them that have not failed, nor given the key up      *)
(***************************************************************************)
EXTENDS DistributedCache

VARIABLES latest, took, kept

cvars == <<vars, latest, took, kept>>

CInit ==
    /\ Init
    /\ latest = [k \in Keys |-> NoEntry]
    /\ took = [k \in Keys |-> {}]
    /\ kept = [k \in Keys |-> {}]

\* What is left, after the step, of the nodes that kept k.
Keeping(k) == {n \in kept[k] \ failedNodes' : Holds(nodeCache[n], k)'}

\* A step that neither writes nor repairs a key.
Observe ==
    /\ kept' = [k \in Keys |-> Keeping(k)]
    /\ UNCHANGED took

\* A step that leaves k on the nodes of holders.
Renew(k, holders) ==
    /\ took' = [took EXCEPT ![k] = holders]
    /\ kept' = [j \in Keys |-> IF j = k THEN holders ELSE Keeping(j)]

\* The nodes among those given that have k after the step.
Takers(nodes, k) == {n \in nodes : Holds(nodeCache[n], k)'}

\* The set of e under k returns true if the primary takes it.
Write(k, e) ==
    LET expected == NodesFor(ring, k)
    IN  /\ SetEntry(k, e)
        /\ IF PutOk(nodeCache[Head(expected)], k, e)
           THEN /\ latest' = [latest EXCEPT ![k] = e]
                /\ Renew(k, Takers(Elements(expected), k))
           ELSE UNCHANGED latest /\ Observe

Erasing(S) ==
    /\ latest' = [k \in Keys |-> IF k \in S THEN NoEntry ELSE latest[k]]
    /\ Observe

Restore(k) ==
    LET expected == Elements(NodesFor(ring, k))
    IN  /\ RepairKey(k)
        /\ IF Takers(expected, k) = expected THEN Renew(k, expected) ELSE Observe
        /\ UNCHANGED latest

CNext ==
    \/ \E k \in Keys, v \in Values : Write(k, Immortal(v))
    \/ \E k \in Keys, v \in Values, ttl \in Ttls : Write(k, Mortal(v, ttl, now))
    \/ \E k \in Keys : Del(k) /\ Erasing({k})
    \/ Clear /\ Erasing(Keys)
    \/ \E k \in Keys : Restore(k)
    \/ /\ \/ \E k \in Keys : GetKey(k)
          \/ \E n \in Joining : AddNode(n)
          \/ \E n \in Leaving : RemoveNode(n)
          \/ \E n \in Failing : MarkNodeFailed(n)
          \/ Tick
       /\ Observe
       /\ UNCHANGED latest

CSpec == CInit /\ [][CNext]_cvars

----------------------------------------------------------------------------
(* Properties of a cluster whose members stay the same.                    *)

CTypeOK ==
    /\ TypeOK
    /\ latest \in [Keys -> Entry \cup {NoEntry}]
    /\ took \in [Keys -> SUBSET Nodes]
    /\ kept \in [Keys -> SUBSET Nodes]

Live(n, k) == n \in ring.nodes \ failedNodes /\ Holds(nodeCache[n], k)

\* As long as no node joins or leaves, every healthy node that holds a key
\* holds the data last written to it: no failure, eviction or repair brings
\* back an overwritten or deleted value (distributed_cache.cpp:118-222,
\* 376-448; repairKey never compares the copies that it finds).
CopiesAreLatest ==
    \A n \in Nodes, k \in Keys :
        Live(n, k) => latest[k] # NoEntry
                      /\ EntryOf(nodeCache[n], k).data = latest[k].data

\* No cache ever refuses a key: it has room, or finds a victim.
TakesEveryKey == ShardCapacity = 0 \/ (Policy = "LRU" /\ EmptyKey \notin Keys)

\* As long as no node joins or leaves, a key without a TTL outlives every loss
\* of copies short of the last one, whether nodes fail, evict the key or
\* refuse it: the nodes that kept a copy are still among those that repairKey
\* asks, with what was last written.  Where the caches never refuse a key, the
\* node that answers get is one that took a copy, so that get returns the key
\* unless that node has given its copy up.  (Where they do, a replica that
\* refused the key may become the primary and answer with a miss.)
SurvivesLosses ==
    \A k \in Keys :
        latest[k] # NoEntry /\ latest[k].expiry = NoExpiry /\ kept[k] # {}
            => /\ kept[k] \subseteq Elements(NodesFor(ring, k))
               /\ \A n \in kept[k] : EntryOf(nodeCache[n], k) = latest[k]
               /\ TakesEveryKey => Primary(ring, k) \in took[k]

----------------------------------------------------------------------------
(* What comments of the code say, and the code does not do.                *)

\* A deleted key stays deleted until it is set again: "Delete a key from
\* primary and all replicas. Ensures deletion is consistent across all
\* replica nodes" (distributed_cache.h:86-87).
DeletedStaysDeleted ==
    \A k \in Keys : latest[k] = NoEntry => Read(k) = NoEntry

\* No copy of a key outlives the deadline that was set for it: "Replicate
\* with TTL if applicable" (distributed_cache.cpp:428).
DeadlinesRespected ==
    \A n \in Nodes, k \in Keys :
        Live(n, k) /\ latest[k] # NoEntry /\ latest[k].expiry # NoExpiry
            => /\ EntryOf(nodeCache[n], k).expiry # NoExpiry
               /\ EntryOf(nodeCache[n], k).expiry <= latest[k].expiry
=============================================================================
