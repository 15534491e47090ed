---------------------------- MODULE AntiEntropy -----------------------------
(***************************************************************************)
(* AntiEntropyService::performRepair (anti_entropy.cpp): the pass of the   *)
(* repair thread over all keys of the cluster, beside the operations of    *)
(* its clients.                                                            *)
(*                                                                         *)
(* A pass takes the cluster's lock anew for every question it asks, and    *)
(* for every repair; each such call is one action here, and the cluster    *)
(* may change between any two of them.  The order in which it meets nodes  *)
(* and keys is that of the containers, and left open.                      *)
(*                                                                         *)
(*   at         where the thread is: asleep between two passes, scanning   *)
(*              the nodes and then the keys, comparing the two counts of   *)
(*              a key, or about to repair it                               *)
(*   nodesLeft  the nodes of allNodes whose keys are still to be collected *)
(*   keysLeft   the keys of allKeys still to be checked                    *)
(*   key        the key being checked                                      *)
(*   actual     actualCount                                                *)
(*   quiet      history: nobody but the pass did anything since it began   *)
(***************************************************************************)
EXTENDS DistributedCache

CONSTANT NoKey   \* no key is being checked

ASSUME NoKeyAssumption == NoKey \notin Keys

VARIABLES at, nodesLeft, keysLeft, key, actual, quiet

passVars == <<at, nodesLeft, keysLeft, key, actual>>
avars == <<vars, passVars, quiet>>

ATypeOK ==
    /\ TypeOK
    /\ at \in {"asleep", "scan", "compare", "repair"}
    /\ nodesLeft \in SUBSET Nodes
    /\ keysLeft \in SUBSET Keys
    /\ key \in Keys \cup {NoKey}
    /\ actual \in 0 .. Cardinality(Nodes)
    /\ quiet \in BOOLEAN

AInit ==
    /\ Init
    /\ at = "asleep"
    /\ nodesLeft = {}
    /\ keysLeft = {}
    /\ key = NoKey
    /\ actual = 0
    /\ quiet = FALSE

----------------------------------------------------------------------------
(* The questions a pass asks.                                              *)

\* getAllHealthyNodes, which returns the failed nodes as well.
AllHealthyNodes == ring.nodes

\* getKeysOnNode: none of a node that has failed, or has left since.
KeysOnNode(n) ==
    IF n \in failedNodes THEN {} ELSE {k \in Keys : Holds(nodeCache[n], k)}

\* getActualReplicationCount: the copies on healthy nodes, whether these are
\* responsible for the key or not.
ActualReplicationCount(k) ==
    Cardinality({n \in Nodes \ failedNodes : Holds(nodeCache[n], k)})

\* A wrong form of the expected count, for the mutation checks: the minimum,
\* which is the number of copies there should be.
ExpectedCountMin ==
    LET nodes == Cardinality(AllHealthyNodes)
    IN  IF ReplicationFactor < nodes THEN ReplicationFactor ELSE nodes

\* The number of copies below which a key is repaired: the maximum.
ExpectedCount ==
    LET nodes == Cardinality(AllHealthyNodes)
    IN  IF ReplicationFactor < nodes THEN nodes ELSE ReplicationFactor

----------------------------------------------------------------------------
(* The pass.                                                               *)

Begin ==
    /\ at = "asleep"
    /\ at' = "scan"
    /\ nodesLeft' = AllHealthyNodes
    /\ quiet' = TRUE
    /\ UNCHANGED <<vars, keysLeft, key, actual>>

CollectKeys(n) ==
    /\ at = "scan" /\ n \in nodesLeft
    /\ nodesLeft' = nodesLeft \ {n}
    /\ keysLeft' = keysLeft \cup KeysOnNode(n)
    /\ UNCHANGED <<vars, at, key, actual, quiet>>

Count(k) ==
    /\ at = "scan" /\ nodesLeft = {} /\ k \in keysLeft
    /\ at' = "compare"
    /\ keysLeft' = keysLeft \ {k}
    /\ key' = k
    /\ actual' = ActualReplicationCount(k)
    /\ UNCHANGED <<vars, nodesLeft, quiet>>

Compare ==
    /\ at = "compare"
    /\ IF actual < ExpectedCount THEN at' = "repair" /\ UNCHANGED key
                                 ELSE at' = "scan" /\ key' = NoKey
    /\ actual' = 0
    /\ UNCHANGED <<vars, nodesLeft, keysLeft, quiet>>

Repair ==
    /\ at = "repair"
    /\ at' = "scan"
    /\ key' = NoKey
    /\ RepairKey(key)
    /\ UNCHANGED <<nodesLeft, keysLeft, actual, quiet>>

End ==
    /\ at = "scan" /\ nodesLeft = {} /\ keysLeft = {}
    /\ at' = "asleep"
    /\ UNCHANGED <<vars, nodesLeft, keysLeft, key, actual, quiet>>

Pass ==
    \/ Begin
    \/ \E n \in Nodes : CollectKeys(n)
    \/ \E k \in Keys : Count(k)
    \/ Compare
    \/ Repair
    \/ End

Disturb ==
    /\ Operate \/ Tick
    /\ quiet' = FALSE
    /\ UNCHANGED passVars

ANext == Pass \/ Disturb

\* The repair thread wakes up again after each pass, and nothing keeps it
\* from getting the cluster's lock for ever; clients do what they like.
ASpec == AInit /\ [][ANext]_avars /\ WF_avars(Pass)

----------------------------------------------------------------------------
(* Properties.                                                             *)

\* Every node responsible for k holds it, if one of them does.
Replicated(k) ==
    LET expected == Elements(NodesFor(ring, k))
    IN  (\E n \in expected : Holds(nodeCache[n], k))
            => \A n \in expected : Holds(nodeCache[n], k)

FullyReplicated == \A k \in Keys : Replicated(k)

\* A pass that nobody disturbed leaves no key under-replicated: its scan
\* finds every key, and no key with a responsible node that lacks it counts
\* as well replicated, though the count includes copies on nodes that are
\* not responsible (any more).  Caches without a limit, as main.cpp builds
\* them, so that no repair evicts another key (anti_entropy.cpp:67-105).
QuietPassRestores ==
    at = "asleep" /\ quiet /\ ShardCapacity = 0 => FullyReplicated

\* Once clients leave the cluster alone, it comes to be fully replicated and
\* stays so, in whatever state they left it and wherever the pass was: every
\* pass ends, and what a disturbed one missed is left for the next.
RepairConverges ==
    ShardCapacity = 0 /\ <>[][Pass]_avars => <>[]FullyReplicated

----------------------------------------------------------------------------
(* What a comment of the code says, and the code does not do.              *)

\* repairKey gives a key up, finding no copy, only if no healthy node has one:
\* "No healthy node has this key - data is lost" (distributed_cache.cpp:403).
GivesUpOnlyLostKeys ==
    /\ at = "repair"
    /\ \A n \in Elements(NodesFor(ring, key)) : ~Holds(nodeCache[n], key)
    => \A n \in ring.nodes \ failedNodes : ~Holds(nodeCache[n], key)
=============================================================================
