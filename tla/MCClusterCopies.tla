-------------------------- MODULE MCClusterCopies ---------------------------
(***************************************************************************)
(* Instances of ClusterCopies for TLC: three nodes of one virtual node     *)
(* each.  k1 meets them in the order n1, n2, n3, and k2 begins with n2.    *)
(***************************************************************************)
EXTENDS ClusterCopies, TLC

CONSTANTS k1, k2, n1, n2, n3

MCOneShard == [k \in Keys |-> 1]
MCKeyHash  == [k \in Keys |-> IF k = k2 THEN 1 ELSE 0]
MCNodeHashes == [n \in Nodes |-> CASE n = n1 -> {0}
                                   [] n = n2 -> {1}
                                   [] OTHER  -> {2}]

MCSymmetry == Permutations(Values)
=============================================================================
