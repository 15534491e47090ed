--------------------------- MODULE MCAntiEntropy ----------------------------
(***************************************************************************)
(* Instances of AntiEntropy for TLC: three nodes of one virtual node each, *)
(* which the key meets in the order n1, n2, n3.  The cluster is founded    *)
(* with the last of them, so that n1 and n2 take over from n3 when they    *)
(* join, and leave a copy on it that nobody is responsible for.            *)
(***************************************************************************)
EXTENDS AntiEntropy

CONSTANTS k1, k2, n1, n2, n3

MCOneShard == [k \in Keys |-> 1]
MCKeyHash  == [k \in Keys |-> IF k = k2 THEN 1 ELSE 0]
MCNodeHashes == [n \in Nodes |-> CASE n = n1 -> {0}
                                   [] n = n2 -> {1}
                                   [] OTHER  -> {2}]
=============================================================================
