------------------------- MODULE MCDistributedCache -------------------------
(***************************************************************************)
(* An instance of DistributedCache for TLC: three nodes, one of them with  *)
(* two virtual nodes.  The key meets them in the order n1, n2, n3; n1      *)
(* shows up again behind n2.                                               *)
(***************************************************************************)
EXTENDS DistributedCache

CONSTANTS k1, n1, n2, n3

MCOneShard  == [k \in Keys |-> 1]
MCKeyHash   == [k \in Keys |-> 1]
MCNodeHashes == [n \in Nodes |-> CASE n = n1 -> {1, 3}
                                   [] n = n2 -> {2}
                                   [] OTHER  -> {0}]
=============================================================================
