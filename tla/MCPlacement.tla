---------------------------- MODULE MCPlacement -----------------------------
(***************************************************************************)
(* An instance of Placement for TLC: three nodes of one or two virtual     *)
(* nodes on a ring of six positions, so that the places of the nodes       *)
(* alternate and collide in every way.  The nodes are interchangeable.     *)
(***************************************************************************)
EXTENDS Placement, TLC

MCSymmetry == Permutations(Nodes)
=============================================================================
