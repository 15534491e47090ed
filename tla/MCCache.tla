------------------------------ MODULE MCCache ------------------------------
(***************************************************************************)
(* A small instance of Cache on which TLC shows where the code departs     *)
(* from what its comments say.                                             *)
(***************************************************************************)
EXTENDS Cache

CONSTANTS a, b, c

MCOneShard == [k \in Keys |-> 1]
=============================================================================
