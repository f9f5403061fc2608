---------------------------- MODULE MCCJsonItems ----------------------------
(* A small instance of CJsonItems for TLC.                                 *)
EXTENDS CJsonItems, TLC

CONSTANTS k, K

Cases == [n \in Name |-> k]
Addresses == Permutations(Item)
=============================================================================
