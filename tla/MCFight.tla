------------------------------ MODULE MCFight ------------------------------
(***************************************************************************)
(* A small instance of Fight for TLC.                                      *)
(***************************************************************************)
EXTENDS Fight, TLC

CONSTANTS p1, m1, m2, hall, field

MCdefault_pos == [c \in Chars |-> "standing"]
Symmetry == Permutations(Mobiles)
=============================================================================
