------------------------------ MODULE MCObjects ------------------------------
(***************************************************************************)
(* Small instances of Objects for TLC.                                     *)
(***************************************************************************)
EXTENDS Objects, TLC

Symmetry == Permutations(Weapons)
=============================================================================
