------------------------------ MODULE MCArena ------------------------------
(***************************************************************************)
(* Small instances of Arena for TLC.                                       *)
(***************************************************************************)
EXTENDS Arena, TLC

Symmetry == Permutations(Persons)
=============================================================================
