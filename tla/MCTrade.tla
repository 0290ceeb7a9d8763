------------------------------ MODULE MCTrade ------------------------------
(***************************************************************************)
(* Small instances of Trade for TLC.                                       *)
(***************************************************************************)
EXTENDS Trade, TLC

Symmetry == Permutations(Slots) \cup Permutations(Persons)
              \cup Permutations(Trades) \cup Permutations(Rooms)
=============================================================================
