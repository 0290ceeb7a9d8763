----------------------------- MODULE MCGameLoop -----------------------------
(***************************************************************************)
(* A small instance of GameLoop for TLC.                                   *)
(***************************************************************************)
EXTENDS GameLoop
=============================================================================
