----------------------------- MODULE MCAffects -----------------------------
(***************************************************************************)
(* Small instances of Affects for TLC.                                     *)
(***************************************************************************)
EXTENDS Affects, TLC

CONSTANTS bless, plague, axe, sword, belt, sick, warded

MCEffects ==
  (bless :> <<Affect("hit", 1, None), Affect("saves", -1, warded)>>) @@
  (plague :> <<Affect("str", -1, sick)>>)

MCNative ==
  (axe :> <<Affect("str", -1, None), Affect("hit", 2, None)>>) @@
  (sword :> <<Affect("hit", 1, None), Affect("str", -1, warded)>>) @@
  (belt :> <<Affect("str", 1, sick), Affect("ac", -1, None)>>)

MCFits == (axe :> "wield") @@ (sword :> "wield") @@ (belt :> "body")
MCNeed == (axe :> 0) @@ (sword :> -1) @@ (belt :> 0)
=============================================================================
