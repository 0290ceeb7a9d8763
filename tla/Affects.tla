------------------------------ MODULE Affects ------------------------------
(***************************************************************************)
(* What spells and worn items do to a player, and undoing it.              *)
(*                                                                         *)
(* Every affect of a spell, and of an item that is worn, is added to the   *)
(* totals of the character when it comes and taken off when it goes; after *)
(* each of these the weapon in hand falls down if it has become too heavy, *)
(* which takes off its own affects.  reset_char computes the totals anew.  *)
(*                                                                         *)
(* The vectors are the bits of affected_by, AffBits, and those of imm_     *)
(* flags, res_flags and vuln_flags.  The file of a player holds the first  *)
(* only: the others that a spell or an item gave are gone when he comes    *)
(* back, though what gave them is still there.  lapsed is a history        *)
(* variable: the bits lost so and not set again since.                     *)
(*                                                                         *)
(* One attribute stands for all.  Levels, durations, what an armor itself  *)
(* is worth (apply_ac), size, sex and affects of items that are spells are *)
(* left out, as is who casts; so is a file older than the player's leaving *)
(* (a crash).                                                              *)
(***************************************************************************)
EXTENDS SequencesExt, Integers, FiniteSets

CONSTANTS
  Spells, Effects,   \* the affects each spell has, in the order of the list
  Joined,            \* those that add to what is there: poison, plague
  Items, Native,     \* the affects an item is made with
  Fits,              \* "wield" or "body"
  Need,              \* the strength a weapon needs (str_app[].wield)
  Vectors, AffBits,  \* the bits an affect can give, those of affected_by
  Race,              \* race_table[].aff, imm, res and vuln
  MaxStack,          \* bound: what joined affects come to
  MaxEtch,           \* bound: how far an item is etched
  MaxSaves,          \* bound: how far the saves go astray (Bless)
  None

\* AFFECT_DATA.  The type only matters of what is laid on an item; that of what
\* acid did is -1.
AffectData == [loc : {"none", "str", "hit", "saves", "ac"}, mod : Int,
               bit : Vectors \cup {None}, type : {"none", "bless", "curse", "acid"}]
Affect(l, m, b) == [loc |-> l, mod |-> m, bit |-> b, type |-> "none"]

ASSUME AffectsAssumption ==
  /\ IsFiniteSet(Spells) /\ IsFiniteSet(Items)
  /\ Joined \subseteq Spells /\ Race \subseteq Vectors /\ AffBits \subseteq Vectors
  /\ \A t \in Spells : Effects[t] \in Seq(AffectData)
  /\ \A t \in Joined : Len(Effects[t]) = 1
  /\ \A i \in Items : /\ Native[i] \in Seq(AffectData)
                       /\ \A k \in DOMAIN Native[i] : Native[i][k].type = "none"
                       /\ Fits[i] \in {"wield", "body"} /\ Need[i] \in Int
  /\ {MaxStack, MaxEtch, MaxSaves} \subseteq Nat

VARIABLES
  mods,     \* the totals: strength, hitroll of either hand, saves, armor
  bits,     \* ch->affected_by, imm_flags, res_flags and vuln_flags
  spells,   \* ch->affected, by spell: its affects, none if it is not there
  enchanted, \* the items whose own affects have been copied to obj->affected
  laid,     \* obj->affected
  worn,     \* obj->wear_loc, or "lost" when it is not carried
  lapsed    \* history: the bits that were set when he left, and are not since

vars == <<mods, bits, spells, enchanted, laid, worn, lapsed>>

Totals == {"str", "hit", "hit2", "saves", "ac"}

Init ==
  /\ mods = [f \in Totals |-> 0]
  /\ bits = Race
  /\ spells = [t \in Spells |-> << >>]
  /\ enchanted = {}
  /\ laid = [i \in Items |-> << >>]
  /\ worn \in [Items -> {"none", "lost"}]
  /\ lapsed = {}

now == [mods |-> mods, bits |-> bits, spells |-> spells, worn |-> worn]

Becomes(s) ==
  /\ mods' = s.mods
  /\ bits' = s.bits
  /\ spells' = s.spells
  /\ worn' = s.worn
  /\ lapsed' = lapsed \ s.bits

At(s, loc) == {i \in Items : s.worn[i] = loc}
IsWorn(s, i) == s.worn[i] \notin {"none", "lost"}

\* obj->wear_loc, and the list of a spell.
Place(s, i, loc) ==
  [mods |-> s.mods, bits |-> s.bits, spells |-> s.spells, worn |-> [s.worn EXCEPT ![i] = loc]]
List(s, t, affs) ==
  [mods |-> s.mods, bits |-> s.bits, spells |-> [s.spells EXCEPT ![t] = affs], worn |-> s.worn]

\* What an item does when worn: its own affects first (equip_char).
Own(i) == IF i \in enchanted THEN << >> ELSE Native[i]
On(i) == Own(i) \o laid[i]

-----------------------------------------------------------------------------
(***************************************************************************)
(* affect_modify.  app says to which hand a hitroll belongs.               *)
(***************************************************************************)
\* What an affect adds to a total.
Part(a, app, f) ==
  IF /\ a.loc = (IF f = "hit2" THEN "hit" ELSE f)
     /\ ~(f = "hit" /\ app = "second")
     /\ ~(f = "hit2" /\ app = "wield")
  THEN a.mod ELSE 0

\* Which hand the affects of an item in a place are for.
App(loc) == IF loc \in {"wield", "second"} THEN loc ELSE "both"

\* Its first half: the totals and the bits.
Modify(s, a, sign, app) ==
  [mods |-> [f \in Totals |-> s.mods[f] + sign * Part(a, app, f)],
   bits |-> IF sign = 1 THEN s.bits \cup ({a.bit} \ {None}) ELSE s.bits \ {a.bit},
   spells |-> s.spells, worn |-> s.worn]

\* Mutant: what else gives the bit is not looked for.
CheckNone(s, b) == s

\* affect_check: the bit is set again if another affect gives it.
Gives(s, b) ==
  \/ \E t \in Spells : \E k \in DOMAIN s.spells[t] : s.spells[t][k].bit = b
  \/ \E i \in Items : IsWorn(s, i) /\ \E k \in DOMAIN On(i) : On(i)[k].bit = b

Check(s, b) == IF Gives(s, b) THEN [s EXCEPT !.bits = @ \cup ({b} \ {None})] ELSE s

(***************************************************************************)
(* affect_modify, equip_char and unequip_char call each other: the loops   *)
(* of the last two go on over all affects of the item, whatever an affect  *)
(* led to.  The Loop is Modified while a weapon falls (depth, the static   *)
(* variable of affect_modify), and Applied otherwise.                      *)
(***************************************************************************)
\* A loop over a list of affects.
Along(s, affs, Step(_, _)) ==
  LET walk[k \in 0..Len(affs)] == IF k = 0 THEN s ELSE Step(walk[k - 1], affs[k])
  IN  walk[Len(affs)]

Modified(s, affs, sign, app) ==
  Along(s, affs, LAMBDA t, a : IF sign = 1 THEN Modify(t, a, 1, app)
                             ELSE Check(Modify(t, a, -1, app), a.bit))

EquipBy(Loop(_, _, _, _), s, i, loc) ==
  IF At(s, loc) # {} THEN s
  ELSE Loop(Place(s, i, loc), On(i), 1, App(loc))

\* One item comes off.
TakeOffBy(Loop(_, _, _, _), s, i) ==
  Loop(Place(s, i, "none"), On(i), -1, App(s.worn[i]))

Racial(s) == [s EXCEPT !.bits = @ \cup (Race \cap AffBits)]

\* unequip_char: after the primary weapon the secondary one is moved over.
Second(s) == CHOOSE i \in At(s, "second") : TRUE

UnequipBy(Loop(_, _, _, _), s, i) ==
  LET t == TakeOffBy(Loop, s, i)
  IN  Racial(IF s.worn[i] = "wield" /\ At(t, "second") # {}
             THEN EquipBy(Loop, Racial(TakeOffBy(Loop, t, Second(t))), Second(t), "wield")
             ELSE t)

\* obj_from_char and obj_to_room.
FallBy(Loop(_, _, _, _), s, i) ==
  Place(IF s.worn[i] = "none" THEN s ELSE UnequipBy(Loop, s, i), i, "lost")

\* affect_modify: a weapon that has become too heavy is dropped.
Fallen(s, i) == FallBy(Modified, s, i)

Apply(s, a, sign, app) ==
  LET t == Modify(s, a, sign, app)
      W == {i \in At(t, "wield") : t.mods["str"] < Need[i]}
  IN  IF W = {} THEN t ELSE Fallen(t, CHOOSE i \in W : TRUE)

Applied(s, affs, sign, app) ==
  Along(s, affs, LAMBDA t, a : IF sign = 1 THEN Apply(t, a, 1, app)
                             ELSE Check(Apply(t, a, -1, app), a.bit))

\* equip_char, unequip_char and what is dropped, whoever calls them.
Equip(s, i, loc) == EquipBy(Applied, s, i, loc)
Unequip(s, i) == UnequipBy(Applied, s, i)
Fall(s, i) == FallBy(Applied, s, i)

-----------------------------------------------------------------------------
(***************************************************************************)
(* Affects of the character.                                               *)
(***************************************************************************)
\* affect_to_char
Give(s, t, a) ==
  Apply(List(s, t, <<a>> \o s.spells[t]), a, 1, "both")

\* affect_remove of the first affect of a spell.
Take(s, t) ==
  LET a == Head(s.spells[t])
      u == Apply(s, a, -1, "both")
  IN  Check(List(u, t, Tail(u.spells[t])), a.bit)

\* So with each affect of a list.
GiveAll(s, t, affs) == Along(s, affs, LAMBDA u, a : Give(u, t, a))
TakeAll(s, t, affs) == Along(s, affs, LAMBDA u, a : Take(u, t))

\* A spell that is not there yet; of one that is only the duration changes.
Cast(t) ==
  /\ t \notin Joined
  /\ spells[t] = << >>
  /\ Becomes(GiveAll(now, t, Effects[t]))
  /\ UNCHANGED <<enchanted, laid>>

\* affect_join
Join(t) ==
  /\ t \in Joined
  /\ LET a == Effects[t][1]
     IN  IF spells[t] = << >> THEN Becomes(Give(now, t, a))
         ELSE LET n == a.mod + spells[t][1].mod
              IN  /\ n \in -MaxStack..MaxStack
                  /\ Becomes(Give(Take(now, t), t, [a EXCEPT !.mod = n]))
  /\ UNCHANGED <<enchanted, laid>>

\* The spell wears off (char_update), or is dispelled (affect_strip).
Strip(t) ==
  /\ spells[t] # << >>
  /\ Becomes(TakeAll(now, t, spells[t]))
  /\ UNCHANGED <<enchanted, laid>>

-----------------------------------------------------------------------------
(***************************************************************************)
(* Items.                                                                  *)
(***************************************************************************)
\* remove_obj with fReplace
Removed(s, loc) ==
  IF At(s, loc) = {} THEN s ELSE Unequip(s, CHOOSE i \in At(s, loc) : TRUE)

\* Mutant: weapons are worn like armor.
WearAll(i) ==
  /\ worn[i] = "none"
  /\ Becomes(Equip(Removed(now, "body"), i, "body"))
  /\ UNCHANGED <<enchanted, laid>>

\* wear_obj, of one who can fight with two weapons.
Wear(i) ==
  /\ worn[i] = "none"
  /\ \/ /\ Fits[i] = "body"
        /\ Becomes(Equip(Removed(now, "body"), i, "body"))
     \/ /\ Fits[i] = "wield"
        /\ mods["str"] >= Need[i]
        /\ \/ /\ At(now, "wield") = {}
              /\ Becomes(Equip(now, i, "wield"))
           \/ /\ \A p \in At(now, "wield") : Need[i] < Need[p]
              /\ At(now, "wield") # {}
              /\ Becomes(Equip(Removed(now, "second"), i, "second"))
  /\ UNCHANGED <<enchanted, laid>>

\* do_remove
Doff(i) ==
  /\ IsWorn(now, i)
  /\ Becomes(Unequip(now, i))
  /\ UNCHANGED <<enchanted, laid>>

\* It is dropped, given or stolen, disarmed or consumed; or got.
Lose(i) ==
  /\ worn[i] # "lost"
  /\ Becomes(Fall(now, i))
  /\ UNCHANGED <<enchanted, laid>>

Get(i) ==
  /\ worn[i] = "lost"
  /\ Becomes(Place(now, i, "none"))
  /\ UNCHANGED <<enchanted, laid>>

Laid(i, t) == {k \in DOMAIN laid[i] : laid[i][k].type = t}

Blessing(t, m) == [loc |-> "saves", mod |-> m, bit |-> None, type |-> t]
Acid == [loc |-> "ac", mod |-> 1, bit |-> None, type |-> "acid"]

\* spell_bless and spell_curse of an item, worn or not: affect_to_obj only
\* puts the affect on its list.
Bless(i, t, m) ==
  /\ worn[i] # "lost"
  /\ Laid(i, "bless") \cup Laid(i, "curse") = {}
  /\ mods["saves"] \in -MaxSaves..MaxSaves
  /\ laid' = [laid EXCEPT ![i] = <<Blessing(t, m)>> \o @]
  /\ UNCHANGED <<mods, bits, spells, enchanted, worn, lapsed>>

\* affect_remove_obj, when the blessing wears off or the opposite spell
\* removes it: what is worn is taken off the totals.
Fade(i, t) ==
  /\ Laid(i, t) # {}
  /\ LET k == CHOOSE k \in Laid(i, t) : TRUE
         a == laid[i][k]
     IN  /\ Becomes(IF IsWorn(now, i) THEN Apply(now, a, -1, "both") ELSE now)
         /\ laid' = [laid EXCEPT ![i] = RemoveAt(@, k)]
  /\ UNCHANGED enchanted

\* Affects put before others one by one, as a file is read and as affect_enchant
\* copies them.  What has no type (-1) is not written (fwrite_obj); the own
\* affects of an item are all given one.
Copied(affs, rest) ==
  Along(rest, affs, LAMBDA l, a : IF a.type = "acid" THEN l ELSE <<a>> \o l)

\* affect_enchant
Enchanted(i) == Copied(Own(i), laid[i])

\* The search for what changes the armor: the first that is there is raised,
\* and loses its type, or a new one is put before the others.
Worse(a) == [loc |-> a.loc, mod |-> a.mod + 1, bit |-> a.bit, type |-> "acid"]

OfArmor(affs) == {k \in DOMAIN affs : affs[k].loc = "ac"}

Etched(affs) ==
  IF OfArmor(affs) = {} THEN <<Acid>> \o affs
  ELSE [affs EXCEPT ![Min(OfArmor(affs))] = Worse(@)]

CanEtch(i) ==
  /\ Fits[i] = "body"
  /\ worn[i] # "lost"
  /\ \A k \in OfArmor(On(i)) : On(i)[k].mod < MaxEtch

\* Mutant: the armor of the one who wears it is left.
EtchOnly(i) ==
  /\ CanEtch(i)
  /\ laid' = [laid EXCEPT ![i] = Etched(Enchanted(i))]
  /\ enchanted' = enchanted \cup {i}
  /\ UNCHANGED <<mods, bits, spells, worn, lapsed>>

\* acid_effect on armor.
Etch(i) ==
  /\ CanEtch(i)
  /\ laid' = [laid EXCEPT ![i] = Etched(Enchanted(i))]
  /\ enchanted' = enchanted \cup {i}
  /\ mods' = IF worn[i] = "none" THEN mods ELSE [mods EXCEPT !["ac"] = @ + 1]
  /\ UNCHANGED <<bits, spells, worn, lapsed>>

-----------------------------------------------------------------------------
\* What a list of affects adds to a total.
Amount(affs, app, f) == SumFunction([k \in DOMAIN affs |-> Part(affs[k], app, f)])

\* The totals as reset_char adds them up from nothing: what is worn, each in
\* its place, and then the spells.
Condition ==
  [f \in Totals |->
     SumFunction([i \in Items |-> IF worn[i] \in {"none", "lost"} THEN 0
                                  ELSE Amount(On(i), App(worn[i]), f)])
     + SumFunction([t \in Spells |-> Amount(spells[t], "both", f)])]

\* The player leaves and comes back.  Some of what he carries is not written
\* (keys, what is too high for him, what comes from an area still being built):
\* another of its kind may be got later.  The rest is where it was, less what
\* has no type; lists are read the other way round; of the bits there are those
\* of affected_by and those of the race; and reset_char adds up the totals.
Relog(Gone) ==
  LET kept == {i \in Items : worn[i] # "lost"} \ Gone
      set == (bits \cap AffBits) \cup Race
  IN  /\ \A i \in Gone : worn[i] # "lost"
      /\ worn' = [i \in Items |-> IF i \in Gone THEN "lost" ELSE worn[i]]
      /\ enchanted' = enchanted \ Gone
      /\ laid' = [i \in Items |-> IF i \in Gone THEN << >>
                                   ELSE IF i \in kept THEN Copied(laid[i], << >>)
                                   ELSE laid[i]]
      /\ spells' = [t \in Spells |-> Reverse(spells[t])]
      /\ bits' = set
      /\ lapsed' = (lapsed \cup bits) \ set
      /\ mods' = Condition'

Next ==
  \/ \E t \in Spells : Cast(t) \/ Join(t) \/ Strip(t)
  \/ \E i \in Items :
       \/ Wear(i) \/ Doff(i) \/ Lose(i) \/ Get(i) \/ Etch(i)
       \/ Bless(i, "bless", -1) \/ Bless(i, "curse", 1)
       \/ Fade(i, "bless") \/ Fade(i, "curse")
  \/ \E Gone \in SUBSET Items : Relog(Gone)

Spec == Init /\ [][Next]_vars

-----------------------------------------------------------------------------
\* Each place holds one item, of its kind.
TypeOK ==
  /\ mods \in [Totals -> Int]
  /\ bits \subseteq Vectors /\ lapsed \subseteq Vectors /\ enchanted \subseteq Items
  /\ spells \in [Spells -> Seq(AffectData)]
  /\ laid \in [Items -> Seq(AffectData)]
  /\ worn \in [Items -> {"lost", "none", "wield", "second", "body"}]
  /\ \A i \in Items : worn[i] \in {"wield", "second", "body"} =>
       /\ Fits[i] = IF worn[i] = "body" THEN "body" ELSE "wield"
       /\ \A j \in Items \ {i} : worn[j] # worn[i]
  /\ \A t \in Spells : Len(spells[t]) \in {0, Len(Effects[t])}

\* However spells come, add up and wear off and items are put on, moved from
\* hand to hand, etched and dropped for their weight in the middle of any of
\* these, what was added to the totals is taken off again: they are what
\* reset_char adds up.  (affect_modify, equip_char, unequip_char.)  The saves
\* are left out: what is laid on a worn item only counts once it is taken off.
Exact == \A f \in Totals \ {"saves"} : mods[f] = Condition[f]

\* As long as a spell or a worn item gives a bit, it is set, whatever else
\* that gave it has gone (affect_check).  But for those that the file does not
\* hold, from when the player comes back until they are given anew; those of
\* affected_by are never lost so (fwrite_char, load_char_obj).
BitsHeld ==
  /\ \A b \in Vectors \ {None} : Gives(now, b) => b \in bits \cup lapsed
  /\ lapsed \cap AffBits = {}
=============================================================================
