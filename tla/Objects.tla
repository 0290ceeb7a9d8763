------------------------------- MODULE Objects -------------------------------
(***************************************************************************)
(* Objects: on the floor, in somebody's hands, worn, or in one another.    *)
(*                                                                         *)
(* place is in_room, carried_by and in_obj in one: of these pointers       *)
(* obj_to_room, obj_to_char and obj_to_obj set one and clear the others.   *)
(* number is ch->carry_number, which is kept up to date by the moves and   *)
(* never computed anew.  The order of the list ch->carrying is abstracted; *)
(* it matters where a list is walked while taking a primary weapon off     *)
(* moves the secondary one to its head, or to the floor: Courses says what *)
(* such a walk comes to, for all the orders there are.                     *)
(*                                                                         *)
(* Of the lists the model says only whether they are whole.  A death that  *)
(* walks on in the list of the room leaves the corpse and the room with    *)
(* one tail in common, or the list of the room without an end: then torn   *)
(* is TRUE, the pointers are as place says, what commands find through     *)
(* such lists is not modelled, and the next step is a reboot.              *)
(*                                                                         *)
(* Left out: weights, visibility, levels, cursed objects and closed        *)
(* containers, which only refuse commands, and weapons that fall for their *)
(* weight (Affects); money, which is coins as soon as it is picked up;     *)
(* what a keeper sells without end (ITEM_INVENTORY); teleporting           *)
(* equipment; affects of what is worn; a weapon whose time runs out when   *)
(* it is Lost.                                                             *)
(***************************************************************************)
EXTENDS Integers, FiniteSets, Functions

CONSTANTS
  Players, Mobs,
  Rooms,
  Hall,        \* where the dead go
  Weapons,
  Bags,        \* containers, as heavy with their contents as these are
  Discs,       \* the bags that float beside their owner when worn
  Corpses,     \* ITEM_CORPSE_PC, made when a player dies
  Carcasses,   \* ITEM_CORPSE_NPC
  Things,      \* anything else
  Gems,        \* the things that count half
  Anti,        \* objects that zap the wrong sort of owner
  Dual,        \* characters with the skill dual wield
  MaxNumber,   \* can_carry_n
  Lost,        \* carried_by of what is still in object_list when its carrier is freed
  None

Chars == Players \cup Mobs
Holders == Bags \cup Corpses \cup Carcasses
Objs == Weapons \cup Holders \cup Things
Places == Chars \cup Rooms \cup Objs \cup {Lost, None}

ASSUME ObjectsAssumption ==
  /\ IsFiniteSet(Objs)
  /\ Players \cap Mobs = {}
  /\ Hall \in Rooms
  /\ Discs \subseteq Bags /\ Gems \subseteq Things
  /\ Weapons \cap (Holders \cup Things) = {}
  /\ Holders \cap Things = {}
  /\ Bags \cap (Corpses \cup Carcasses) = {}
  /\ Corpses \cap Carcasses = {}
  /\ Anti \subseteq Objs /\ Dual \subseteq Chars
  /\ Objs \cap (Chars \cup Rooms) = {}
  /\ Chars \cap Rooms = {}
  /\ None \notin Objs \cup Chars \cup Rooms
  /\ Lost \notin Objs \cup Chars \cup Rooms \cup {None}
  /\ MaxNumber \in Nat

VARIABLES
  place,   \* where an object is, None for one that does not exist
  wear,    \* wear_loc
  number,  \* carry_number
  room,    \* ch->in_room, None for a character that is not in the world
  torn     \* whether two lists of objects have a tail in common, or one no end

vars == <<place, wear, number, room, torn>>

Init ==
  /\ place = [o \in Objs |-> None]
  /\ wear = [o \in Objs |-> "none"]
  /\ number = [c \in Chars |-> 0]
  /\ room = [c \in Chars |-> None]
  /\ torn = FALSE

Present == {c \in Chars : room[c] # None}
Carried(p, c) == {o \in Objs : p[o] = c}

-----------------------------------------------------------------------------
(***************************************************************************)
(* Building blocks.  s is a record of place, wear and number; Z the        *)
(* objects that would zap their owner now.                                 *)
(***************************************************************************)
now == [place |-> place, wear |-> wear, number |-> number]

\* From lists that are whole to s, and to whether they are torn.
Goes(s, t) ==
  /\ ~torn
  /\ place' = s.place
  /\ wear' = s.wear
  /\ number' = s.number
  /\ torn' = t

Becomes(s) == Goes(s, FALSE)

\* What is in the container k, at any depth: S are the sets of containers
\* that hold k and all that is in one of them.
Below(p, k) ==
  {x \in Objs : \A S \in SUBSET Holders :
     k \in S /\ (\A h \in Holders : p[h] \in S => h \in S) => p[x] \in S}

Unit(o) == IF o \in Bags THEN 0 ELSE IF o \in Gems THEN 5 ELSE 10

Units == [o \in Objs |-> Unit(o)]

\* get_obj_number
Num(p, o) ==
  IF o \in Holders THEN SumFunctionOnSet(Units, {o} \cup Below(p, o)) ELSE Unit(o)

\* What the objects in T come to.
NumberOf(p, T) == SumFunction([o \in T |-> Num(p, o)])

\* The objects in T, with all that is in them.
Deep(p, T) == T \cup UNION {Below(p, k) : k \in T \cap Holders}

\* Mutant: only the innermost container is asked who carries it.
CarriersInner(p, k) == {c \in Chars : p[k] = c}

\* Who has the container k, itself or in others.
Carriers(p, k) ==
  {c \in Chars : p[k] = c \/ \E h \in Holders : p[h] = c /\ k \in Below(p, h)}

\* n more, or less, for those that have k.
Count(s, k, n) ==
  [c \in Chars |-> IF c \in Carriers(s.place, k) THEN s.number[c] + n ELSE s.number[c]]

ToChar(s, o, c) ==
  [place |-> [s.place EXCEPT ![o] = c], wear |-> s.wear,
   number |-> [s.number EXCEPT ![c] = @ + Num(s.place, o)]]

ToRoom(s, o, r) == [s EXCEPT !.place[o] = r]

ToObj(s, o, k) ==
  [place |-> [s.place EXCEPT ![o] = k], wear |-> s.wear,
   number |-> Count(s, k, Num(s.place, o))]

FromObj(s, o) ==
  [place |-> [s.place EXCEPT ![o] = None], wear |-> s.wear,
   number |-> Count(s, s.place[o], -Num(s.place, o))]

\* The end of obj_from_char: off the list.
OffList(s, o) ==
  [place |-> [s.place EXCEPT ![o] = None], wear |-> [s.wear EXCEPT ![o] = "none"],
   number |-> [s.number EXCEPT ![s.place[o]] = @ - Num(s.place, o)]]

\* equip_char: the object zaps its owner and falls down, or is worn.
Equip(s, o, loc, Z) ==
  IF o \in Z THEN ToRoom(OffList(s, o), o, room[s.place[o]])
  ELSE [s EXCEPT !.wear[o] = loc]

Second(s, c) == {q \in Carried(s.place, c) : s.wear[q] = "second"}

\* Mutant: the secondary weapon stays where it is.
UnequipOnly(s, o, Z) == [s EXCEPT !.wear[o] = "none"]

\* unequip_char: when the primary weapon comes off, the secondary one takes
\* its place.
Unequip(s, o, Z) ==
  LET t == [s EXCEPT !.wear[o] = "none"]
      Q == Second(s, s.place[o])
  IN  IF s.wear[o] = "wield" /\ Q # {}
      THEN LET q == CHOOSE x \in Q : TRUE IN Equip(t, q, "wield", Z)
      ELSE t

FromChar(s, o, Z) ==
  OffList(IF s.wear[o] # "none" THEN Unequip(s, o, Z) ELSE s, o)

From(s, o, Z) ==
  IF s.place[o] \in Chars THEN FromChar(s, o, Z)
  ELSE IF s.place[o] \in Objs THEN FromObj(s, o)
  ELSE ToRoom(s, o, None)

\* extract_obj, with all that is in it.
Extract(s, o, Z) ==
  LET t == From(s, o, Z)
      D == {o} \cup (IF o \in Holders THEN Below(s.place, o) ELSE {})
  IN  [t EXCEPT !.place = [x \in Objs |-> IF x \in D THEN None ELSE @[x]]]

-----------------------------------------------------------------------------
(***************************************************************************)
(* Commands.  Refusals for want of skill, strength, sight or permission    *)
(* change nothing and have no action.                                      *)
(***************************************************************************)
Fits(c, o) == number[c] + Num(place, o) <= MaxNumber

\* get_obj_here: in the hands or on the body of c, or on the floor.
Here(c, k) == c \in Present /\ place[k] \in {c, room[c]}

\* get_obj_carry: in the inventory, not worn.
InHand(c, o) == c \in Present /\ place[o] = c /\ wear[o] = "none"

\* get_obj of something on the floor.
Get(c, o) ==
  /\ c \in Present
  /\ place[o] = room[c]
  /\ Fits(c, o)
  /\ Becomes(ToChar(ToRoom(now, o, None), o, c))
  /\ UNCHANGED room

\* get_obj from a container, or do_loot from the corpse of a player.
GetFrom(c, o, k) ==
  /\ Here(c, k)
  /\ place[o] = k
  /\ Fits(c, o)
  /\ Becomes(ToChar(FromObj(now, o), o, c))
  /\ UNCHANGED room

\* Mutant: do_put does not look for the container itself.
PutAnywhere(c, o, k) ==
  /\ InHand(c, o)
  /\ Here(c, k)
  /\ k \in Bags
  /\ Becomes(ToObj(FromChar(now, o, {}), o, k))
  /\ UNCHANGED room

\* do_put
Put(c, o, k) ==
  /\ InHand(c, o)
  /\ Here(c, k)
  /\ k \in Bags /\ k # o
  /\ Becomes(ToObj(FromChar(now, o, {}), o, k))
  /\ UNCHANGED room

\* do_drop; some things melt.
Drop(c, o) ==
  /\ InHand(c, o)
  /\ LET s == ToRoom(FromChar(now, o, {}), o, room[c])
     IN  Becomes(s) \/ Becomes(Extract(s, o, {}))
  /\ UNCHANGED room

\* do_give of o by c to d; do_steal and do_snatch of o by d from c look at the
\* same.
Give(c, o, d) ==
  /\ InHand(c, o)
  /\ d \in Present \ {c} /\ room[d] = room[c]
  /\ Fits(d, o)
  /\ Becomes(ToChar(FromChar(now, o, {}), o, d))
  /\ UNCHANGED room

\* do_sell: the keeper has room for anything, or has it destroyed.
Sell(c, o, d) ==
  /\ InHand(c, o)
  /\ d \in (Present \cap Mobs) \ {c} /\ room[d] = room[c]
  /\ LET s == FromChar(now, o, {})
     IN  Becomes(ToChar(s, o, d)) \/ Becomes(Extract(now, o, {}))
  /\ UNCHANGED room

\* A new object: on the floor or with a mobile by a reset, or bought from a
\* shop that has no end of it.
Create(o, h) ==
  /\ place[o] = None
  /\ o \notin Corpses \cup Carcasses
  /\ \/ h \in Rooms /\ Becomes(ToRoom(now, o, h))
     \/ h \in Present \cap Mobs /\ Becomes(ToChar(now, o, h))
     \/ h \in Present \cap Players /\ Fits(h, o) /\ Becomes(ToChar(now, o, h))
  /\ UNCHANGED room

\* What is eaten, quaffed, recited, or blazes bright and is gone.
Consume(c, o, Z) ==
  /\ c \in Present /\ place[o] = c
  /\ o \in Things \cup Weapons
  /\ Becomes(Extract(now, o, Z))
  /\ UNCHANGED room

\* do_sacrifice
Sacrifice(c, o) ==
  /\ c \in Present \cap Players
  /\ place[o] = room[c]
  /\ o \in Corpses => Below(place, o) = {}
  /\ Becomes(Extract(now, o, {}))
  /\ UNCHANGED room

\* do_slice: some of what is in the bag falls into the hands of its owner, who
\* carries as much as before.
Slice(k, T) ==
  /\ ~torn
  /\ k \in Bags /\ place[k] \in Present /\ wear[k] = "none"
  /\ T # {} /\ T \subseteq Carried(place, k)
  /\ place' = [o \in Objs |-> IF o \in T THEN place[k] ELSE place[o]]
  /\ UNCHANGED <<wear, number, room, torn>>

\* do_snatch, of what floats beside somebody.
Snatch(c, o, d) ==
  /\ c \in Present /\ place[o] = c /\ wear[o] = "float"
  /\ d \in Present \ {c} /\ room[d] = room[c]
  /\ Fits(d, o)
  /\ Becomes(ToChar(FromChar(now, o, {}), o, d))
  /\ UNCHANGED room

-----------------------------------------------------------------------------
(***************************************************************************)
(* Equipment.                                                              *)
(***************************************************************************)
Worn(c, loc) == {x \in Carried(place, c) : wear[x] = loc}

\* remove_obj with fReplace
Removed(s, c, loc, Z) ==
  LET X == {x \in Carried(s.place, c) : s.wear[x] = loc}
  IN  IF X = {} THEN s ELSE Unequip(s, CHOOSE x \in X : TRUE, Z)

\* wear_obj of a weapon: a secondary one beside the first, for those who can.
Wield(c, o, Z) ==
  IF c \in Dual /\ Worn(c, "wield") # {}
  THEN Equip(Removed(now, c, "second", Z), o, "second", Z)
  ELSE Equip(Removed(now, c, "wield", Z), o, "wield", Z)

\* Mutant: wear_obj lets anything be wielded.
WearAnything(c, o, Z) ==
  /\ InHand(c, o)
  /\ \/ o \notin Discs /\ Becomes(Wield(c, o, Z))
     \/ o \in Discs /\ Becomes(Equip(Removed(now, c, "float", Z), o, "float", Z))
  /\ UNCHANGED room

\* wear_obj
Wear(c, o, Z) ==
  /\ InHand(c, o)
  /\ \/ o \in Weapons /\ Becomes(Wield(c, o, Z))
     \/ o \in Discs /\ Becomes(Equip(Removed(now, c, "float", Z), o, "float", Z))
  /\ UNCHANGED room

\* do_remove; when the primary weapon comes off, the secondary has been moved
\* by unequip_char already.
Remove(c, o, Z) ==
  /\ c \in Present
  /\ place[o] = c /\ wear[o] # "none"
  /\ Becomes(Unequip(now, o, Z))
  /\ UNCHANGED room

\* remove_all_objs: a secondary weapon is moved to the right hand first, where
\* it may zap its owner, and then comes off too.
RemoveAll(c, Z) ==
  /\ c \in Present
  /\ LET P == Worn(c, "wield")
         s == IF P = {} THEN now ELSE Unequip(now, CHOOSE p \in P : TRUE, Z)
     IN  Becomes([s EXCEPT !.wear = [o \in Objs |-> IF place[o] = c THEN "none" ELSE @[o]]])
  /\ UNCHANGED room

\* disarm by d, or a fumble: the weapon falls, stays in the inventory, or is
\* caught by d, whatever d carries already.
Disarm(c, o, d, Z) ==
  /\ c \in Present /\ place[o] = c /\ wear[o] = "wield"
  /\ d \in Present /\ room[d] = room[c]
  /\ LET s == FromChar(now, o, Z)
     IN  \/ Becomes(ToRoom(s, o, room[c]))
         \/ Becomes(ToChar(s, o, d))
  /\ UNCHANGED room

\* group_gain: what zaps the killer now is dropped.
ZapWorn(c, o, Z) ==
  /\ c \in Present /\ place[o] = c /\ wear[o] # "none" /\ o \in Z
  /\ Becomes(ToRoom(FromChar(now, o, Z), o, room[c]))
  /\ UNCHANGED room

-----------------------------------------------------------------------------
(***************************************************************************)
(* Decay and destruction.                                                  *)
(***************************************************************************)
\* What was directly in o, moved to h; Count took it off those that carry o.
Spilled(o, h) ==
  LET T == Carried(place, o)
      n == NumberOf(place, T)
      t == [now EXCEPT !.number = Count(now, o, -n)]
  IN  [place |-> [x \in Objs |-> IF x \in T THEN h ELSE place[x]],
       wear |-> wear,
       number |-> IF h \in Chars THEN [t.number EXCEPT ![h] = @ + n]
                  ELSE IF h \in Objs THEN Count(t, h, n)
                  ELSE t.number]

\* acid_effect, fire_effect: the contents of what dissolves fall down.
Burst(o, Z) ==
  /\ o \in Holders
  /\ place[o] \in Present \cup Rooms
  /\ LET h == IF place[o] \in Chars THEN room[place[o]] ELSE place[o]
     IN  Becomes(Extract(Spilled(o, h), o, Z))
  /\ UNCHANGED room

\* obj_update, when a timer runs out: a player's corpse and a floating disc
\* leave their contents behind, other things take them along.
Decay(o, Z) ==
  /\ place[o] \notin {None, Lost}
  /\ LET h == IF wear[o] = "float" THEN room[place[o]] ELSE place[o]
         s == IF o \in Corpses \/ wear[o] = "float" THEN Spilled(o, h) ELSE now
     IN  Becomes(Extract(s, o, Z))
  /\ UNCHANGED room

-----------------------------------------------------------------------------
(***************************************************************************)
(* Coming, going and dying.                                                *)
(***************************************************************************)
\* A character enters the world with nothing counted yet: from the file or by
\* a reset, what it brings comes after it (Create).
Enter(c, r) ==
  /\ ~torn
  /\ c \notin Present
  /\ room' = [room EXCEPT ![c] = r]
  /\ number' = [number EXCEPT ![c] = 0]
  /\ UNCHANGED <<place, wear, torn>>

\* char_from_room and char_to_room, by whatever way.
Walk(c, r) ==
  /\ ~torn
  /\ c \in Present /\ r # room[c]
  /\ room' = [room EXCEPT ![c] = r]
  /\ UNCHANGED <<place, wear, number, torn>>

\* What a walk over ch->carrying comes to that saves the next item and takes
\* off each: when the primary weapon P comes off, the secondary one S changes
\* hands.  Reached before, or next and not zapping, it is taken as the others
\* are.  Behind something else it moves to the head, where the walk has been,
\* and is left, or zaps c and falls down.  And if it falls down when it is the
\* next, the walk goes on in the list of the room, while what follows in the
\* list of c is left.
Courses(c, Z) ==
  LET C == Carried(place, c)
      P == Worn(c, "wield")
      S == Worn(c, "second")
      B == C \ (P \cup S)
      whole == [taken |-> C, left |-> {}, down |-> {}, off |-> FALSE]
      behind == [taken |-> C \ S, left |-> S \ Z, down |-> S \cap Z, off |-> FALSE]
      strayed(R) == [taken |-> C \ (S \cup R), left |-> R, down |-> S, off |-> TRUE]
  IN  {whole} \cup IF P = {} \/ S = {} THEN {}
                   ELSE (IF B = {} THEN {} ELSE {behind})
                          \cup (IF S \subseteq Z THEN {strayed(R) : R \in SUBSET B} ELSE {})

Floor(r) == {o \in Objs : place[o] = r}

\* make_corpse of c, with the walk w: everything to a corpse k or the floor,
\* but what floats, other corpses D, and a secondary weapon that fell, unless
\* the walk went on to the floor: that finds it there, and all that lies there.
\* (A floating thing that rots at death bursts on the floor: Burst.)
Dead(c, k, D, w) ==
  LET moved == w.taken \cup w.down \cup (IF w.off THEN Floor(room[c]) ELSE {})
      spared == D \cup (IF w.off THEN {} ELSE w.down \cup Worn(c, "float"))
      h == IF k = None THEN room[c] ELSE k
  IN  [place |-> [x \in Objs |-> IF x = k \/ x \in moved \cap spared THEN room[c]
                                 ELSE IF x \in moved THEN h
                                 ELSE place[x]],
       wear |-> [x \in Objs |-> IF x \in moved THEN "none"
                                ELSE IF x \in w.left /\ wear[x] = "second" THEN "wield"
                                ELSE wear[x]],
       number |-> [number EXCEPT ![c] = @ - NumberOf(place, w.taken \cup w.down)]]

\* What c carries is extracted.
Stripped(s, c) ==
  LET C == Carried(s.place, c)
      gone == Deep(s.place, C)
  IN  [place |-> [x \in Objs |-> IF x \in gone THEN None ELSE s.place[x]],
       wear |-> [x \in Objs |-> IF x \in gone THEN "none" ELSE s.wear[x]],
       number |-> [s.number EXCEPT ![c] = @ - NumberOf(s.place, C)]]

\* raw_kill of a player; one with no sacrifices to its name loses, in
\* extract_char, what is left with it.
Die(c, k, D, Z) ==
  /\ c \in Present \cap Players
  /\ k = None \/ (k \in Corpses /\ place[k] = None)
  /\ \E w \in Courses(c, Z) :
       \/ Goes(Dead(c, k, D, w), w.off)
       \/ Goes(Stripped(Dead(c, k, D, w), c), w.off)
  /\ room' = [room EXCEPT ![c] = Hall]

\* raw_kill of a mobile, and the end of its life timer in char_update (then
\* everything falls down); extract_char takes what is left.
DieMob(c, k, D, Z) ==
  /\ c \in Present \cap Mobs
  /\ k = None \/ (k \in Carcasses /\ place[k] = None)
  /\ \E w \in Courses(c, Z) : Goes(Stripped(Dead(c, k, D, w), c), w.off)
  /\ room' = [room EXCEPT ![c] = None]

\* The process ends; the world starts anew.
Reboot ==
  /\ place' = [o \in Objs |-> None]
  /\ wear' = [o \in Objs |-> "none"]
  /\ number' = [c \in Chars |-> 0]
  /\ room' = [c \in Chars |-> None]
  /\ torn' = FALSE

\* extract_char of a mobile, or of a player with no sacrifices to its name:
\* what is carried goes, in the room or in free_char.  A secondary weapon that
\* zaps c falls down, and when the walk goes on from it, so does all that lies
\* there.
Leave(c, Z) ==
  /\ ~torn
  /\ c \in Present
  /\ \E w \in Courses(c, Z) :
       LET T == IF w.off THEN Carried(place, c) \cup Floor(room[c])
                ELSE Carried(place, c) \ w.down
           gone == Deep(place, T)
       IN  /\ place' = [x \in Objs |-> IF x \in gone THEN None
                                       ELSE IF x \in w.down THEN room[c] ELSE place[x]]
           /\ wear' = [x \in Objs |-> IF x \in gone \cup w.down THEN "none" ELSE wear[x]]
  /\ room' = [room EXCEPT ![c] = None]
  /\ UNCHANGED <<number, torn>>

\* Any other player's things go only in free_char, when it is in no room: what
\* is left of the walk then stays in object_list, with a carried_by that is
\* stale, and a weapon that should fall down ends the process in obj_to_room.
Free(c, Z) ==
  /\ ~torn
  /\ c \in Present \cap Players
  /\ \E w \in Courses(c, Z) :
       LET gone == Deep(place, w.taken)
       IN  \/ w.down # {} /\ Reboot
           \/ /\ w.down = {}
              /\ place' = [x \in Objs |-> IF x \in gone THEN None
                                          ELSE IF x \in w.left THEN Lost ELSE place[x]]
              /\ wear' = [x \in Objs |-> IF x \in gone \cup w.left THEN "none" ELSE wear[x]]
              /\ room' = [room EXCEPT ![c] = None]
              /\ UNCHANGED <<number, torn>>

-----------------------------------------------------------------------------
Handling(c, o) ==
  \/ Get(c, o) \/ Drop(c, o) \/ Sacrifice(c, o)
  \/ \E k \in Holders : GetFrom(c, o, k) \/ Put(c, o, k)
  \/ \E d \in Chars : Give(c, o, d) \/ Sell(c, o, d) \/ Snatch(c, o, d)

Equipment(c, o, Z) ==
  \/ Wear(c, o, Z) \/ Remove(c, o, Z) \/ ZapWorn(c, o, Z) \/ Consume(c, o, Z)
  \/ \E d \in Chars : Disarm(c, o, d, Z)

Dying(c, Z) ==
  \E D \in SUBSET (Corpses \cap (Carried(place, c) \cup Floor(room[c]))) :
    \/ \E k \in Corpses \cup {None} : Die(c, k, D, Z)
    \/ \E k \in Carcasses \cup {None} : DieMob(c, k, D, Z)

Next ==
  \/ \E c \in Chars, o \in Objs : Handling(c, o)
  \/ \E c \in Chars, r \in Rooms : Enter(c, r) \/ Walk(c, r)
  \/ \E o \in Objs, h \in Rooms \cup Chars : Create(o, h)
  \/ \E k \in Bags, T \in SUBSET Objs : Slice(k, T)
  \/ \E Z \in SUBSET Anti :
       \/ \E c \in Chars, o \in Objs : Equipment(c, o, Z)
       \/ \E o \in Objs : Burst(o, Z) \/ Decay(o, Z)
       \/ \E c \in Chars : \/ RemoveAll(c, Z) \/ Dying(c, Z)
                           \/ Leave(c, Z) \/ Free(c, Z)
  \/ Reboot

Spec == Init /\ [][Next]_vars

-----------------------------------------------------------------------------
(***************************************************************************)
(* Properties.                                                             *)
(***************************************************************************)
TypeOK ==
  /\ place \in [Objs -> Places]
  /\ wear \in [Objs -> {"none", "wield", "second", "float"}]
  /\ \A o \in Objs : \/ wear[o] = "none"
                     \/ o \in Weapons /\ wear[o] # "float"
                     \/ o \in Discs /\ wear[o] = "float"
  /\ number \in [Chars -> Int]
  /\ room \in [Chars -> Rooms \cup {None}]
  /\ torn \in BOOLEAN

\* No container is in itself, however deep, and nothing is in an object or
\* with a character that is gone: whatever decays, bursts, dies or leaves
\* (do_put, extract_obj, make_corpse, free_char), every object can be reached
\* from a room or a character in the world by what it says of its own place.
\* Not so the weapons that free_char leaves in object_list (Lost), and where
\* lists are torn the pointers hold and the lists do not.
Rooted ==
  /\ \A o \in Objs : place[o] \in Objs => place[o] \in Holders /\ place[place[o]] # None
  /\ \A o \in Objs : place[o] \in Chars => place[o] \in Present
  /\ \A S \in SUBSET Holders : (\A h \in S : place[h] \in S) => S = {}

\* What is worn is on its owner, one thing in each place, and a secondary
\* weapon only beside a primary one, whichever way that comes off: removed,
\* disarmed, stolen, shattered, zapped or dropped, and wherever the walk over
\* what somebody carries is led by it (unequip_char, equip_char, make_corpse,
\* extract_char).
HandsRight ==
  /\ \A o \in Objs : wear[o] # "none" => place[o] \in Present
  /\ \A c \in Present :
       /\ \A o, q \in Carried(place, c) : wear[o] = wear[q] /\ wear[o] # "none" => o = q
       /\ Worn(c, "second") # {} => Worn(c, "wield") # {}

\* carry_number, which every move adds to or takes from, is the number of what
\* is carried, at any depth (obj_to_char, obj_from_char, obj_to_obj,
\* obj_from_obj, get_obj_number).  So too when make_corpse has walked on into
\* the room's list and left the dead with the rest.
NumberRight ==
  \A c \in Present :
    number[c] = NumberOf(place, Carried(place, c))

(***************************************************************************)
(* What the help says and the code does not do.                            *)
(***************************************************************************)

\* help death: "Your corpse is left behind in the room where you were killed,
\* together with all of your equipment": nothing stays with who died.
CorpseHasAll ==
  [][\A c \in Players, k \in Corpses :
       c \in Present /\ place[k] = None /\ place'[k] = room[c] => Carried(place', c) = {}]_vars
=============================================================================
