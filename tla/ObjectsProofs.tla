---------------------------- MODULE ObjectsProofs ----------------------------
(***************************************************************************)
(* Proofs that, however many there are of them, objects are never lost in  *)
(* one another or with a character that is gone, that what is worn is worn *)
(* rightly, and that the number each character carries, which is only ever *)
(* added to and taken from, is the number of what it carries.              *)
(*                                                                         *)
(* Tree and Outfit are stated of a state as the building blocks pass it on,*)
(* a record s, and of where the characters are; each block is shown to     *)
(* keep them, and an action is a composition of blocks.  Tallied, of the   *)
(* numbers, is shown in the same way, once what is at a place, at any      *)
(* depth, is known to be one set that moves with what it is in.            *)
(***************************************************************************)
EXTENDS Objects, SumTheorems

Locs == {"none", "wield", "second", "float"}
Spots(r) == Rooms \cup {c \in Chars : r[c] # None}

\* A record of place, wear and number.
Rec(s) == s = [place |-> s.place, wear |-> s.wear, number |-> s.number]

IsState(s) ==
  /\ Rec(s)
  /\ s.place \in [Objs -> Places]
  /\ s.wear \in [Objs -> Locs]

\* A set of containers in which each is in one of the set.
Closed(S, p) == \A h \in S : p[h] \in S

Tree(p, r) ==
  /\ \A o \in Objs : p[o] \in Objs => p[o] \in Holders /\ p[p[o]] # None
  /\ \A o \in Objs : p[o] \in Chars => p[o] \in Spots(r)
  /\ \A S \in SUBSET Holders : Closed(S, p) => S = {}

Fitting(w) ==
  \A o \in Objs : \/ w[o] = "none"
                  \/ o \in Weapons /\ w[o] # "float"
                  \/ o \in Discs /\ w[o] = "float"

\* Only who can fight with two weapons has a second one (Wield).
Outfit(p, w) ==
  /\ Fitting(w)
  /\ \A o \in Objs : w[o] # "none" => p[o] \in Chars
  /\ \A o, q \in Objs : p[o] = p[q] /\ w[o] = w[q] /\ w[o] # "none" => o = q
  /\ \A q \in Objs : w[q] = "second" =>
       p[q] \in Dual /\ \E o \in Objs : p[o] = p[q] /\ w[o] = "wield"

Sound(s, r) == IsState(s) /\ Tree(s.place, r) /\ Outfit(s.place, s.wear)

Inv ==
  /\ room \in [Chars -> Rooms \cup {None}]
  /\ torn \in BOOLEAN
  /\ Sound(now, room)

-----------------------------------------------------------------------------
(***************************************************************************)
(* Trees.                                                                  *)
(***************************************************************************)

\* Whatever changes its place comes to a room or a character in the world, or
\* into a container that is at such a place then, or is lost.
LEMMA TreeMoves ==
  ASSUME NEW p \in [Objs -> Places], NEW r, Tree(p, r),
         NEW q \in [Objs -> Places],
         \A x \in Objs : \/ q[x] = p[x] \/ q[x] \in Spots(r) \/ q[x] = Lost
                         \/ q[x] \in Holders /\ q[q[x]] \in Spots(r)
  PROVE  Tree(q, r)
<1>1. Spots(r) \cap Objs = {} /\ None \notin Spots(r) /\ Holders \subseteq Objs
      /\ Chars \cap Rooms = {} /\ Chars \cap Objs = {}
      /\ Lost \notin Objs /\ Lost \notin Chars /\ Lost # None
  BY ObjectsAssumption DEF Spots, Objs
<1>2. ASSUME NEW x \in Objs, q[x] \in Objs PROVE q[x] \in Holders /\ q[q[x]] # None
  <2>1. CASE q[x] = p[x]
    <3>1. p[x] \in Holders /\ p[p[x]] # None
      BY <1>2, <2>1 DEF Tree
    <3>2. q[p[x]] = p[p[x]] \/ q[p[x]] \in Spots(r) \/ q[p[x]] = Lost \/ q[p[x]] \in Holders
      BY <1>1, <3>1
    <3>3. None \notin Holders
      BY <1>1, ObjectsAssumption
    <3> QED
      BY <1>1, <2>1, <3>1, <3>2, <3>3
  <2> QED
    BY <1>1, <1>2, <2>1
<1>3. ASSUME NEW x \in Objs, q[x] \in Chars PROVE q[x] \in Spots(r)
  BY <1>1, <1>3 DEF Tree
<1>4. ASSUME NEW S \in SUBSET Holders, Closed(S, q) PROVE S = {}
  <2>1. \A h \in S : q[h] = p[h]
    BY <1>1, <1>4 DEF Closed
  <2> QED
    BY <1>4, <2>1 DEF Closed, Tree
<1> QED
  BY <1>2, <1>3, <1>4 DEF Tree

\* Objects vanish with all that is in them.
LEMMA TreeVanish ==
  ASSUME NEW p \in [Objs -> Places], NEW r, Tree(p, r), NEW D,
         \A x \in Objs : p[x] \in D => x \in D,
         NEW q, q = [x \in Objs |-> IF x \in D THEN None ELSE p[x]]
  PROVE  q \in [Objs -> Places] /\ Tree(q, r)
<1>1. Holders \subseteq Objs /\ None \notin Objs /\ None \notin Chars
  BY ObjectsAssumption DEF Objs
<1>2. q \in [Objs -> Places]
  BY DEF Places
<1>3. ASSUME NEW x \in Objs, q[x] \in Objs PROVE q[x] \in Holders /\ q[q[x]] # None
  <2>1. x \notin D /\ q[x] = p[x] /\ p[x] \notin D
    BY <1>1, <1>3
  <2> QED
    BY <1>1, <1>3, <2>1 DEF Tree
<1>4. ASSUME NEW x \in Objs, q[x] \in Chars PROVE q[x] \in Spots(r)
  BY <1>1, <1>4 DEF Tree
<1>5. ASSUME NEW S \in SUBSET Holders, Closed(S, q) PROVE S = {}
  <2>1. \A h \in S : q[h] = p[h]
    BY <1>1, <1>5 DEF Closed
  <2> QED
    BY <1>5, <2>1 DEF Closed, Tree
<1> QED
  BY <1>2, <1>3, <1>4, <1>5 DEF Tree

\* What is in a container comes to where that is.
LEMMA TreeSpills ==
  ASSUME NEW p \in [Objs -> Places], NEW r, Tree(p, r),
         NEW o \in Objs, p[o] \in Objs,
         NEW q, q = [x \in Objs |-> IF x \in Carried(p, o) THEN p[o] ELSE p[x]]
  PROVE  q \in [Objs -> Places] /\ Tree(q, r)
<1>1. Holders \subseteq Objs /\ None \notin Objs /\ Chars \cap Objs = {}
  BY ObjectsAssumption DEF Objs
<1>2. p[o] \in Holders /\ p[p[o]] # None
  BY DEF Tree
<1>3. p[o] # o
  <2>1. p[o] = o => Closed({o}, p) /\ {o} \in SUBSET Holders
    BY <1>2 DEF Closed
  <2> QED
    BY <2>1 DEF Tree
<1>4. p[p[o]] # o
  <2>1. p[p[o]] = o => Closed({o, p[o]}, p) /\ {o, p[o]} \in SUBSET Holders
    <3>1. p[p[o]] = o => o \in Holders
      BY <1>1, <1>2 DEF Tree
    <3> QED
      BY <1>2, <3>1 DEF Closed
  <2> QED
    BY <2>1 DEF Tree
<1>5. \A x \in Objs : q[x] = IF p[x] = o THEN p[o] ELSE p[x]
  BY DEF Carried
<1>6. q \in [Objs -> Places]
  BY <1>5
<1>7. ASSUME NEW x \in Objs, q[x] \in Objs PROVE q[x] \in Holders /\ q[q[x]] # None
  BY <1>1, <1>2, <1>3, <1>4, <1>5, <1>7 DEF Tree
<1>8. ASSUME NEW x \in Objs, q[x] \in Chars PROVE q[x] \in Spots(r)
  BY <1>1, <1>5, <1>8 DEF Tree
<1>9. ASSUME NEW S \in SUBSET Holders, Closed(S, q) PROVE S = {}
  <2>1. CASE \E h \in S : p[h] = o
    <3>1. p[o] \in S /\ o \in Holders
      BY <1>1, <1>5, <1>9, <2>1 DEF Closed, Tree
    <3>2. Closed(S \cup {o}, p) /\ S \cup {o} \in SUBSET Holders
      BY <1>1, <1>5, <1>9, <3>1 DEF Closed
    <3> QED
      BY <3>2 DEF Tree
  <2>2. CASE \A h \in S : p[h] # o
    BY <1>1, <1>5, <1>9, <2>2 DEF Closed, Tree
  <2> QED
    BY <2>1, <2>2
<1> QED
  BY <1>6, <1>7, <1>8, <1>9 DEF Tree

\* What is below a container is closed downwards, and is in containers.
LEMMA BelowClosed ==
  ASSUME NEW p \in [Objs -> Places], NEW r, Tree(p, r), NEW k \in Holders
  PROVE  /\ Below(p, k) \subseteq Objs
         /\ \A x \in Objs : p[x] \in {k} \cup Below(p, k) => x \in Below(p, k)
         /\ \A x \in Below(p, k) : p[x] \in Holders
<1>1. Holders \subseteq Objs
  BY DEF Objs
<1>2. ASSUME NEW x \in Objs, p[x] = k PROVE x \in Below(p, k)
  BY <1>2 DEF Below
<1>3. ASSUME NEW x \in Objs, p[x] \in Below(p, k) PROVE x \in Below(p, k)
  <2>1. p[x] \in Holders /\ p[x] \in Objs
    BY <1>3 DEF Below, Tree
  <2> SUFFICES ASSUME NEW S \in SUBSET Holders, k \in S,
                      \A h \in Holders : p[h] \in S => h \in S
               PROVE  p[x] \in S
    BY DEF Below
  <2>2. p[p[x]] \in S
    BY <1>3 DEF Below
  <2> QED
    BY <2>1, <2>2
<1>4. \A x \in Below(p, k) : p[x] \in Holders
  BY DEF Below
<1> QED
  BY <1>2, <1>3, <1>4 DEF Below

-----------------------------------------------------------------------------
(***************************************************************************)
(* Outfits.                                                                *)
(***************************************************************************)

\* Only what is not worn changes its place.
LEMMA OutfitMoves ==
  ASSUME NEW p, NEW w, Outfit(p, w), NEW q,
         \A x \in Objs : q[x] = p[x] \/ w[x] = "none"
  PROVE  Outfit(q, w)
<1>1. \A x \in Objs : w[x] # "none" => q[x] = p[x]
  OBVIOUS
<1>2. \A x \in Objs : w[x] \in {"second", "wield"} => w[x] # "none"
  OBVIOUS
<1> QED
  BY <1>1, <1>2 DEF Outfit

\* All in T come off, with the second weapons beside them.
LEMMA OutfitOff ==
  ASSUME NEW p, NEW w \in [Objs -> Locs], Outfit(p, w), NEW T,
         \A x \in T, q \in Objs : x \in Objs /\ w[x] = "wield" /\ w[q] = "second" /\ p[x] = p[q] => q \in T,
         NEW v, v = [x \in Objs |-> IF x \in T THEN "none" ELSE w[x]]
  PROVE  v \in [Objs -> Locs] /\ Outfit(p, v)
<1>1. \A x \in Objs : v[x] # "none" => x \notin T /\ v[x] = w[x]
  OBVIOUS
<1>2. \A q \in Objs : v[q] = "second" =>
        p[q] \in Dual /\ \E x \in Objs : p[x] = p[q] /\ v[x] = "wield"
  BY <1>1 DEF Outfit
<1>3. \A x, q \in Objs : p[x] = p[q] /\ v[x] = v[q] /\ v[x] # "none" => x = q
  BY <1>1 DEF Outfit
<1>4. Fitting(v) /\ \A x \in Objs : v[x] # "none" => p[x] \in Chars
  BY <1>1 DEF Outfit, Fitting
<1> QED
  BY <1>2, <1>3, <1>4 DEF Outfit, Locs

\* Something is put on in a place that is free.
LEMMA OutfitOn ==
  ASSUME NEW p, NEW w \in [Objs -> Locs], Outfit(p, w),
         NEW o \in Objs, w[o] = "none", p[o] \in Chars, NEW loc \in Locs \ {"none"},
         (o \in Weapons /\ loc # "float") \/ (o \in Discs /\ loc = "float"),
         \A x \in Objs : p[x] = p[o] => w[x] # loc,
         loc = "second" => p[o] \in Dual /\ \E x \in Objs : p[x] = p[o] /\ w[x] = "wield",
         NEW v, v = [w EXCEPT ![o] = loc]
  PROVE  v \in [Objs -> Locs] /\ Outfit(p, v)
<1>1. \A x \in Objs : v[x] = IF x = o THEN loc ELSE w[x]
  OBVIOUS
<1>2. \A q \in Objs : v[q] = "second" =>
        p[q] \in Dual /\ \E x \in Objs : p[x] = p[q] /\ v[x] = "wield"
  BY <1>1 DEF Outfit
<1>3. \A x, q \in Objs : p[x] = p[q] /\ v[x] = v[q] /\ v[x] # "none" => x = q
  BY <1>1 DEF Outfit
<1>4. Fitting(v) /\ \A x \in Objs : v[x] # "none" => p[x] \in Chars
  BY <1>1 DEF Outfit, Fitting
<1> QED
  BY <1>2, <1>3, <1>4 DEF Outfit, Locs

-----------------------------------------------------------------------------
(***************************************************************************)
(* The building blocks.                                                    *)
(***************************************************************************)

\* t is what s becomes when o is put at h.
Put1(t, s, o, h) ==
  Rec(t) /\ t.place = [s.place EXCEPT ![o] = h] /\ t.wear = s.wear

LEMMA ToShape ==
  ASSUME NEW s, Rec(s), NEW o, NEW h
  PROVE  /\ Put1(ToChar(s, o, h), s, o, h)
         /\ Put1(ToRoom(s, o, h), s, o, h)
         /\ Put1(ToObj(s, o, h), s, o, h)
         /\ Put1(FromObj(s, o), s, o, None)
<1>1. Put1(ToRoom(s, o, h), s, o, h)
  BY DEF ToRoom, Rec, Put1
<1>2. Put1(ToChar(s, o, h), s, o, h) /\ Put1(ToObj(s, o, h), s, o, h)
  BY DEF ToChar, ToObj, Rec, Put1
<1>3. Put1(FromObj(s, o), s, o, None)
  BY DEF FromObj, Rec, Put1
<1> QED
  BY <1>1, <1>2, <1>3

LEMMA OffShape ==
  ASSUME NEW s, NEW o
  PROVE  /\ Rec(OffList(s, o))
         /\ OffList(s, o).place = [s.place EXCEPT ![o] = None]
         /\ OffList(s, o).wear = [s.wear EXCEPT ![o] = "none"]
BY DEF OffList, Rec

\* o, which is not worn, is put somewhere.
LEMMA Placed ==
  ASSUME NEW s, NEW r, Sound(s, r), NEW o \in Objs, s.wear[o] = "none",
         NEW h, h \in Spots(r) \/ (h \in Holders /\ h # o /\ s.place[h] \in Spots(r)),
         NEW t, Put1(t, s, o, h)
  PROVE  Sound(t, r)
<1>1. h \in Places
  BY DEF Spots, Places, Objs
<1>0. Rec(t) /\ t.place = [s.place EXCEPT ![o] = h] /\ t.wear = s.wear
  BY DEF Put1
<1>2. t.place \in [Objs -> Places] /\ t.wear \in [Objs -> Locs]
  BY <1>0, <1>1 DEF Sound, IsState
<1>3. Tree(t.place, r)
  BY <1>0, <1>2, TreeMoves DEF Sound, IsState, Objs
<1>4. Outfit(t.place, t.wear)
  BY <1>0, OutfitMoves DEF Sound, IsState
<1> QED
  BY <1>0, <1>2, <1>3, <1>4 DEF Sound, IsState

\* A character that carries something is in a room.
LEMMA CarrierSomewhere ==
  ASSUME NEW s, room \in [Chars -> Rooms \cup {None}], Sound(s, room),
         NEW o \in Objs, s.place[o] \in Chars
  PROVE  room[s.place[o]] \in Rooms /\ s.place[o] \in Spots(room)
BY ObjectsAssumption DEF Sound, Tree, Spots

\* Something comes off and nothing is done about what is beside it.
LEMMA TakenOff ==
  ASSUME NEW s, NEW r, Sound(s, r), NEW o \in Objs,
         \A q \in Objs : ~(s.wear[o] = "wield" /\ s.wear[q] = "second" /\ s.place[q] = s.place[o]),
         NEW t, Rec(t), t.place = s.place, t.wear = [s.wear EXCEPT ![o] = "none"]
  PROVE  Sound(t, r)
<1> DEFINE T == {o}
<1>1. t.wear = [x \in Objs |-> IF x \in T THEN "none" ELSE s.wear[x]]
  BY DEF Sound, IsState
<1>2. \A x \in T, q \in Objs : x \in Objs /\ s.wear[x] = "wield" /\ s.wear[q] = "second"
          /\ s.place[x] = s.place[q] => q \in T
  OBVIOUS
<1>3. s.wear \in [Objs -> Locs] /\ Outfit(s.place, s.wear)
  BY DEF Sound, IsState
<1> HIDE DEF T
<1>4. t.wear \in [Objs -> Locs] /\ Outfit(s.place, t.wear)
  BY <1>1, <1>2, <1>3, OutfitOff
<1> QED
  BY <1>4 DEF Sound, IsState

\* equip_char, in a place that is free.
LEMMA EquipSound ==
  ASSUME NEW s, room \in [Chars -> Rooms \cup {None}], Sound(s, room),
         NEW o \in Objs, s.wear[o] = "none", s.place[o] \in Chars,
         NEW loc \in Locs \ {"none"},
         (o \in Weapons /\ loc # "float") \/ (o \in Discs /\ loc = "float"),
         \A x \in Objs : s.place[x] = s.place[o] => s.wear[x] # loc,
         loc = "second" => s.place[o] \in Dual /\ \E x \in Objs : s.place[x] = s.place[o] /\ s.wear[x] = "wield",
         NEW Z
  PROVE  Sound(Equip(s, o, loc, Z), room)
<1>1. CASE o \in Z
  <2> DEFINE f == OffList(s, o)
             h == room[s.place[o]]
  <2>1. h \in Spots(room)
    BY CarrierSomewhere DEF Spots
  <2>2. Rec(f) /\ f.place = [s.place EXCEPT ![o] = None] /\ f.wear = [s.wear EXCEPT ![o] = "none"]
    BY OffShape
  <2>5. Equip(s, o, loc, Z) = ToRoom(f, o, h)
    BY <1>1 DEF Equip
  <2> HIDE DEF f, h
  <2>3. Put1(ToRoom(f, o, h), f, o, h)
    BY <2>2, ToShape
  <2>4. [f.place EXCEPT ![o] = h] = [s.place EXCEPT ![o] = h]
    BY <2>2 DEF Sound, IsState
  <2>6. f.wear = s.wear
    BY <2>2 DEF Sound, IsState
  <2>7. Put1(ToRoom(f, o, h), s, o, h)
    BY <2>3, <2>4, <2>6 DEF Put1
  <2> QED
    BY <2>1, <2>5, <2>7, Placed
<1>2. CASE o \notin Z
  <2> DEFINE t == [s EXCEPT !.wear[o] = loc]
  <2>1. Equip(s, o, loc, Z) = t
    BY <1>2 DEF Equip
  <2>2. Rec(t) /\ t.place = s.place /\ t.wear = [s.wear EXCEPT ![o] = loc]
    BY DEF Sound, IsState, Rec
  <2> HIDE DEF t
  <2>3. t.wear \in [Objs -> Locs] /\ Outfit(s.place, t.wear)
    <3>1. s.wear \in [Objs -> Locs] /\ Outfit(s.place, s.wear)
      BY DEF Sound, IsState
    <3> QED
      BY <2>2, <3>1, OutfitOn
  <2> QED
    BY <2>1, <2>2, <2>3 DEF Sound, IsState
<1> QED
  BY <1>1, <1>2

\* In u, o is off and where it was in s, and nothing else moves but a second
\* weapon that falls.
Off(u, s, o) ==
  /\ Sound(u, room)
  /\ u.wear[o] = "none" /\ u.place[o] = s.place[o]
  /\ \A x \in Objs : \/ u.place[x] = s.place[x]
                     \/ x \in Weapons /\ s.place[x] = s.place[o] /\ u.place[x] \in Rooms
  /\ (\A q \in Objs : ~(s.wear[q] = "second" /\ s.place[q] = s.place[o])) \/ s.wear[o] # "wield"
       => u.place = s.place /\ u.wear = [s.wear EXCEPT ![o] = "none"]

\* unequip_char
LEMMA UnequipSound ==
  ASSUME NEW s, room \in [Chars -> Rooms \cup {None}], Sound(s, room),
         NEW o \in Objs, s.place[o] \in Chars, s.wear[o] # "none", NEW Z
  PROVE  Off(Unequip(s, o, Z), s, o)
<1> DEFINE t == [s EXCEPT !.wear[o] = "none"]
           c == s.place[o]
           Q == Second(s, c)
           u == Unequip(s, o, Z)
<1>1. Rec(t) /\ t.place = s.place /\ t.wear = [s.wear EXCEPT ![o] = "none"]
  BY DEF Sound, IsState, Rec
<1>2. Q = {q \in Objs : s.place[q] = c /\ s.wear[q] = "second"}
  BY DEF Second, Carried
<1>3. t.wear[o] = "none" /\ \A x \in Objs : x # o => t.wear[x] = s.wear[x]
  BY <1>1 DEF Sound, IsState
<1>4. CASE s.wear[o] = "wield" /\ Q # {}
  <2> DEFINE q == CHOOSE x \in Q : TRUE
  <2>1. u = Equip(t, q, "wield", Z)
    BY <1>4 DEF Unequip
  <2>2. q \in Objs /\ s.place[q] = c /\ s.wear[q] = "second" /\ q # o
    BY <1>2, <1>4
  <2> HIDE DEF q, t, Q, u
  \* Both come off, and the second one goes on.
  <2> DEFINE T == {o, q}
             b == [s EXCEPT !.wear = [x \in Objs |-> IF x \in T THEN "none" ELSE @[x]]]
  <2>3. Rec(b) /\ b.place = s.place
        /\ b.wear = [x \in Objs |-> IF x \in T THEN "none" ELSE s.wear[x]]
    BY DEF Sound, IsState, Rec
  <2>4. \A x \in T, y \in Objs : x \in Objs /\ s.wear[x] = "wield" /\ s.wear[y] = "second"
          /\ s.place[x] = s.place[y] => y \in T
    BY <2>2 DEF Sound, Outfit
  <2>5. b.wear[o] = "none" /\ b.wear[q] = "none" /\ \A x \in Objs \ T : b.wear[x] = s.wear[x]
    BY <2>2, <2>3
  <2>6. Weapons \subseteq Objs /\ q \in Weapons /\ s.wear \in [Objs -> Locs]
        /\ Outfit(s.place, s.wear)
    BY <2>2 DEF Objs, Sound, Outfit, Fitting, IsState
  <2>11. \A x \in Objs : x \in T <=> x \in {o, q}
    OBVIOUS
  <2> HIDE DEF b, T
  <2>7. b.wear \in [Objs -> Locs] /\ Outfit(s.place, b.wear)
    BY <2>3, <2>4, <2>6, OutfitOff
  <2>8. Sound(b, room)
    BY <2>3, <2>7 DEF Sound, IsState
  <2>9. \A x \in Objs : b.place[x] = b.place[q] => b.wear[x] # "wield"
    <3> SUFFICES ASSUME NEW x \in Objs, s.place[x] = c, b.wear[x] = "wield" PROVE FALSE
      BY <2>2, <2>3
    <3>1. x \notin T /\ s.wear[x] = "wield"
      BY <2>3
    <3>2. x = o
      BY <1>4, <3>1, <2>6 DEF Outfit
    <3> QED
      BY <3>1, <3>2, <2>11
  <2>10. CASE q \in Z
    <3> DEFINE f == OffList(t, q)
               h == room[c]
    <3>1. u = ToRoom(f, q, h)
      BY <2>1, <2>2, <2>10, <1>1 DEF Equip
    <3>11. Rec(f) /\ f.place = [t.place EXCEPT ![q] = None] /\ f.wear = [t.wear EXCEPT ![q] = "none"]
      BY OffShape
    <3>2. Rec(f) /\ f.place = [s.place EXCEPT ![q] = None] /\ f.wear = [t.wear EXCEPT ![q] = "none"]
      BY <1>1, <3>11
    <3>3. h \in Rooms /\ h \in Spots(room)
      BY CarrierSomewhere DEF Spots
    <3> HIDE DEF f, h
    <3>4. Put1(u, f, q, h)
      BY <3>1, <3>2, ToShape
    <3>5. f.wear = b.wear
      BY <1>1, <1>3, <2>2, <2>3, <2>11, <3>2 DEF Sound, IsState
    <3>6. [f.place EXCEPT ![q] = h] = [b.place EXCEPT ![q] = h]
      BY <2>3, <3>2 DEF Sound, IsState
    <3>7. Put1(u, b, q, h)
      BY <3>4, <3>5, <3>6 DEF Put1
    <3>8. Sound(u, room)
      BY <2>2, <2>5, <2>8, <3>3, <3>7, Placed
    <3>9. u.place = [s.place EXCEPT ![q] = h] /\ u.wear = b.wear
      BY <2>3, <3>7 DEF Put1
    <3>10. /\ u.place[o] = s.place[o] /\ u.wear[o] = "none"
           /\ \A x \in Objs : u.place[x] = s.place[x] \/ (x = q /\ u.place[x] = h)
      BY <2>2, <2>5, <3>9 DEF Sound, IsState
    <3> QED
      BY <1>2, <1>4, <2>2, <2>6, <3>3, <3>8, <3>10 DEF u, Off
  <2>12. CASE q \notin Z
    <3>1. u = [t EXCEPT !.wear[q] = "wield"]
      BY <2>1, <2>12 DEF Equip
    <3>2. Rec(u) /\ u.place = s.place /\ u.wear = [t.wear EXCEPT ![q] = "wield"]
      BY <1>1, <3>1 DEF Rec
    <3>3. u.wear = [b.wear EXCEPT ![q] = "wield"]
      BY <1>1, <1>3, <2>2, <2>3, <2>11, <3>2 DEF Sound, IsState
    <3>4. u.wear \in [Objs -> Locs] /\ Outfit(s.place, u.wear)
      <4>1. "wield" \in Locs \ {"none"} /\ "wield" # "second"
        BY DEF Locs
      <4> QED
        BY <4>1, <2>2, <2>3, <2>5, <2>6, <2>7, <2>9, <3>3, OutfitOn
    <3>5. Sound(u, room)
      BY <3>2, <3>4 DEF Sound, IsState
    <3>6. u.wear[o] = "none"
      BY <1>3, <2>2, <3>2
    <3> QED
      BY <1>2, <1>4, <2>2, <3>2, <3>5, <3>6 DEF u, Off
  <2> QED
    BY <2>10, <2>12
<1>5. CASE ~(s.wear[o] = "wield" /\ Q # {})
  <2>1. u = t
    BY <1>5 DEF Unequip
  <2>2. \A q \in Objs : ~(s.wear[o] = "wield" /\ s.wear[q] = "second" /\ s.place[q] = s.place[o])
    BY <1>2, <1>5
  <2> HIDE DEF t, Q, u
  <2>3. Sound(t, room)
    BY <1>1, <2>2, TakenOff
  <2> QED
    BY <1>1, <1>3, <2>1, <2>3 DEF u, Off
<1> QED
  BY <1>4, <1>5

\* u is s with o off, and perhaps a second weapon beside it fallen.
Base(u, s, o) ==
  /\ Sound(u, room) /\ u.wear[o] = "none" /\ u.place[o] = s.place[o]
  /\ \A x \in Objs : \/ u.place[x] = s.place[x]
                     \/ s.place[x] \in Chars /\ u.place[x] \in Rooms

\* obj_from_char
LEMMA FromCharBase ==
  ASSUME NEW s, room \in [Chars -> Rooms \cup {None}], Sound(s, room),
         NEW o \in Objs, s.place[o] \in Chars, NEW Z
  PROVE  \E u : Base(u, s, o) /\ FromChar(s, o, Z) = OffList(u, o)
<1>1. CASE s.wear[o] = "none"
  BY <1>1 DEF FromChar, Base
<1>2. CASE s.wear[o] # "none"
  <2> DEFINE u == Unequip(s, o, Z)
  <2>1. FromChar(s, o, Z) = OffList(u, o)
    BY <1>2 DEF FromChar
  <2>2. Off(u, s, o)
    BY <1>2, UnequipSound
  <2> HIDE DEF u
  <2>3. Base(u, s, o)
    BY <2>2 DEF Base, Off
  <2> QED
    BY <2>1, <2>3
<1> QED
  BY <1>1, <1>2

\* obj_from_char, and to a room or to a character.
LEMMA Handed ==
  ASSUME NEW s, room \in [Chars -> Rooms \cup {None}], Sound(s, room),
         NEW o \in Objs, s.place[o] \in Chars, NEW Z,
         NEW h \in Spots(room), NEW t, Put1(t, FromChar(s, o, Z), o, h)
  PROVE  Sound(t, room)
<1>1. PICK u : Base(u, s, o) /\ FromChar(s, o, Z) = OffList(u, o)
  BY FromCharBase
<1>2. Sound(u, room) /\ u.wear[o] = "none"
  BY <1>1 DEF Base
<1>3. OffList(u, o).place = [u.place EXCEPT ![o] = None]
      /\ OffList(u, o).wear = [u.wear EXCEPT ![o] = "none"]
  BY OffShape
<1>4. [[u.place EXCEPT ![o] = None] EXCEPT ![o] = h] = [u.place EXCEPT ![o] = h]
      /\ [u.wear EXCEPT ![o] = "none"] = u.wear
  BY <1>2 DEF Sound, IsState
<1>5. Put1(t, u, o, h)
  BY <1>1, <1>3, <1>4 DEF Put1
<1> QED
  BY <1>2, <1>5, Placed

\* obj_from_char and obj_to_obj, which do_put does with what is not worn.
LEMMA Stowed ==
  ASSUME NEW s, NEW r, Sound(s, r),
         NEW o \in Objs, s.place[o] \in Chars, s.wear[o] = "none", NEW Z,
         NEW k \in Holders, k # o, s.place[k] \in Spots(r),
         NEW t, Put1(t, FromChar(s, o, Z), o, k)
  PROVE  Sound(t, r)
<1>1. FromChar(s, o, Z) = OffList(s, o)
  BY DEF FromChar
<1>2. OffList(s, o).place = [s.place EXCEPT ![o] = None]
      /\ OffList(s, o).wear = [s.wear EXCEPT ![o] = "none"]
  BY OffShape
<1>3. [[s.place EXCEPT ![o] = None] EXCEPT ![o] = k] = [s.place EXCEPT ![o] = k]
      /\ [s.wear EXCEPT ![o] = "none"] = s.wear
  BY DEF Sound, IsState
<1>4. Put1(t, s, o, k)
  BY <1>1, <1>2, <1>3 DEF Put1
<1> QED
  BY <1>4, Placed

\* In e, o is no more, and nothing is with somebody that was not before.
Gone(e, s, o) ==
  /\ Sound(e, room)
  /\ e.place[o] = None
  /\ \A x \in Objs : e.place[x] \in Chars => e.place[x] = s.place[x]

\* extract_obj
LEMMA ExtractSound ==
  ASSUME NEW s, room \in [Chars -> Rooms \cup {None}], Sound(s, room),
         NEW o \in Objs, NEW Z
  PROVE  Gone(Extract(s, o, Z), s, o)
<1> DEFINE D == {o} \cup (IF o \in Holders THEN Below(s.place, o) ELSE {})
           t == From(s, o, Z)
           e == Extract(s, o, Z)
<1>1. Holders \subseteq Objs /\ Chars \cap Objs = {} /\ Rooms \cap Objs = {}
      /\ Chars \cap Rooms = {} /\ None \notin Chars
  BY ObjectsAssumption DEF Objs
<1>2. s.place \in [Objs -> Places] /\ Tree(s.place, room) /\ Outfit(s.place, s.wear) /\ Rec(s)
      /\ s.wear \in [Objs -> Locs]
  BY DEF Sound, IsState
<1>3. \E u : /\ Base(u, s, o) /\ Rec(t)
             /\ t.place = [u.place EXCEPT ![o] = None] /\ t.wear = u.wear
  <2>1. CASE s.place[o] \in Chars
    <3>1. PICK u : Base(u, s, o) /\ FromChar(s, o, Z) = OffList(u, o)
      BY <2>1, FromCharBase
    <3>2. t = OffList(u, o)
      BY <2>1, <3>1 DEF From
    <3> HIDE DEF t
    <3>3. Rec(OffList(u, o)) /\ OffList(u, o).place = [u.place EXCEPT ![o] = None]
          /\ OffList(u, o).wear = [u.wear EXCEPT ![o] = "none"]
      BY OffShape
    <3>4. [u.wear EXCEPT ![o] = "none"] = u.wear
      BY <3>1 DEF Base, Sound, IsState
    <3> QED
      BY <3>1, <3>2, <3>3, <3>4
  <2>2. CASE s.place[o] \notin Chars
    <3>1. Base(s, s, o)
      BY <1>2, <2>2 DEF Base, Outfit
    <3>2. t = FromObj(s, o) \/ t = ToRoom(s, o, None)
      BY <2>2 DEF From
    <3>3. Put1(t, s, o, None)
      BY <1>2, <3>2, ToShape
    <3> QED
      BY <3>1, <3>3 DEF Put1
  <2> QED
    BY <2>1, <2>2
<1>4. PICK u : /\ Base(u, s, o) /\ Rec(t)
               /\ t.place = [u.place EXCEPT ![o] = None] /\ t.wear = u.wear
  BY <1>3
<1>5. e = [t EXCEPT !.place = [x \in Objs |-> IF x \in D THEN None ELSE t.place[x]]]
  BY DEF Extract
<1>6. o \in D
  OBVIOUS
<1>7. /\ D \subseteq Objs
      /\ \A x \in Objs : s.place[x] \in D => x \in D
      /\ \A x \in D : x = o \/ s.place[x] \in Holders
  <2>1. \A x \in Objs : s.place[x] \in Objs => s.place[x] \in Holders
    BY <1>2 DEF Tree
  <2>2. CASE o \in Holders
    BY <1>1, <1>2, <2>2, BelowClosed
  <2>3. CASE o \notin Holders
    BY <2>1, <2>3
  <2> QED
    BY <2>2, <2>3
<1> HIDE DEF D, t, e
<1>8. /\ u.place \in [Objs -> Places] /\ u.wear \in [Objs -> Locs]
      /\ Tree(u.place, room) /\ Outfit(u.place, u.wear)
      /\ u.wear[o] = "none" /\ u.place[o] = s.place[o]
      /\ \A x \in Objs : \/ u.place[x] = s.place[x]
                         \/ s.place[x] \in Chars /\ u.place[x] \in Rooms
  BY <1>4 DEF Base, Sound, IsState
<1>9. Rec(e) /\ e.wear = u.wear /\ e.place = [x \in Objs |-> IF x \in D THEN None ELSE u.place[x]]
  BY <1>4, <1>5, <1>6, <1>8 DEF Rec
<1>10. \A x \in Objs : u.place[x] \in D => x \in D
  BY <1>1, <1>7, <1>8
<1>11. e.place \in [Objs -> Places] /\ Tree(e.place, room)
  <2> DEFINE p == u.place
             q == e.place
  <2>1. /\ p \in [Objs -> Places] /\ Tree(p, room) /\ \A x \in Objs : p[x] \in D => x \in D
        /\ q = [x \in Objs |-> IF x \in D THEN None ELSE p[x]]
    BY <1>8, <1>9, <1>10
  <2> HIDE DEF p, q
  <2>2. q \in [Objs -> Places] /\ Tree(q, room)
    BY <2>1, TreeVanish
  <2> QED
    BY <2>2 DEF q
<1>12. \A x \in D : u.wear[x] = "none"
  <2> SUFFICES ASSUME NEW x \in Objs, s.place[x] \in Holders PROVE u.wear[x] = "none"
    BY <1>7, <1>8
  <2>1. u.place[x] \notin Chars
    BY <1>1, <1>8
  <2> QED
    BY <1>8, <2>1 DEF Outfit
<1>13. Outfit(e.place, e.wear)
  <2>1. \A x \in Objs : e.place[x] = u.place[x] \/ u.wear[x] = "none"
    BY <1>9, <1>12
  <2> QED
    BY <1>8, <1>9, <2>1, OutfitMoves
<1>14. Sound(e, room)
  BY <1>8, <1>9, <1>11, <1>13 DEF Sound, IsState
<1>15. e.place[o] = None /\ \A x \in Objs : e.place[x] \in Chars => e.place[x] = s.place[x]
  BY <1>1, <1>6, <1>8, <1>9
<1> QED
  BY <1>14, <1>15 DEF e, Gone

-----------------------------------------------------------------------------
(***************************************************************************)
(* The commands.                                                           *)
(***************************************************************************)
LEMMA Put1Twice ==
  ASSUME NEW s, NEW t, NEW u, NEW o, NEW h, NEW k,
         s.place \in [Objs -> Places], Put1(t, s, o, h), Put1(u, t, o, k)
  PROVE  Put1(u, s, o, k)
<1>1. [[s.place EXCEPT ![o] = h] EXCEPT ![o] = k] = [s.place EXCEPT ![o] = k]
  OBVIOUS
<1> QED
  BY <1>1 DEF Put1

LEMMA FromCharRec == ASSUME NEW s, NEW o, NEW Z PROVE Rec(FromChar(s, o, Z))
BY OffShape DEF FromChar

\* From a sound state to the next.
LEMMA GoOn ==
  ASSUME NEW s, Sound(s, room'), NEW t \in BOOLEAN, Goes(s, t),
         room' \in [Chars -> Rooms \cup {None}]
  PROVE  Inv'
<1>1. now' = s /\ torn' = t
  BY DEF Goes, now, Sound, IsState, Rec
<1> QED
  BY <1>1 DEF Inv

LEMMA Keep ==
  ASSUME Inv, NEW s, Sound(s, room'), Becomes(s),
         room' \in [Chars -> Rooms \cup {None}]
  PROVE  Inv'
BY GoOn DEF Becomes

\* Those that carry something are still in the world.
LEMMA Elsewhere ==
  ASSUME NEW s, NEW r, Sound(s, r), NEW q,
         \A o \in Objs : s.place[o] \in Chars => q[s.place[o]] # None
  PROVE  Sound(s, q)
<1>1. Tree(s.place, q)
  <2>1. Tree(s.place, r)
    BY DEF Sound
  <2> QED
    BY <2>1 DEF Tree, Spots
<1> QED
  BY <1>1 DEF Sound

LEMMA NowSound ==
  ASSUME Inv
  PROVE  /\ Sound(now, room) /\ Rec(now) /\ room \in [Chars -> Rooms \cup {None}]
         /\ now.place = place /\ now.wear = wear
         /\ place \in [Objs -> Places] /\ wear \in [Objs -> Locs]
         /\ Tree(place, room) /\ Outfit(place, wear) /\ torn \in BOOLEAN
         /\ \A o \in Objs : place[o] \notin Chars => wear[o] = "none"
BY DEF Inv, Sound, IsState, now, Rec, Outfit

LEMMA PresentSpot ==
  ASSUME Inv
  PROVE  /\ Present \subseteq Chars /\ Present \subseteq Spots(room)
         /\ \A c \in Present : room[c] \in Rooms /\ room[c] \in Spots(room)
         /\ Chars \cap Objs = {} /\ Rooms \cap Objs = {} /\ Chars \cap Rooms = {}
         /\ None \notin Objs \cup Chars \cup Rooms
BY ObjectsAssumption DEF Present, Spots, Inv

LEMMA PickUpStep ==
  ASSUME Inv, NEW c \in Chars, NEW o \in Objs,
         Get(c, o) \/ \E k \in Holders : GetFrom(c, o, k)
  PROVE  Inv'
<1>1. Sound(now, room) /\ Rec(now) /\ now.place = place /\ now.wear = wear
      /\ place \in [Objs -> Places] /\ Outfit(place, wear)
  BY NowSound
<1>2. c \in Spots(room) /\ room' = room /\ room' \in [Chars -> Rooms \cup {None}]
  BY PresentSpot, NowSound DEF Get, GetFrom, Here
<1>3. wear[o] = "none"
  <2>1. place[o] \in Rooms \/ place[o] \in Holders
    BY PresentSpot DEF Get, GetFrom
  <2> QED
    BY <2>1, NowSound, PresentSpot DEF Objs
<1>4. PICK t : Put1(t, now, o, None) /\ Becomes(ToChar(t, o, c))
  BY <1>1, ToShape DEF Get, GetFrom
<1>5. Put1(ToChar(t, o, c), now, o, c)
  <2>1. Rec(t)
    BY <1>4 DEF Put1
  <2>2. Put1(ToChar(t, o, c), t, o, c)
    BY <2>1, ToShape
  <2> QED
    BY <1>1, <1>4, <2>2, Put1Twice
<1>6. Sound(ToChar(t, o, c), room)
  BY <1>1, <1>2, <1>3, <1>5, Placed
<1> QED
  BY <1>2, <1>4, <1>6, Keep

\* Something goes from c to a room or to another character.
LEMMA HandOver ==
  ASSUME Inv, NEW o \in Objs, place[o] \in Present, NEW Z, NEW h \in Spots(room),
         NEW t, t = ToChar(FromChar(now, o, Z), o, h) \/ t = ToRoom(FromChar(now, o, Z), o, h)
  PROVE  Sound(t, room) /\ t.place[o] = h
<1>1. Put1(t, FromChar(now, o, Z), o, h)
  BY FromCharRec, ToShape
<1>2. Sound(t, room)
  BY <1>1, Handed, NowSound, PresentSpot
<1>3. t.place = [FromChar(now, o, Z).place EXCEPT ![o] = h]
  BY <1>1 DEF Put1
<1>4. o \in DOMAIN FromChar(now, o, Z).place
  <2>1. PICK u : Base(u, now, o) /\ FromChar(now, o, Z) = OffList(u, o)
    BY FromCharBase, NowSound, PresentSpot
  <2>2. u.place \in [Objs -> Places]
    BY <2>1 DEF Base, Sound, IsState
  <2> QED
    <3>1. OffList(u, o).place = [u.place EXCEPT ![o] = None]
      BY OffShape
    <3>2. o \in DOMAIN [u.place EXCEPT ![o] = None]
      BY <2>2
    <3> QED
      BY <2>1, <3>1, <3>2
<1> QED
  BY <1>2, <1>3, <1>4

LEMMA GiveStep ==
  ASSUME Inv, NEW c \in Chars, NEW o \in Objs, NEW d \in Chars,
         Give(c, o, d) \/ Snatch(c, o, d)
  PROVE  Inv'
<1> DEFINE t == ToChar(FromChar(now, o, {}), o, d)
<1>1. place[o] \in Present /\ d \in Spots(room) /\ Becomes(t) /\ room' = room
  BY PresentSpot DEF Give, Snatch, InHand
<1>2. Sound(t, room)
  BY <1>1, HandOver
<1> QED
  BY <1>1, <1>2, Keep, NowSound

LEMMA DropStep ==
  ASSUME Inv, NEW c \in Chars, NEW o \in Objs, Drop(c, o)
  PROVE  Inv'
<1> DEFINE t == ToRoom(FromChar(now, o, {}), o, room[c])
<1>1. place[o] \in Present /\ room[c] \in Spots(room) /\ room' = room
      /\ (Becomes(t) \/ Becomes(Extract(t, o, {})))
  BY PresentSpot DEF Drop, InHand
<1>2. Sound(t, room)
  BY <1>1, HandOver
<1> HIDE DEF t
<1>3. Sound(Extract(t, o, {}), room)
  BY <1>2, ExtractSound, NowSound DEF Gone
<1> QED
  BY <1>1, <1>2, <1>3, Keep, NowSound

LEMMA SellStep ==
  ASSUME Inv, NEW c \in Chars, NEW o \in Objs, NEW d \in Chars, Sell(c, o, d)
  PROVE  Inv'
<1> DEFINE t == ToChar(FromChar(now, o, {}), o, d)
           e == Extract(now, o, {})
<1>1. place[o] \in Present /\ d \in Spots(room) /\ room' = room
      /\ (Becomes(t) \/ Becomes(e))
  BY PresentSpot DEF Sell, InHand
<1>2. Sound(t, room)
  BY <1>1, HandOver
<1>3. Sound(e, room)
  BY ExtractSound, NowSound DEF Gone
<1> QED
  BY <1>1, <1>2, <1>3, Keep, NowSound

LEMMA PutStep ==
  ASSUME Inv, NEW c \in Chars, NEW o \in Objs, NEW k \in Holders, Put(c, o, k)
  PROVE  Inv'
<1> DEFINE t == ToObj(FromChar(now, o, {}), o, k)
<1>1. place[o] \in Chars /\ wear[o] = "none" /\ k # o /\ place[k] \in Spots(room)
      /\ room' = room /\ Becomes(t)
  BY PresentSpot DEF Put, InHand, Here
<1>2. Put1(t, FromChar(now, o, {}), o, k)
  BY FromCharRec, ToShape
<1> HIDE DEF t
<1>3. Sound(t, room)
  BY <1>1, <1>2, Stowed, NowSound
<1> QED
  BY <1>1, <1>3, Keep, NowSound

\* What is eaten, sacrificed, or otherwise destroyed.
LEMMA DestroyStep ==
  ASSUME Inv, NEW o \in Objs, NEW Z, Becomes(Extract(now, o, Z)), room' = room
  PROVE  Inv'
<1>1. Sound(Extract(now, o, Z), room)
  BY ExtractSound, NowSound DEF Gone
<1> QED
  BY <1>1, Keep, NowSound

LEMMA CreateStep ==
  ASSUME Inv, NEW o \in Objs, NEW h \in Rooms \cup Chars, Create(o, h)
  PROVE  Inv'
<1>1. wear[o] = "none" /\ h \in Spots(room) /\ room' = room
      /\ (Becomes(ToRoom(now, o, h)) \/ Becomes(ToChar(now, o, h)))
  BY NowSound, PresentSpot DEF Create, Spots
<1>2. Put1(ToRoom(now, o, h), now, o, h) /\ Put1(ToChar(now, o, h), now, o, h)
  BY ToShape, NowSound
<1>3. Sound(ToRoom(now, o, h), room) /\ Sound(ToChar(now, o, h), room)
  BY <1>1, <1>2, Placed, NowSound
<1> QED
  BY <1>1, <1>3, Keep, NowSound

-----------------------------------------------------------------------------
(***************************************************************************)
(* Equipment.                                                              *)
(***************************************************************************)

\* remove_obj: nothing is in the place any more, and if that was not the
\* first of two weapons, nothing else is touched.
LEMMA RemovedSound ==
  ASSUME Inv, NEW c \in Chars, NEW loc \in Locs \ {"none"}, NEW Z,
         loc # "wield" \/ \A q \in Objs : ~(place[q] = c /\ wear[q] = "second")
  PROVE  LET s == Removed(now, c, loc, Z)
         IN  /\ Sound(s, room) /\ s.place = place
             /\ \A x \in Objs : s.wear[x] = IF place[x] = c /\ wear[x] = loc THEN "none" ELSE wear[x]
<1> DEFINE X == {x \in Carried(place, c) : wear[x] = loc}
<1>1. /\ Sound(now, room) /\ now.place = place /\ now.wear = wear
      /\ Outfit(place, wear) /\ room \in [Chars -> Rooms \cup {None}]
      /\ wear \in [Objs -> Locs]
  BY NowSound
<1>2. CASE X = {}
  <2>1. Removed(now, c, loc, Z) = now
    BY <1>1, <1>2 DEF Removed
  <2> QED
    BY <1>1, <1>2, <2>1 DEF Carried
<1>3. CASE X # {}
  <2> DEFINE q == CHOOSE x \in X : TRUE
  <2>1. q \in X
    BY <1>3
  <2>2. q \in Objs /\ place[q] = c /\ wear[q] = loc
    BY <2>1 DEF Carried
  <2>3. Removed(now, c, loc, Z) = Unequip(now, q, Z)
    BY <1>1, <1>3 DEF Removed
  <2> HIDE DEF q, X
  <2>4. Off(Unequip(now, q, Z), now, q)
    BY <1>1, <2>2, UnequipSound
  <2>5. Unequip(now, q, Z).place = place /\ Unequip(now, q, Z).wear = [wear EXCEPT ![q] = "none"]
    BY <1>1, <2>2, <2>4 DEF Off
  <2>6. \A x \in Objs : place[x] = c /\ wear[x] = loc => x = q
    BY <1>1, <2>2 DEF Outfit
  <2>7. Sound(Unequip(now, q, Z), room)
    BY <2>4 DEF Off
  <2> QED
    BY <1>1, <2>2, <2>3, <2>5, <2>6, <2>7
<1> QED
  BY <1>2, <1>3

\* o, in the hands of c, may be put on at loc once that is free.
Donned(c, o, loc) ==
  /\ loc \in Locs \ {"none"}
  /\ place[o] = c /\ wear[o] = "none"
  /\ loc # "wield" \/ \A q \in Objs : ~(place[q] = c /\ wear[q] = "second")
  /\ (o \in Weapons /\ loc # "float") \/ (o \in Discs /\ loc = "float")
  /\ loc = "second" => c \in Dual /\ \E x \in Objs : place[x] = c /\ wear[x] = "wield"

\* wear_obj of anything: the place is freed first.
LEMMA PutOn ==
  ASSUME Inv, NEW c \in Chars, NEW o \in Objs, NEW loc, Donned(c, o, loc), NEW Z
  PROVE  LET s == Removed(now, c, loc, Z)
         IN  s.place = place /\ Sound(s, room) /\ Sound(Equip(s, o, loc, Z), room)
<1> DEFINE s == Removed(now, c, loc, Z)
<1>0. /\ loc \in Locs \ {"none"} /\ place[o] = c /\ wear[o] = "none"
      /\ loc # "wield" \/ \A q \in Objs : ~(place[q] = c /\ wear[q] = "second")
      /\ (o \in Weapons /\ loc # "float") \/ (o \in Discs /\ loc = "float")
      /\ loc = "second" => c \in Dual /\ \E x \in Objs : place[x] = c /\ wear[x] = "wield"
  BY DEF Donned
<1>1. /\ Sound(s, room) /\ s.place = place
      /\ \A x \in Objs : s.wear[x] = IF place[x] = c /\ wear[x] = loc THEN "none" ELSE wear[x]
  BY <1>0, RemovedSound
<1> HIDE DEF s
<1>2. s.wear[o] = "none" /\ s.place[o] = c
  BY <1>0, <1>1
<1>3. \A x \in Objs : s.place[x] = s.place[o] => s.wear[x] # loc
  BY <1>0, <1>1, <1>2 DEF Locs
<1>4. loc = "second" => s.place[o] \in Dual
                          /\ \E x \in Objs : s.place[x] = s.place[o] /\ s.wear[x] = "wield"
  BY <1>0, <1>1, <1>2
<1>5. Sound(Equip(s, o, loc, Z), room)
  BY <1>0, <1>1, <1>2, <1>3, <1>4, EquipSound, NowSound
<1> QED
  BY <1>1, <1>5 DEF s

LEMMA WearIs ==
  ASSUME Inv, NEW c \in Chars, NEW o \in Objs, NEW Z, Wear(c, o, Z)
  PROVE  /\ room' = room
         /\ \E loc : Donned(c, o, loc) /\ Becomes(Equip(Removed(now, c, loc, Z), o, loc, Z))
<1>1. place[o] = c /\ wear[o] = "none" /\ room' = room
  BY DEF Wear, InHand
<1>2. /\ Outfit(place, wear)
      /\ {"second", "wield", "float"} \subseteq Locs \ {"none"}
      /\ "second" # "wield" /\ "float" # "wield" /\ "float" # "second"
  BY NowSound DEF Locs
<1>3. CASE o \in Weapons /\ Becomes(Wield(c, o, Z))
  <2>1. CASE c \in Dual /\ Worn(c, "wield") # {}
    <3>1. Wield(c, o, Z) = Equip(Removed(now, c, "second", Z), o, "second", Z)
      BY <2>1 DEF Wield
    <3>2. Donned(c, o, "second")
      BY <1>1, <1>2, <1>3, <2>1 DEF Donned, Worn, Carried
    <3> QED
      BY <1>1, <1>3, <3>1, <3>2
  <2>2. CASE ~(c \in Dual /\ Worn(c, "wield") # {})
    <3>1. Wield(c, o, Z) = Equip(Removed(now, c, "wield", Z), o, "wield", Z)
      BY <2>2 DEF Wield
    <3>2. \A q \in Objs : ~(place[q] = c /\ wear[q] = "second")
      BY <1>2, <2>2 DEF Worn, Carried, Outfit
    <3>3. Donned(c, o, "wield")
      BY <1>1, <1>2, <1>3, <3>2 DEF Donned
    <3> QED
      BY <1>1, <1>3, <3>1, <3>3
  <2> QED
    BY <2>1, <2>2
<1>4. CASE o \in Discs /\ Becomes(Equip(Removed(now, c, "float", Z), o, "float", Z))
  <2>1. Donned(c, o, "float")
    BY <1>1, <1>2, <1>4 DEF Donned
  <2> QED
    BY <1>1, <1>4, <2>1
<1> QED
  BY <1>3, <1>4 DEF Wear

LEMMA WearStep ==
  ASSUME Inv, NEW c \in Chars, NEW o \in Objs, NEW Z, Wear(c, o, Z)
  PROVE  Inv'
<1>1. PICK loc : Donned(c, o, loc) /\ Becomes(Equip(Removed(now, c, loc, Z), o, loc, Z))
  BY WearIs
<1>2. Sound(Equip(Removed(now, c, loc, Z), o, loc, Z), room)
  BY <1>1, PutOn
<1> QED
  BY <1>1, <1>2, WearIs, Keep, NowSound

LEMMA RemoveStep ==
  ASSUME Inv, NEW c \in Chars, NEW o \in Objs, NEW Z, Remove(c, o, Z)
  PROVE  Inv'
<1>1. place[o] \in Chars /\ wear[o] # "none" /\ room' = room /\ Becomes(Unequip(now, o, Z))
  BY DEF Remove
<1>2. Sound(Unequip(now, o, Z), room)
  BY <1>1, UnequipSound, NowSound DEF Off
<1> QED
  BY <1>1, <1>2, Keep, NowSound

\* A weapon or what zaps its owner leaves the hands.
LEMMA LoseStep ==
  ASSUME Inv, NEW c \in Chars, NEW o \in Objs, NEW Z,
         ZapWorn(c, o, Z) \/ \E d \in Chars : Disarm(c, o, d, Z)
  PROVE  Inv'
<1>1. place[o] \in Present /\ room[c] \in Spots(room) /\ room' = room
  BY PresentSpot DEF ZapWorn, Disarm
<1>2. \/ Becomes(ToRoom(FromChar(now, o, Z), o, room[c]))
      \/ \E d \in Spots(room) : Becomes(ToChar(FromChar(now, o, Z), o, d))
  BY PresentSpot DEF ZapWorn, Disarm
<1>3. Sound(ToRoom(FromChar(now, o, Z), o, room[c]), room)
  BY <1>1, HandOver
<1>4. \A d \in Spots(room) : Sound(ToChar(FromChar(now, o, Z), o, d), room)
  BY <1>1, HandOver
<1> QED
  BY <1>1, <1>2, <1>3, <1>4, Keep, NowSound

\* remove_all_objs
LEMMA RemoveAllStep ==
  ASSUME Inv, NEW c \in Chars, NEW Z, RemoveAll(c, Z)
  PROVE  Inv'
<1> DEFINE P == Worn(c, "wield")
           s == IF P = {} THEN now ELSE Unequip(now, CHOOSE p \in P : TRUE, Z)
           t == [s EXCEPT !.wear = [o \in Objs |-> IF place[o] = c THEN "none" ELSE @[o]]]
<1>1. Becomes(t) /\ room' = room
  BY DEF RemoveAll
<1>2. Sound(now, room) /\ now.place = place /\ now.wear = wear
  BY NowSound
<1>3. Sound(s, room) /\ \A x \in Objs : s.place[x] = place[x] \/ s.place[x] \in Rooms
  <2>1. CASE P = {}
    BY <1>2, <2>1
  <2>2. CASE P # {}
    <3> DEFINE p == CHOOSE p \in P : TRUE
    <3>1. p \in P
      BY <2>2
    <3>2. p \in Objs /\ place[p] \in Chars /\ wear[p] # "none"
      BY <3>1 DEF Worn, Carried
    <3>3. s = Unequip(now, p, Z)
      BY <2>2
    <3> HIDE DEF p, s, P
    <3>4. Off(Unequip(now, p, Z), now, p)
      BY <1>2, <3>2, UnequipSound, NowSound
    <3> QED
      BY <1>2, <3>3, <3>4 DEF Off
  <2> QED
    BY <2>1, <2>2
<1> DEFINE T == {o \in Objs : place[o] = c}
<1>4. Rec(t) /\ t.place = s.place /\ t.wear = [o \in Objs |-> IF o \in T THEN "none" ELSE s.wear[o]]
  <2>1. Rec(s)
    BY <1>3 DEF Sound, IsState
  <2> HIDE DEF s
  <2> QED
    BY <2>1 DEF Rec
<1> HIDE DEF s, t, P
<1>5. /\ s.wear \in [Objs -> Locs] /\ Outfit(s.place, s.wear)
      /\ s.place \in [Objs -> Places] /\ Tree(s.place, room)
  BY <1>3 DEF Sound, IsState
<1>6. \A x \in T, q \in Objs : x \in Objs /\ s.wear[x] = "wield" /\ s.wear[q] = "second"
        /\ s.place[x] = s.place[q] => q \in T
  <2> SUFFICES ASSUME NEW x \in Objs, NEW q \in Objs, place[x] = c, s.wear[x] = "wield",
                      s.wear[q] = "second", s.place[x] = s.place[q]
               PROVE  place[q] = c
    OBVIOUS
  <2>1. s.place[x] \in Chars /\ s.place[q] \in Chars
    BY <1>5 DEF Outfit
  <2> QED
    BY <1>3, <2>1, PresentSpot
<1> HIDE DEF T
<1>7. t.wear \in [Objs -> Locs] /\ Outfit(s.place, t.wear)
  BY <1>4, <1>5, <1>6, OutfitOff
<1>8. Sound(t, room)
  BY <1>4, <1>5, <1>7 DEF Sound, IsState
<1> QED
  BY <1>1, <1>8, Keep, NowSound

-----------------------------------------------------------------------------
(***************************************************************************)
(* Decay and destruction.                                                  *)
(***************************************************************************)
LEMMA SliceStep ==
  ASSUME Inv, NEW k \in Bags, NEW T, Slice(k, T)
  PROVE  Inv'
<1>1. /\ place' = [o \in Objs |-> IF o \in T THEN place[k] ELSE place[o]]
      /\ wear' = wear /\ room' = room /\ torn' = torn
      /\ place[k] \in Spots(room) /\ \A o \in T : o \in Objs /\ place[o] = k
  BY PresentSpot DEF Slice, Carried
<1>2. /\ place \in [Objs -> Places] /\ wear \in [Objs -> Locs]
      /\ Tree(place, room) /\ Outfit(place, wear)
      /\ \A o \in Objs : place[o] \notin Chars => wear[o] = "none"
  BY NowSound
<1>3. k \in Objs /\ k \notin Chars
  BY PresentSpot DEF Objs, Holders
<1>4. place' \in [Objs -> Places]
  BY <1>1, <1>2, <1>3
<1>5. Tree(place', room)
  BY <1>1, <1>2, <1>4, TreeMoves
<1>6. Outfit(place', wear)
  BY <1>1, <1>2, <1>3, OutfitMoves
<1> QED
  BY <1>1, <1>2, <1>4, <1>5, <1>6, NowSound DEF Inv, Sound, IsState, now, Rec

\* The contents of o are moved to a room or a character, or to where o is.
LEMMA SpilledSound ==
  ASSUME Inv, NEW o \in Objs, NEW h,
         h \in Spots(room) \/ (h = place[o] /\ h \in Objs)
  PROVE  /\ Sound(Spilled(o, h), room)
         /\ Spilled(o, h).place[o] = IF place[o] = o THEN h ELSE place[o]
<1> DEFINE t == Spilled(o, h)
<1>1. t.place = [x \in Objs |-> IF x \in Carried(place, o) THEN h ELSE place[x]]
      /\ t.wear = wear /\ Rec(t)
  BY DEF Spilled, Rec
<1>2. /\ place \in [Objs -> Places] /\ wear \in [Objs -> Locs]
      /\ Tree(place, room) /\ Outfit(place, wear)
      /\ \A x \in Objs : place[x] \notin Chars => wear[x] = "none"
  BY NowSound
<1> HIDE DEF t
<1>3. t.place \in [Objs -> Places] /\ Tree(t.place, room)
  <2>1. CASE h \in Spots(room)
    <3>1. t.place \in [Objs -> Places]
      BY <1>1, <1>2, <2>1 DEF Spots, Places
    <3> QED
      BY <1>1, <1>2, <2>1, <3>1, TreeMoves
  <2>2. CASE h = place[o] /\ h \in Objs
    BY <1>1, <1>2, <2>2, TreeSpills
  <2> QED
    BY <2>1, <2>2
<1>4. \A x \in Objs : t.place[x] = place[x] \/ wear[x] = "none"
  BY <1>1, <1>2, PresentSpot DEF Carried
<1>5. Outfit(t.place, wear)
  BY <1>2, <1>4, OutfitMoves
<1>6. t.place[o] = IF place[o] = o THEN h ELSE place[o]
  BY <1>1 DEF Carried
<1> QED
  BY <1>1, <1>2, <1>3, <1>5, <1>6 DEF t, Sound, IsState

LEMMA BurstStep ==
  ASSUME Inv, NEW o \in Objs, NEW Z, Burst(o, Z)
  PROVE  Inv'
<1> DEFINE h == IF place[o] \in Chars THEN room[place[o]] ELSE place[o]
           t == Spilled(o, h)
<1>1. h \in Spots(room) /\ Becomes(Extract(t, o, Z)) /\ room' = room
  BY PresentSpot DEF Burst, Spots
<1>2. Sound(t, room)
  BY <1>1, SpilledSound
<1> HIDE DEF t, h
<1>3. Sound(Extract(t, o, Z), room)
  BY <1>2, ExtractSound, NowSound DEF Gone
<1> QED
  BY <1>1, <1>3, Keep, NowSound

\* Where the contents of what decays come to.
LEMMA DecayTo ==
  ASSUME Inv, NEW o \in Objs, NEW Z, Decay(o, Z)
  PROVE  LET h == IF wear[o] = "float" THEN room[place[o]] ELSE place[o]
         IN  h \in Places /\ (h \in Spots(room) \/ (h = place[o] /\ h \in Objs))
<1>1. CASE wear[o] = "float"
  <2>1. place[o] \in Chars
    BY <1>1, NowSound
  <2>2. room[place[o]] \in Rooms
    BY <2>1, CarrierSomewhere, NowSound
  <2> QED
    BY <1>1, <2>2 DEF Spots, Places
<1>2. CASE wear[o] # "float"
  <2>1. place[o] \in Chars \cup Rooms \cup Objs
    BY NowSound DEF Places, Decay
  <2>2. place[o] \in Chars => place[o] \in Spots(room)
    BY NowSound DEF Tree
  <2> QED
    BY <1>2, <2>1, <2>2 DEF Spots, Places
<1> QED
  BY <1>1, <1>2

LEMMA DecayStep ==
  ASSUME Inv, NEW o \in Objs, NEW Z, Decay(o, Z)
  PROVE  Inv'
<1> DEFINE h == IF wear[o] = "float" THEN room[place[o]] ELSE place[o]
           s == IF o \in Corpses \/ wear[o] = "float" THEN Spilled(o, h) ELSE now
<1>1. Becomes(Extract(s, o, Z)) /\ room' = room
  BY DEF Decay
<1>2. h \in Spots(room) \/ (h = place[o] /\ h \in Objs)
  BY DecayTo
<1> HIDE DEF h
<1>3. Sound(s, room)
  BY <1>2, SpilledSound, NowSound
<1> HIDE DEF s
<1>4. Sound(Extract(s, o, Z), room)
  BY <1>3, ExtractSound, NowSound DEF Gone
<1> QED
  BY <1>1, <1>4, Keep, NowSound

-----------------------------------------------------------------------------
(***************************************************************************)
(* Coming, going and dying.                                                *)
(***************************************************************************)
LEMMA WalkStep ==
  ASSUME Inv, NEW c \in Chars, NEW r \in Rooms, Enter(c, r) \/ Walk(c, r)
  PROVE  Inv'
<1>1. room' = [room EXCEPT ![c] = r] /\ UNCHANGED <<place, wear, torn>>
  BY DEF Enter, Walk
<1>2. room' \in [Chars -> Rooms \cup {None}] /\ None \notin Rooms
  BY <1>1, NowSound, PresentSpot
<1>3. Tree(place, room')
  <2>1. Spots(room) \subseteq Spots(room')
    BY <1>1, <1>2, NowSound DEF Spots
  <2> QED
    BY <2>1, NowSound DEF Tree
<1> QED
  BY <1>1, <1>2, <1>3, NowSound DEF Inv, Sound, IsState, now, Rec

\* What a walk over the things of c comes to: each is taken, left or fallen;
\* what has fallen was a second weapon, and what is left was not a first.
LEMMA CoursesAre ==
  ASSUME Inv, NEW c \in Present, NEW Z, NEW w \in Courses(c, Z)
  PROVE  /\ w.off \in BOOLEAN
         /\ \A x \in w.taken \cup w.left \cup w.down : x \in Objs /\ place[x] = c
         /\ \A x \in Objs : place[x] = c => x \in w.taken \cup w.left \cup w.down
         /\ \A x \in w.left : x \notin w.taken /\ x \notin w.down /\ wear[x] # "wield"
         /\ \A x \in w.down : wear[x] = "second" /\ x \in Weapons
         /\ w.down = {} => \A x \in w.left : x \in Weapons
<1> DEFINE C == Carried(place, c)
           P == Worn(c, "wield")
           S == Worn(c, "second")
           B == C \ (P \cup S)
           whole == [taken |-> C, left |-> {}, down |-> {}, off |-> FALSE]
           behind == [taken |-> C \ S, left |-> S \ Z, down |-> S \cap Z, off |-> FALSE]
           strayed(R) == [taken |-> C \ (S \cup R), left |-> R, down |-> S, off |-> TRUE]
<1>1. w = whole \/ w = behind \/ (S # {} /\ \E R \in SUBSET B : w = strayed(R))
  BY DEF Courses
<1>2. /\ \A x : x \in C <=> x \in Objs /\ place[x] = c
      /\ \A x : x \in P <=> x \in C /\ wear[x] = "wield"
      /\ \A x : x \in S <=> x \in C /\ wear[x] = "second"
      /\ \A x : x \in B <=> x \in C /\ x \notin P /\ x \notin S
  BY DEF Carried, Worn
<1>3. \A x \in S : wear[x] = "second" /\ x \in Weapons
  BY <1>2, NowSound DEF Outfit, Fitting
<1> HIDE DEF C, P, S, B
<1>4. CASE w = whole
  BY <1>2, <1>4
<1>5. CASE w = behind
  BY <1>2, <1>3, <1>5
<1>6. CASE S # {} /\ \E R \in SUBSET B : w = strayed(R)
  BY <1>2, <1>3, <1>6
<1> QED
  BY <1>1, <1>4, <1>5, <1>6

\* What make_corpse moves.
Moved(c, w) == w.taken \cup w.down \cup (IF w.off THEN Floor(room[c]) ELSE {})

\* s is what make_corpse leaves: a thing is the corpse, is moved, or not.
IsDead(s, c, k, w) ==
  /\ Rec(s)
  /\ s.place \in [Objs -> Places]
  /\ \A x \in Objs : IF x = k THEN s.place[x] = room[c]
                     ELSE IF x \in Moved(c, w)
                     THEN s.place[x] = room[c] \/ (k # None /\ s.place[x] = k)
                     ELSE s.place[x] = place[x]
  /\ s.wear = [x \in Objs |-> IF x \in Moved(c, w) THEN "none"
                              ELSE IF x \in w.left /\ wear[x] = "second" THEN "wield"
                              ELSE wear[x]]
  /\ s.number = [number EXCEPT ![c] = @ - NumberOf(place, w.taken \cup w.down)]

LEMMA DeadShape ==
  ASSUME Inv, NEW c \in Present, NEW k \in Corpses \cup Carcasses \cup {None}, NEW D, NEW w
  PROVE  IsDead(Dead(c, k, D, w), c, k, w)
<1> DEFINE M == Moved(c, w)
           s == Dead(c, k, D, w)
           F == D \cup (IF w.off THEN {} ELSE w.down \cup Worn(c, "float"))
           g == [x \in Objs |-> IF x = k \/ x \in M \cap F THEN room[c]
                                ELSE IF x \in M THEN (IF k = None THEN room[c] ELSE k)
                                ELSE place[x]]
<1>1. /\ Rec(s) /\ s.place = g
      /\ s.wear = [x \in Objs |-> IF x \in M THEN "none"
                                  ELSE IF x \in w.left /\ wear[x] = "second" THEN "wield"
                                  ELSE wear[x]]
      /\ s.number = [number EXCEPT ![c] = @ - NumberOf(place, w.taken \cup w.down)]
  BY DEF Dead, Rec, Moved
<1> HIDE DEF F, M, s
<1>2. \A x \in Objs : IF x = k THEN g[x] = room[c]
                      ELSE IF x \in M THEN g[x] = room[c] \/ (k # None /\ g[x] = k)
                      ELSE g[x] = place[x]
  OBVIOUS
<1>3. g \in [Objs -> Places]
  <2>1. k = None \/ k \in Objs
    BY DEF Objs, Holders
  <2>2. place \in [Objs -> Places] /\ room[c] \in Rooms
    BY NowSound, PresentSpot
  <2> QED
    BY <2>1, <2>2 DEF Places
<1> HIDE DEF g
<1> QED
  BY <1>1, <1>2, <1>3 DEF M, s, IsDead

\* make_corpse: a second weapon that stays with the dead is in the right hand.
LEMMA DeadSound ==
  ASSUME Inv, NEW c \in Present, NEW k \in Corpses \cup Carcasses \cup {None},
         k # None => place[k] = None, NEW D, NEW Z, NEW w \in Courses(c, Z)
  PROVE  Sound(Dead(c, k, D, w), room)
<1> DEFINE M == Moved(c, w)
           s == Dead(c, k, D, w)
<1>1. /\ place \in [Objs -> Places] /\ wear \in [Objs -> Locs]
      /\ Tree(place, room) /\ Outfit(place, wear)
      /\ \A x \in Objs : place[x] \notin Chars => wear[x] = "none"
  BY NowSound
<1>2. /\ room[c] \in Rooms /\ room[c] \in Spots(room) /\ c \in Chars
      /\ None \notin Objs /\ None \notin Chars /\ Chars \cap Objs = {} /\ Chars \cap Rooms = {}
      /\ Holders \subseteq Objs
  BY PresentSpot DEF Objs
<1>3. /\ \A x \in w.taken \cup w.left \cup w.down : x \in Objs /\ place[x] = c
      /\ \A x \in Objs : place[x] = c => x \in w.taken \cup w.left \cup w.down
      /\ \A x \in w.left : x \notin w.taken /\ x \notin w.down /\ wear[x] # "wield"
  BY CoursesAre
<1>4. /\ \A x \in Objs : place[x] = c => x \in M \/ x \in w.left
      /\ \A x \in M : x \in Objs /\ (place[x] = c \/ place[x] = room[c])
      /\ \A x \in w.left : x \notin M
  BY <1>2, <1>3 DEF Floor, Moved
<1>5. k = None \/ (k \in Holders /\ k \in Objs)
  BY <1>2 DEF Holders
<1>6. /\ Rec(s) /\ s.place \in [Objs -> Places]
      /\ \A x \in Objs : IF x = k THEN s.place[x] = room[c]
                         ELSE IF x \in M THEN s.place[x] = room[c] \/ (k # None /\ s.place[x] = k)
                         ELSE s.place[x] = place[x]
      /\ s.wear = [x \in Objs |-> IF x \in M THEN "none"
                                  ELSE IF x \in w.left /\ wear[x] = "second" THEN "wield"
                                  ELSE wear[x]]
  <2>1. IsDead(s, c, k, w)
    BY DeadShape
  <2> HIDE DEF s
  <2> QED
    BY <2>1 DEF IsDead
<1> HIDE DEF M, s
<1>7. Tree(s.place, room)
  <2>1. \A x \in Objs : \/ s.place[x] = place[x] \/ s.place[x] \in Spots(room)
                        \/ s.place[x] \in Holders /\ s.place[s.place[x]] \in Spots(room)
    BY <1>2, <1>5, <1>6
  <2> QED
    BY <1>1, <1>6, <2>1, TreeMoves
\* First all that moves and both weapons come off, then what is kept goes to
\* the right hand.
<1> DEFINE T == M \cup {x \in Objs : place[x] = c /\ wear[x] \in {"wield", "second"}}
           v == [x \in Objs |-> IF x \in T THEN "none" ELSE wear[x]]
<1>8. /\ \A x \in M : x \in T
      /\ \A x \in Objs : x \in T => x \in M \/ (place[x] = c /\ wear[x] \in {"wield", "second"})
      /\ \A x \in Objs : place[x] = c /\ wear[x] \in {"wield", "second"} => x \in T
      /\ \A x \in Objs : v[x] = IF x \in T THEN "none" ELSE wear[x]
      /\ v = [x \in Objs |-> IF x \in T THEN "none" ELSE wear[x]]
  OBVIOUS
<1> HIDE DEF T, v
<1>9. \A x \in T, q \in Objs : x \in Objs /\ wear[x] = "wield" /\ wear[q] = "second"
        /\ place[x] = place[q] => q \in T
  <2> SUFFICES ASSUME NEW x \in T, NEW q \in Objs, x \in Objs, wear[x] = "wield",
                      wear[q] = "second", place[x] = place[q]
               PROVE  q \in T
    OBVIOUS
  <2>1. place[x] \in Chars
    BY <1>1
  <2>2. place[x] = c
    BY <1>2, <1>4, <1>8, <2>1
  <2> QED
    BY <1>8, <2>2
<1>10. v \in [Objs -> Locs] /\ Outfit(place, v)
  BY <1>1, <1>8, <1>9, OutfitOff
<1>11. Outfit(s.place, v)
  <2>1. \A x \in Objs : s.place[x] = place[x] \/ v[x] = "none"
    BY <1>1, <1>2, <1>6, <1>8
  <2> QED
    BY <1>10, <2>1, OutfitMoves
<1> DEFINE L == {x \in w.left : wear[x] = "second"}
<1>12. \A x \in Objs : s.wear[x] = IF x \in L THEN "wield" ELSE v[x]
  <2> SUFFICES ASSUME NEW x \in Objs PROVE s.wear[x] = IF x \in L THEN "wield" ELSE v[x]
    OBVIOUS
  <2>1. CASE x \in M
    BY <1>4, <1>6, <1>8, <2>1
  <2>2. CASE x \notin M /\ x \in L
    BY <1>6, <2>2
  <2>3. CASE x \notin M /\ x \notin L
    <3>1. s.wear[x] = wear[x]
      BY <1>6, <2>3
    <3>2. x \notin T
      BY <1>3, <1>4, <1>8, <2>3
    <3> QED
      BY <1>8, <2>3, <3>1, <3>2
  <2> QED
    BY <2>1, <2>2, <2>3
<1>13. s.wear \in [Objs -> Locs] /\ Outfit(s.place, s.wear)
  <2>1. CASE L = {}
    <3>1. s.wear = v
      BY <1>6, <1>10, <1>12, <2>1
    <3> QED
      BY <1>10, <1>11, <3>1
  <2>2. CASE L # {}
    <3>1. PICK q \in L : TRUE
      BY <2>2
    <3>2. q \in Objs /\ place[q] = c /\ wear[q] = "second" /\ q \notin M
      BY <1>3, <1>4, <3>1
    <3>3. \A x \in L : x = q
      BY <1>1, <1>3, <3>2 DEF Outfit
    <3>4. q # k /\ s.place[q] = c /\ v[q] = "none" /\ q \in Weapons
      BY <1>1, <1>2, <1>6, <1>8, <3>2 DEF Outfit, Fitting
    <3>5. s.wear = [v EXCEPT ![q] = "wield"]
      BY <1>6, <1>10, <1>12, <3>1, <3>2, <3>3
    <3>6. \A x \in Objs : s.place[x] = s.place[q] => v[x] # "wield"
      <4>1. \A x \in Objs : s.place[x] = c => place[x] = c
        BY <1>2, <1>5, <1>6
      <4> QED
        BY <1>8, <3>4, <4>1
    <3>7. "wield" \in Locs \ {"none"} /\ "wield" # "second"
      BY DEF Locs
    <3> DEFINE p == s.place
               u == s.wear
    <3>8. Outfit(p, v) /\ u = [v EXCEPT ![q] = "wield"] /\ v \in [Objs -> Locs]
          /\ p[q] \in Chars /\ \A x \in Objs : p[x] = p[q] => v[x] # "wield"
      BY <1>2, <1>10, <1>11, <3>4, <3>5, <3>6
    <3> HIDE DEF p, u
    <3>9. u \in [Objs -> Locs] /\ Outfit(p, u)
      BY <3>2, <3>4, <3>7, <3>8, OutfitOn
    <3> QED
      BY <3>9 DEF p, u
  <2> QED
    BY <2>1, <2>2
<1> QED
  BY <1>6, <1>7, <1>13 DEF s, Sound, IsState

\* What is gone with some things is all that is in them, too.
LEMMA DeepClosed ==
  ASSUME NEW p \in [Objs -> Places], NEW r, Tree(p, r), NEW C, C \subseteq Objs
  PROVE  /\ Deep(p, C) \subseteq Objs /\ C \subseteq Deep(p, C)
         /\ \A x \in Objs : p[x] \in Deep(p, C) => x \in Deep(p, C)
         /\ \A x \in Deep(p, C) : x \in C \/ p[x] \in Holders
<1>1. \A k \in Holders :
        /\ Below(p, k) \subseteq Objs
        /\ \A x \in Objs : p[x] \in {k} \cup Below(p, k) => x \in Below(p, k)
        /\ \A x \in Below(p, k) : p[x] \in Holders
  BY BelowClosed
<1>2. \A x : x \in Deep(p, C) <=> x \in C \/ \E k \in C \cap Holders : x \in Below(p, k)
  BY DEF Deep
<1>3. ASSUME NEW x \in Objs, p[x] \in Deep(p, C) PROVE x \in Deep(p, C)
  <2>1. p[x] \in Objs
    BY <1>1, <1>2, <1>3
  <2>2. p[x] \in Holders
    BY <2>1 DEF Tree
  <2> QED
    BY <1>1, <1>2, <1>3, <2>2
<1> QED
  BY <1>1, <1>2, <1>3

\* Some things, none of them worn any more, vanish with all that is in them.
LEMMA VanishSound ==
  ASSUME NEW p \in [Objs -> Places], NEW w, Outfit(p, w), NEW r, Tree(p, r),
         NEW C, C \subseteq Objs, \A x \in C : w[x] = "none",
         NEW q, q = [x \in Objs |-> IF x \in Deep(p, C) THEN None ELSE p[x]]
  PROVE  /\ q \in [Objs -> Places] /\ Tree(q, r) /\ Outfit(q, w)
         /\ \A x \in Deep(p, C) : w[x] = "none"
<1> DEFINE G == Deep(p, C)
<1>1. /\ G \subseteq Objs /\ \A x \in Objs : p[x] \in G => x \in G
      /\ \A x \in G : x \in C \/ p[x] \in Holders
  BY DeepClosed
<1> HIDE DEF G
<1>2. q = [x \in Objs |-> IF x \in G THEN None ELSE p[x]]
  BY DEF G
<1>3. q \in [Objs -> Places] /\ Tree(q, r)
  BY <1>1, <1>2, TreeVanish
<1>4. \A x \in G : w[x] = "none"
  <2>1. Chars \cap Holders = {}
    BY ObjectsAssumption DEF Objs
  <2> QED
    BY <1>1, <2>1 DEF Outfit
<1>5. Outfit(q, w)
  <2>1. \A x \in Objs : q[x] = p[x] \/ w[x] = "none"
    BY <1>2, <1>4
  <2> QED
    BY <2>1, OutfitMoves
<1> QED
  BY <1>3, <1>4, <1>5 DEF G

\* All that c has comes off.
LEMMA BareFits ==
  ASSUME NEW p, NEW w \in [Objs -> Locs], Outfit(p, w), NEW c,
         NEW v, v = [x \in Objs |-> IF p[x] = c THEN "none" ELSE w[x]]
  PROVE  v \in [Objs -> Locs] /\ Outfit(p, v)
<1> DEFINE T == {x \in Objs : p[x] = c}
<1>1. v = [x \in Objs |-> IF x \in T THEN "none" ELSE w[x]]
  OBVIOUS
<1>2. \A x \in T, q \in Objs : x \in Objs /\ w[x] = "wield" /\ w[q] = "second"
        /\ p[x] = p[q] => q \in T
  OBVIOUS
<1> HIDE DEF T
<1> QED
  BY <1>1, <1>2, OutfitOff

\* What somebody carries is extracted, and nothing is with them.
LEMMA StrippedSound ==
  ASSUME NEW s, NEW r, Sound(s, r), NEW c \in Chars
  PROVE  /\ Sound(Stripped(s, c), r)
         /\ \A x \in Objs : Stripped(s, c).place[x] # c
<1> DEFINE C == Carried(s.place, c)
           G == Deep(s.place, C)
           t == Stripped(s, c)
<1>1. /\ Rec(t)
      /\ t.place = [x \in Objs |-> IF x \in G THEN None ELSE s.place[x]]
      /\ t.wear = [x \in Objs |-> IF x \in G THEN "none" ELSE s.wear[x]]
  BY DEF Stripped, Rec
<1>2. \A x : x \in C <=> x \in Objs /\ s.place[x] = c
  BY DEF Carried
<1>3. C \subseteq G /\ None # c
  BY ObjectsAssumption DEF Deep
<1> HIDE DEF t, C
<1>4. PICK p, w : p = s.place /\ w = s.wear
  OBVIOUS
<1>5. p \in [Objs -> Places] /\ w \in [Objs -> Locs] /\ Tree(p, r) /\ Outfit(p, w)
  BY <1>4 DEF Sound, IsState
<1>6. PICK v : v = [x \in Objs |-> IF p[x] = c THEN "none" ELSE w[x]]
  OBVIOUS
<1>7. v \in [Objs -> Locs] /\ Outfit(p, v)
  BY <1>5, <1>6, BareFits
<1>8. PICK q : q = [x \in Objs |-> IF x \in Deep(p, C) THEN None ELSE p[x]]
  OBVIOUS
<1>9. C \subseteq Objs /\ \A x \in C : v[x] = "none"
  BY <1>2, <1>4, <1>6
<1>10. /\ q \in [Objs -> Places] /\ Tree(q, r) /\ Outfit(q, v)
       /\ \A x \in Deep(p, C) : v[x] = "none"
  BY <1>5, <1>7, <1>8, <1>9, VanishSound
<1>11. t.place = q
  BY <1>1, <1>4, <1>8
<1> HIDE DEF G
<1>12. t.wear = v
  BY <1>1, <1>2, <1>3, <1>4, <1>6, <1>10 DEF G
<1>13. \A x \in Objs : t.place[x] # c
  BY <1>1, <1>2, <1>3
<1> QED
  BY <1>1, <1>7, <1>10, <1>11, <1>12, <1>13 DEF t, Sound, IsState

LEMMA DieStep ==
  ASSUME Inv, NEW c \in Chars, NEW k \in Corpses \cup {None}, NEW D, NEW Z,
         Die(c, k, D, Z)
  PROVE  Inv'
<1>1. /\ c \in Present /\ (k # None => place[k] = None)
      /\ room' = [room EXCEPT ![c] = Hall]
  BY DEF Die
<1>2. PICK w \in Courses(c, Z) :
        Goes(Dead(c, k, D, w), w.off) \/ Goes(Stripped(Dead(c, k, D, w), c), w.off)
  BY DEF Die
<1>3. /\ Sound(Dead(c, k, D, w), room) /\ Sound(Stripped(Dead(c, k, D, w), c), room)
      /\ w.off \in BOOLEAN
  BY <1>1, DeadSound, StrippedSound, CoursesAre
<1>4. PICK t : Sound(t, room) /\ Goes(t, w.off)
  BY <1>2, <1>3
<1>5. room' \in [Chars -> Rooms \cup {None}] /\ \A d \in Chars : room[d] # None => room'[d] # None
  BY <1>1, NowSound, ObjectsAssumption
<1>6. Sound(t, room')
  <2>1. \A o \in Objs : t.place[o] \in Chars => room'[t.place[o]] # None
    BY <1>4, <1>5, CarrierSomewhere, NowSound, PresentSpot
  <2> QED
    BY <1>4, <2>1, Elsewhere
<1> QED
  BY <1>3, <1>4, <1>5, <1>6, GoOn

LEMMA DieMobStep ==
  ASSUME Inv, NEW c \in Chars, NEW k \in Carcasses \cup {None}, NEW D, NEW Z,
         DieMob(c, k, D, Z)
  PROVE  Inv'
<1>1. /\ c \in Present /\ (k # None => place[k] = None)
      /\ room' = [room EXCEPT ![c] = None]
  BY DEF DieMob
<1>2. PICK w \in Courses(c, Z) : Goes(Stripped(Dead(c, k, D, w), c), w.off)
  BY DEF DieMob
<1>3. Sound(Dead(c, k, D, w), room) /\ w.off \in BOOLEAN
  BY <1>1, DeadSound, CoursesAre
<1>4. PICK t : Sound(t, room) /\ Goes(t, w.off) /\ \A x \in Objs : t.place[x] # c
  BY <1>2, <1>3, StrippedSound
<1>5. room' \in [Chars -> Rooms \cup {None}] /\ \A d \in Chars : d # c => room'[d] = room[d]
  BY <1>1, NowSound
<1>6. Sound(t, room')
  <2>1. \A o \in Objs : t.place[o] \in Chars => room'[t.place[o]] # None
    BY <1>4, <1>5, CarrierSomewhere, NowSound, PresentSpot
  <2> QED
    BY <1>4, <2>1, Elsewhere
<1> QED
  BY <1>3, <1>4, <1>5, <1>6, GoOn

\* The things in C vanish with all that is in them; of what c carries, A falls
\* or is lost.
Gives(c, C, A, h) ==
  /\ C \subseteq Objs /\ \A x \in C : place[x] \in Chars => place[x] = c
  /\ \A x \in A : x \in Objs /\ place[x] = c
  /\ \A x \in Objs : place[x] = c => x \in C \/ x \in A
  /\ h \in Rooms \cup {Lost}
  /\ place' = [x \in Objs |-> IF x \in Deep(place, C) THEN None
                              ELSE IF x \in A THEN h ELSE place[x]]
  /\ wear' = [x \in Objs |-> IF x \in Deep(place, C) \cup A THEN "none" ELSE wear[x]]

LEMMA GivesUp ==
  ASSUME Inv, NEW c \in Present, NEW C, NEW A, NEW h, Gives(c, C, A, h),
         torn' = torn, room' = [room EXCEPT ![c] = None]
  PROVE  Inv'
<1> DEFINE G == Deep(place, C)
<1>1. /\ place \in [Objs -> Places] /\ wear \in [Objs -> Locs] /\ Tree(place, room)
      /\ Outfit(place, wear) /\ torn \in BOOLEAN /\ room \in [Chars -> Rooms \cup {None}]
      /\ \A x \in Objs : place[x] \notin Chars => wear[x] = "none"
  BY NowSound
<1>2. /\ c \in Chars /\ None \notin Objs /\ None \notin Chars /\ Chars \cap Objs = {}
      /\ Chars \cap Rooms = {} /\ Lost \notin Chars /\ Lost \notin Objs
  BY ObjectsAssumption DEF Present
<1>3. /\ C \subseteq Objs /\ \A x \in C : place[x] \in Chars => place[x] = c
      /\ \A x \in A : x \in Objs /\ place[x] = c
      /\ \A x \in Objs : place[x] = c => x \in C \/ x \in A
      /\ h \in Rooms \cup {Lost}
  BY DEF Gives
<1>4. G \subseteq Objs /\ C \subseteq G
  BY <1>1, <1>3, DeepClosed
<1>5. PICK v : v = [x \in Objs |-> IF place[x] = c THEN "none" ELSE wear[x]]
  OBVIOUS
<1>6. v \in [Objs -> Locs] /\ Outfit(place, v)
  BY <1>1, <1>5, BareFits
<1>7. \A x \in C : v[x] = "none"
  BY <1>1, <1>3, <1>5
<1>8. PICK q : q = [x \in Objs |-> IF x \in Deep(place, C) THEN None ELSE place[x]]
  OBVIOUS
<1>9. /\ q \in [Objs -> Places] /\ Tree(q, room) /\ Outfit(q, v)
      /\ \A x \in G : v[x] = "none"
  BY <1>1, <1>3, <1>6, <1>7, <1>8, VanishSound
<1>10. \A x \in Objs : place[x] = c => x \in G \cup A
  BY <1>3, <1>4
<1>11. PICK p, u : p = place' /\ u = wear'
  OBVIOUS
<1>12. /\ p = [x \in Objs |-> IF x \in G THEN None ELSE IF x \in A THEN h ELSE place[x]]
       /\ u = [x \in Objs |-> IF x \in G \cup A THEN "none" ELSE wear[x]]
  BY <1>11 DEF Gives
<1>13. q = [x \in Objs |-> IF x \in G THEN None ELSE place[x]]
  BY <1>8
<1> HIDE DEF G
<1>14. u = v
  BY <1>3, <1>5, <1>9, <1>10, <1>12
<1>15. \A x \in Objs : p[x] # c /\ (p[x] = q[x] \/ (x \in A /\ p[x] = h))
  BY <1>2, <1>3, <1>10, <1>12, <1>13
<1>16. p \in [Objs -> Places] /\ Tree(p, room)
  <2>1. p \in [Objs -> Places]
    BY <1>1, <1>3, <1>12 DEF Places
  <2>2. \A x \in Objs : p[x] = q[x] \/ p[x] \in Spots(room) \/ p[x] = Lost
    BY <1>3, <1>15 DEF Spots
  <2> QED
    BY <1>9, <2>1, <2>2, TreeMoves
<1>17. Outfit(p, u)
  <2>1. \A x \in Objs : p[x] = q[x] \/ v[x] = "none"
    BY <1>3, <1>5, <1>15
  <2> QED
    BY <1>9, <1>14, <2>1, OutfitMoves
<1>18. room' \in [Chars -> Rooms \cup {None}] /\ \A d \in Chars : d # c => room'[d] = room[d]
  BY <1>1
<1>19. Tree(p, room')
  BY <1>2, <1>15, <1>16, <1>18 DEF Tree, Spots
<1>20. now'.place = p /\ now'.wear = u /\ Rec(now')
  BY <1>11 DEF now, Rec
<1>21. Sound(now', room')
  BY <1>6, <1>14, <1>16, <1>17, <1>19, <1>20 DEF Sound, IsState
<1> QED
  BY <1>1, <1>18, <1>21 DEF Inv

\* extract_char
LEMMA LeaveStep ==
  ASSUME Inv, NEW c \in Chars, NEW Z, Leave(c, Z)
  PROVE  Inv'
<1>1. c \in Present /\ room' = [room EXCEPT ![c] = None] /\ torn' = torn
  BY DEF Leave
<1>2. PICK w \in Courses(c, Z) :
        LET T == IF w.off THEN Carried(place, c) \cup Floor(room[c])
                 ELSE Carried(place, c) \ w.down
            gone == Deep(place, T)
        IN  /\ place' = [x \in Objs |-> IF x \in gone THEN None
                                        ELSE IF x \in w.down THEN room[c] ELSE place[x]]
            /\ wear' = [x \in Objs |-> IF x \in gone \cup w.down THEN "none" ELSE wear[x]]
  BY DEF Leave
<1> DEFINE T == IF w.off THEN Carried(place, c) \cup Floor(room[c])
                ELSE Carried(place, c) \ w.down
<1>3. /\ \A x \in w.down : x \in Objs /\ place[x] = c
      /\ room[c] \in Rooms \cup {Lost} /\ room[c] \notin Chars
  BY <1>1, CoursesAre, PresentSpot
<1>4. /\ T \subseteq Objs /\ \A x \in T : place[x] \in Chars => place[x] = c
      /\ \A x \in Objs : place[x] = c => x \in T \/ x \in w.down
  BY <1>3 DEF Carried, Floor
<1>5. /\ place' = [x \in Objs |-> IF x \in Deep(place, T) THEN None
                                  ELSE IF x \in w.down THEN room[c] ELSE place[x]]
      /\ wear' = [x \in Objs |-> IF x \in Deep(place, T) \cup w.down THEN "none" ELSE wear[x]]
  BY <1>2
<1> HIDE DEF T
<1>6. Gives(c, T, w.down, room[c])
  BY <1>3, <1>4, <1>5 DEF Gives
<1> QED
  BY <1>1, <1>6, GivesUp

\* free_char
LEMMA FreeStep ==
  ASSUME Inv, NEW c \in Chars, NEW Z, Free(c, Z), ~Reboot
  PROVE  Inv'
<1>1. c \in Present
  BY DEF Free
<1>2. PICK w \in Courses(c, Z) :
        /\ w.down = {}
        /\ place' = [x \in Objs |-> IF x \in Deep(place, w.taken) THEN None
                                    ELSE IF x \in w.left THEN Lost ELSE place[x]]
        /\ wear' = [x \in Objs |-> IF x \in Deep(place, w.taken) \cup w.left THEN "none" ELSE wear[x]]
        /\ room' = [room EXCEPT ![c] = None] /\ torn' = torn
  BY DEF Free
<1>3. /\ w.taken \subseteq Objs /\ \A x \in w.taken : place[x] = c
      /\ \A x \in w.left : x \in Objs /\ place[x] = c
      /\ \A x \in Objs : place[x] = c => x \in w.taken \/ x \in w.left
  BY <1>1, <1>2, CoursesAre
<1>4. Gives(c, w.taken, w.left, Lost)
  BY <1>2, <1>3 DEF Gives
<1> QED
  BY <1>1, <1>2, <1>4, GivesUp

-----------------------------------------------------------------------------
LEMMA InitInv == Init => Inv
<1> SUFFICES ASSUME Init PROVE Inv
  OBVIOUS
<1>1. None \notin Objs /\ None \notin Chars /\ Holders \subseteq Objs
  BY ObjectsAssumption DEF Objs
<1>2. /\ place \in [Objs -> Places] /\ wear \in [Objs -> Locs]
      /\ \A o \in Objs : place[o] = None /\ wear[o] = "none"
      /\ room \in [Chars -> Rooms \cup {None}] /\ torn \in BOOLEAN
  BY DEF Init, Places, Locs
<1>3. Tree(place, room)
  <2>1. ASSUME NEW S \in SUBSET Holders, Closed(S, place) PROVE S = {}
    BY <1>1, <1>2, <2>1 DEF Closed
  <2> QED
    BY <1>1, <1>2, <2>1 DEF Tree
<1>4. Outfit(place, wear)
  BY <1>2 DEF Outfit, Fitting
<1> QED
  BY <1>2, <1>3, <1>4 DEF Inv, Sound, IsState, now, Rec

LEMMA InitInvNext == Init' => Inv'
BY InitInv, PTL

LEMMA RebootStep == Reboot => Inv'
BY InitInvNext DEF Reboot, Init

LEMMA Inductive == Inv /\ [Next]_vars => Inv'
<1> SUFFICES ASSUME Inv, [Next]_vars PROVE Inv'
  OBVIOUS
<1>1. CASE UNCHANGED vars
  BY <1>1 DEF vars, Inv, Sound, IsState, now, Rec
<1>2. ASSUME NEW c \in Chars, NEW o \in Objs, Handling(c, o) PROVE Inv'
  <2>1. CASE Sacrifice(c, o)
    BY <2>1, DestroyStep DEF Sacrifice
  <2> QED
    BY <1>2, <2>1, PickUpStep, DropStep, PutStep, GiveStep, SellStep DEF Handling
<1>3. ASSUME NEW c \in Chars, NEW o \in Objs, NEW Z, Equipment(c, o, Z) PROVE Inv'
  <2>1. CASE Consume(c, o, Z)
    BY <2>1, DestroyStep DEF Consume
  <2> QED
    BY <1>3, <2>1, WearStep, RemoveStep, LoseStep DEF Equipment
<1>4. ASSUME NEW c \in Chars, NEW Z, Dying(c, Z) PROVE Inv'
  BY <1>4, DieStep, DieMobStep DEF Dying
<1>5. CASE Next
  BY <1>2, <1>3, <1>4, <1>5, WalkStep, CreateStep, SliceStep, BurstStep, DecayStep,
     RemoveAllStep, LeaveStep, FreeStep, RebootStep DEF Next
<1> QED
  BY <1>1, <1>5

THEOREM Invariance == Spec => []Inv
BY InitInv, Inductive, PTL DEF Spec

\* No container is ever in itself, however deep, and nothing is in what is
\* gone or with who is gone: everything can be reached from a room or from a
\* character in the world.
THEOREM NothingLost == Spec => []Rooted
<1>1. ASSUME Inv PROVE Rooted
  <2>1. \A o \in Objs : place[o] \in Objs => place[o] \in Holders /\ place[place[o]] # None
    BY <1>1, NowSound DEF Tree
  <2>2. \A o \in Objs : place[o] \in Chars => place[o] \in Present
    BY <1>1, NowSound, PresentSpot DEF Tree, Spots, Present
  <2>3. \A S \in SUBSET Holders : (\A h \in S : place[h] \in S) => S = {}
    BY <1>1, NowSound DEF Tree, Closed
  <2> QED
    BY <2>1, <2>2, <2>3 DEF Rooted
<1> QED
  BY <1>1, Invariance, PTL

\* What is worn is on its owner, one thing in each place, and there is a
\* second weapon only beside a first, however these are lost.
THEOREM WornRightly == Spec => []HandsRight
<1>1. ASSUME Inv PROVE HandsRight
  <2>1. \A o \in Objs : wear[o] # "none" => place[o] \in Present
    BY <1>1, NowSound, PresentSpot DEF Outfit, Tree, Spots, Present
  <2>2. \A c : \A o, q \in Carried(place, c) : wear[o] = wear[q] /\ wear[o] # "none" => o = q
    BY <1>1, NowSound DEF Outfit, Carried
  <2>3. \A c : Worn(c, "second") # {} => Worn(c, "wield") # {}
    BY <1>1, NowSound DEF Outfit, Carried, Worn
  <2> QED
    BY <2>1, <2>2, <2>3 DEF HandsRight
<1> QED
  BY <1>1, Invariance, PTL

-----------------------------------------------------------------------------
(***************************************************************************)
(* What is in what.  Under is the one set that holds what is directly at h *)
(* and all that is in one of its members; where nothing is in itself there *)
(* is only one, so that a step is described by what Under is afterwards.   *)
(***************************************************************************)
Forest(p) ==
  /\ p \in [Objs -> Places]
  /\ \A o \in Objs : p[o] \in Objs => p[o] \in Holders
  /\ \A S \in SUBSET Holders : Closed(S, p) => S = {}

Under(p, h) ==
  IF h \in Holders THEN Below(p, h)
  ELSE Carried(p, h) \cup UNION {Below(p, k) : k \in Carried(p, h) \cap Holders}

Within(B, p, h) ==
  /\ B \subseteq Objs
  /\ \A x \in Objs : x \in B <=> p[x] = h \/ p[x] \in B

Self(p, o) == {o} \cup Under(p, o)

LEMMA TreeForest == \A p \in [Objs -> Places] : \A r : Tree(p, r) => Forest(p)
BY DEF Tree, Forest

LEMMA HoldersAre == Holders \subseteq Objs
BY DEF Objs

\* No set of objects is such that each is in one of them.
LEMMA NoCycle ==
  ASSUME NEW p, Forest(p), NEW B, B \subseteq Objs, \A x \in B : p[x] \in B
  PROVE  B = {}
<1> DEFINE S == B \cap Holders
<1>1. \A x \in B : p[x] \in S
  BY DEF Forest
<1>2. S \in SUBSET Holders /\ Closed(S, p)
  BY <1>1 DEF Closed
<1> HIDE DEF S
<1>3. S = {}
  BY <1>2 DEF Forest
<1> QED
  BY <1>1, <1>3

LEMMA OneWithin ==
  ASSUME NEW p, Forest(p), NEW h, NEW B, NEW C, Within(B, p, h), Within(C, p, h)
  PROVE  B = C
<1> DEFINE D == (B \ C) \cup (C \ B)
<1>1. D \subseteq Objs
  BY DEF Within
<1>2. ASSUME NEW x \in D PROVE p[x] \in D
  BY DEF Within
<1>3. D = {}
  <2> HIDE DEF D
  <2> QED
    BY <1>1, <1>2, NoCycle
<1> QED
  BY <1>3

LEMMA BelowWithin ==
  ASSUME NEW p, Forest(p), NEW k \in Holders
  PROVE  Within(Below(p, k), p, k)
<1>1. Below(p, k) \subseteq Objs
  BY DEF Below
<1>2. ASSUME NEW x \in Objs, p[x] = k \/ p[x] \in Below(p, k)
      PROVE  x \in Below(p, k)
  <2> SUFFICES ASSUME NEW S \in SUBSET Holders, k \in S,
                      \A h \in Holders : p[h] \in S => h \in S
               PROVE  p[x] \in S
    BY DEF Below
  <2>1. CASE p[x] = k
    BY <2>1
  <2>2. CASE p[x] \in Below(p, k)
    <3>1. p[x] \in Holders
      BY <1>1, <2>2 DEF Forest
    <3>2. p[p[x]] \in S
      BY <2>2 DEF Below
    <3> QED
      BY <3>1, <3>2
  <2> QED
    BY <1>2, <2>1, <2>2
<1>3. ASSUME NEW x \in Below(p, k)
      PROVE  p[x] = k \/ p[x] \in Below(p, k)
  <2> DEFINE S == {k} \cup (Below(p, k) \cap Holders)
  <2>1. S \in SUBSET Holders /\ k \in S
    OBVIOUS
  <2>2. \A h \in Holders : p[h] \in S => h \in S
    BY <1>2, HoldersAre
  <2> HIDE DEF S
  <2>3. p[x] \in S
    BY <2>1, <2>2 DEF Below
  <2> QED
    BY <2>3 DEF S
<1> QED
  BY <1>1, <1>2, <1>3 DEF Within

LEMMA UnderWithin ==
  ASSUME NEW p, Forest(p), NEW h
  PROVE  Within(Under(p, h), p, h)
<1>1. CASE h \in Holders
  BY <1>1, BelowWithin DEF Under
<1>2. CASE h \notin Holders
  <2> DEFINE C == Carried(p, h)
             B == C \cup UNION {Below(p, k) : k \in C \cap Holders}
  <2>1. Under(p, h) = B
    BY <1>2 DEF Under
  <2>2. \A k \in C \cap Holders : Within(Below(p, k), p, k)
    BY BelowWithin
  <2>3. B \subseteq Objs
    BY DEF Carried, Below
  <2>4. ASSUME NEW x \in Objs, p[x] = h PROVE x \in B
    BY <2>4 DEF Carried
  <2>5. ASSUME NEW x \in Objs, p[x] \in B PROVE x \in B
    <3>1. CASE p[x] \in C
      <4>1. p[x] \in C \cap Holders
        BY <3>1 DEF Forest, Carried
      <4>2. x \in Below(p, p[x])
        BY <2>2, <4>1 DEF Within
      <4> QED
        BY <4>1, <4>2
    <3>2. CASE \E k \in C \cap Holders : p[x] \in Below(p, k)
      BY <2>2, <3>2 DEF Within
    <3> QED
      BY <2>5, <3>1, <3>2
  <2>6. ASSUME NEW x \in B PROVE p[x] = h \/ p[x] \in B
    <3>1. CASE x \in C
      BY <3>1 DEF Carried
    <3>2. CASE \E k \in C \cap Holders : x \in Below(p, k)
      <4>1. PICK k \in C \cap Holders : x \in Below(p, k)
        BY <3>2
      <4>2. p[x] = k \/ p[x] \in Below(p, k)
        BY <2>2, <4>1 DEF Within, Below
      <4> QED
        BY <4>1, <4>2
    <3> QED
      BY <3>1, <3>2
  <2> HIDE DEF B
  <2> QED
    BY <2>1, <2>3, <2>4, <2>5, <2>6 DEF Within
<1> QED
  BY <1>1, <1>2

\* Under is known by what it holds.
LEMMA UnderIs ==
  ASSUME NEW p, Forest(p), NEW h, NEW B, Within(B, p, h)
  PROVE  Under(p, h) = B
BY UnderWithin, OneWithin

LEMMA UnderNot ==
  ASSUME NEW p, Forest(p), NEW o \in Objs, o \notin Holders
  PROVE  Under(p, o) = {}
<1>1. Within({}, p, o)
  BY DEF Within, Forest
<1> QED
  BY <1>1, UnderIs

LEMMA NotUnderItself ==
  ASSUME NEW p, Forest(p), NEW k
  PROVE  k \notin Under(p, k)
<1> SUFFICES ASSUME k \in Under(p, k) PROVE FALSE
  OBVIOUS
<1> DEFINE B == Under(p, k)
<1>1. Within(B, p, k)
  BY UnderWithin
<1>2. B \subseteq Objs /\ \A x \in B : p[x] \in B
  BY <1>1 DEF Within
<1> HIDE DEF B
<1>3. B = {}
  BY <1>2, NoCycle
<1> QED
  BY <1>3 DEF B

\* All that is in o is where o is.
LEMMA UnderDeeper ==
  ASSUME NEW p, Forest(p), NEW h, NEW o \in Objs, o \in Under(p, h)
  PROVE  Self(p, o) \subseteq Under(p, h)
<1> DEFINE A == Under(p, h)
           B == Under(p, o)
           D == B \ A
<1>1. Within(A, p, h) /\ Within(B, p, o) /\ o \in A
  BY UnderWithin
<1>2. D \subseteq Objs /\ \A x \in D : p[x] \in D
  BY <1>1 DEF Within
<1> HIDE DEF A, B, D
<1>3. D = {}
  BY <1>2, NoCycle
<1> QED
  BY <1>1, <1>3 DEF A, B, D, Self

LEMMA UnderApart ==
  ASSUME NEW p, Forest(p), NEW h, NEW o \in Objs, h \notin Self(p, o), o \notin Under(p, h)
  PROVE  Self(p, o) \cap Under(p, h) = {}
<1> DEFINE A == Under(p, h)
           B == Under(p, o)
           D == B \cap A
<1>1. Within(A, p, h) /\ Within(B, p, o) /\ h \notin B /\ h # o /\ o \notin A
  BY UnderWithin DEF Self
<1>2. D \subseteq Objs /\ \A x \in D : p[x] \in D
  BY <1>1 DEF Within
<1> HIDE DEF A, B, D
<1>3. D = {}
  BY <1>2, NoCycle
<1> QED
  BY <1>1, <1>3 DEF A, B, D, Self

\* What is at the same place has nothing in common.
LEMMA SelfApart ==
  ASSUME NEW p, Forest(p), NEW o \in Objs, NEW q \in Objs, o # q, p[o] = p[q]
  PROVE  Self(p, o) \cap Self(p, q) = {}
<1>1. q \notin Under(p, o)
  <2> SUFFICES ASSUME q \in Under(p, o) PROVE FALSE
    OBVIOUS
  <2>1. Within(Under(p, o), p, o) /\ o \notin Under(p, o)
    BY UnderWithin, NotUnderItself
  <2>2. p[q] = o \/ p[q] \in Under(p, o)
    BY <2>1 DEF Within
  <2> QED
    BY <2>1, <2>2 DEF Within
<1>2. o \notin Under(p, q)
  <2> SUFFICES ASSUME o \in Under(p, q) PROVE FALSE
    OBVIOUS
  <2>1. Within(Under(p, q), p, q) /\ q \notin Under(p, q)
    BY UnderWithin, NotUnderItself
  <2>2. p[o] = q \/ p[o] \in Under(p, q)
    BY <2>1 DEF Within
  <2> QED
    BY <2>1, <2>2 DEF Within
<1>3. Self(p, o) \cap Under(p, q) = {}
  BY <1>1, <1>2, UnderApart DEF Self
<1> QED
  BY <1>1, <1>3 DEF Self

\* All that is at h is what is directly there, with what is in it.
LEMMA UnderParts ==
  ASSUME NEW p, Forest(p), NEW h
  PROVE  Under(p, h) = UNION {Self(p, o) : o \in Carried(p, h)}
<1> DEFINE B == UNION {Self(p, o) : o \in Carried(p, h)}
<1>0. \A o \in Objs : Within(Under(p, o), p, o)
  BY UnderWithin
<1>1. B \subseteq Objs
  BY <1>0 DEF Self, Carried, Within
<1>2. ASSUME NEW x \in Objs, p[x] = h PROVE x \in B
  BY <1>2 DEF Self, Carried
<1>3. ASSUME NEW x \in Objs, p[x] \in B PROVE x \in B
  <2>1. PICK o \in Carried(p, h) : p[x] \in Self(p, o)
    BY <1>3
  <2>2. o \in Objs
    BY DEF Carried
  <2>3. x \in Under(p, o)
    BY <1>0, <2>1, <2>2 DEF Within, Self
  <2> QED
    BY <2>3 DEF Self
<1>4. ASSUME NEW x \in B PROVE p[x] = h \/ p[x] \in B
  <2>1. PICK o \in Carried(p, h) : x \in Self(p, o)
    OBVIOUS
  <2>2. o \in Objs /\ p[o] = h
    BY DEF Carried
  <2>3. x # o => p[x] \in Self(p, o)
    BY <1>0, <2>1, <2>2 DEF Within, Self
  <2> QED
    BY <2>2, <2>3
<1> HIDE DEF B
<1>5. Within(B, p, h)
  BY <1>1, <1>2, <1>3, <1>4 DEF Within
<1> QED
  BY <1>5, UnderIs DEF B

-----------------------------------------------------------------------------
\* The things in R, which all of W are in or are, change their place.
Shifted(q, p, R, W) ==
  /\ Forest(p) /\ Forest(q)
  /\ W \subseteq Objs
  /\ \A x \in Objs : x \in W <=> x \in R \/ p[x] \in W
  /\ \A x \in Objs : x \notin R => q[x] = p[x]

\* They come to be under h, or do not.
Into(q, p, R, h) == \A x \in R : q[x] = h \/ q[x] \in Under(p, h)
Away(q, p, R, W, h) == \A x \in R : q[x] # h /\ (q[x] \in W \/ q[x] \notin Under(p, h))

LEMMA UnderTaken ==
  ASSUME NEW p, NEW q, NEW h, NEW R, NEW W, Shifted(q, p, R, W), h \notin W, Away(q, p, R, W, h)
  PROVE  Under(q, h) = Under(p, h) \ W
<1> DEFINE A == Under(p, h)
           B == A \ W
<1>1. Within(A, p, h)
  BY UnderWithin DEF Shifted
<1>2. \A x \in R : q[x] # h /\ (q[x] \in W \/ q[x] \notin A)
  BY DEF Away
<1> HIDE DEF A
<1>3. Within(B, q, h)
  BY <1>1, <1>2 DEF Within, Shifted
<1> HIDE DEF B
<1>4. Under(q, h) = B
  BY <1>3, UnderIs DEF Shifted
<1> QED
  BY <1>4 DEF A, B

LEMMA UnderGiven ==
  ASSUME NEW p, NEW q, NEW h, NEW R, NEW W, Shifted(q, p, R, W), h \notin W, Into(q, p, R, h)
  PROVE  Under(q, h) = Under(p, h) \cup W
<1> DEFINE A == Under(p, h)
           B == A \cup W
<1>1. Within(A, p, h)
  BY UnderWithin DEF Shifted
<1>2. \A x \in R : q[x] = h \/ q[x] \in A
  BY DEF Into
<1> HIDE DEF A
<1>3. Within(B, q, h)
  BY <1>1, <1>2 DEF Within, Shifted
<1> HIDE DEF B
<1>4. Under(q, h) = B
  BY <1>3, UnderIs DEF Shifted
<1> QED
  BY <1>4 DEF A, B

-----------------------------------------------------------------------------
(***************************************************************************)
(* Counting.  A character's number is right when it is the total of the    *)
(* units of all that is under it.                                          *)
(***************************************************************************)
Total(B) == SumFunctionOnSet(Units, B)

LEMMA UnitsType == IsFiniteSet(Objs) /\ \A x \in Objs : Units[x] = Unit(x) /\ Units[x] \in Int
BY ObjectsAssumption DEF Units, Unit

LEMMA TotalType ==
  ASSUME NEW A, A \subseteq Objs
  PROVE  IsFiniteSet(A) /\ Total(A) \in Int
<1>1. IsFiniteSet(A) /\ \A x \in A : Units[x] \in Int
  BY UnitsType, FS_Subset
<1> QED
  BY <1>1, SumInt DEF Total

LEMMA TotalUnion ==
  ASSUME NEW A, A \subseteq Objs, NEW B, B \subseteq Objs, A \cap B = {}
  PROVE  Total(A \cup B) = Total(A) + Total(B)
<1>1. \A x \in A \cup B : Units[x] \in Int
  BY UnitsType
<1> QED
  BY <1>1, TotalType, SumUnion DEF Total

LEMMA TotalLess ==
  ASSUME NEW A, A \subseteq Objs, NEW B, B \subseteq A
  PROVE  Total(A \ B) = Total(A) - Total(B)
<1>1. Total((A \ B) \cup B) = Total(A \ B) + Total(B)
  BY TotalUnion
<1>2. (A \ B) \cup B = A
  OBVIOUS
<1>3. Total(A) \in Int /\ Total(B) \in Int /\ Total(A \ B) \in Int
  BY TotalType
<1>4. Total(A) = Total(A \ B) + Total(B)
  BY <1>1, <1>2
<1> QED
  BY <1>3, <1>4

LEMMA TotalNone == Total({}) = 0
BY SumEmpty DEF Total

LEMMA SelfType ==
  ASSUME NEW p, Forest(p), NEW o \in Objs
  PROVE  Self(p, o) \subseteq Objs /\ Under(p, o) \subseteq Objs
BY UnderWithin DEF Within, Self

\* get_obj_number counts all that is in it, and itself.
LEMMA NumIs ==
  ASSUME NEW p, Forest(p), NEW o \in Objs
  PROVE  Num(p, o) = Total(Self(p, o)) /\ Num(p, o) \in Int
<1>1. CASE o \in Holders
  BY <1>1, SelfType, TotalType DEF Num, Total, Self, Under
<1>2. CASE o \notin Holders
  <2>1. Self(p, o) = {} \cup {o}
    BY <1>2, UnderNot DEF Self
  <2>2. Units[o] \in Int /\ Units[o] = Unit(o) /\ IsFiniteSet({})
    BY UnitsType, FS_EmptySet
  <2>3. SumFunctionOnSet(Units, {} \cup {o}) = SumFunctionOnSet(Units, {}) + Units[o]
    BY <2>2, SumAdd
  <2>4. SumFunctionOnSet(Units, {}) = 0
    BY SumEmpty
  <2> QED
    BY <1>2, <2>1, <2>2, <2>3, <2>4 DEF Num, Total
<1> QED
  BY <1>1, <1>2

\* What some things at the same place come to.
LEMMA NumberOfIs ==
  ASSUME NEW p, Forest(p), NEW h, NEW T, T \subseteq Carried(p, h)
  PROVE  NumberOf(p, T) = Total(UNION {Self(p, o) : o \in T}) /\ NumberOf(p, T) \in Int
<1> DEFINE G == [o \in T |-> Num(p, o)]
           D == [o \in T |-> Self(p, o)]
<1>1. T \subseteq Objs /\ \A o \in T : p[o] = h
  BY DEF Carried
<1>2. Parts(D, T, Objs)
  <2>1. \A o \in T : D[o] \subseteq Objs
    BY <1>1, SelfType
  <2>2. \A o, q \in T : o # q => D[o] \cap D[q] = {}
    BY <1>1, SelfApart
  <2> QED
    BY <2>1, <2>2 DEF Parts
<1>3. \A o \in T : G[o] = SumFunctionOnSet(Units, D[o])
  BY <1>1, NumIs DEF Total
<1>4. DOMAIN G = T /\ UNION {D[o] : o \in T} = UNION {Self(p, o) : o \in T}
  OBVIOUS
<1>5. IsFiniteSet(T)
  BY <1>1, TotalType
<1>6. UNION {Self(p, o) : o \in T} \subseteq Objs
  BY <1>1, SelfType
<1> HIDE DEF D, G
<1>7. SumFunctionOnSet(G, T) = SumFunctionOnSet(Units, UNION {D[o] : o \in T})
  BY <1>2, <1>3, <1>5, UnitsType, SumParts
<1>8. NumberOf(p, T) = SumFunctionOnSet(G, T)
  BY <1>4 DEF NumberOf, SumFunction, G
<1> QED
  BY <1>4, <1>6, <1>7, <1>8, TotalType DEF Total

LEMMA CarriersAre ==
  ASSUME NEW p, NEW k \in Holders, NEW c \in Chars
  PROVE  c \in Carriers(p, k) <=> k \in Under(p, c)
<1>1. c \notin Holders /\ k \in Objs
  BY ObjectsAssumption, HoldersAre
<1> QED
  BY <1>1, HoldersAre DEF Carriers, Under, Carried

Tallied(s, P) ==
  /\ Forest(s.place)
  /\ s.number \in [Chars -> Int]
  /\ \A c \in P : s.number[c] = Total(Under(s.place, c))

MovedTo(q, p, o, h) ==
  \A c \in Chars : Under(q, c) = IF h = c \/ h \in Under(p, c)
                                 THEN Under(p, c) \cup Self(p, o)
                                 ELSE Under(p, c) \ Self(p, o)

LEMMA UnderMoved ==
  ASSUME NEW p, Forest(p), NEW o \in Objs, NEW h \in Places, h \in Objs => h \in Holders,
         h \notin Self(p, o), NEW q, q = [p EXCEPT ![o] = h]
  PROVE  Forest(q) /\ Self(q, o) = Self(p, o) /\ MovedTo(q, p, o, h)
<1> DEFINE W == Self(p, o)
<1>1. /\ W \subseteq Objs /\ o \in W /\ h \notin W
      /\ \A x \in Objs : x \in W <=> x = o \/ p[x] \in W
  BY UnderWithin DEF Within, Self
<1>2. /\ p \in [Objs -> Places] /\ q \in [Objs -> Places]
      /\ q[o] = h /\ \A x \in Objs : x # o => q[x] = p[x]
  BY DEF Forest
<1>3. Forest(q)
  <2>1. \A x \in Objs : q[x] \in Objs => q[x] \in Holders
    BY <1>2 DEF Forest
  <2>2. ASSUME NEW S \in SUBSET Holders, Closed(S, q) PROVE S = {}
    <3> DEFINE D == S \ W
    <3>1. D \subseteq Objs /\ \A x \in D : p[x] \in D
      BY <1>1, <1>2, <2>2, HoldersAre DEF Closed
    <3> HIDE DEF W, D
    <3>2. D = {}
      BY <3>1, NoCycle
    <3>3. S \subseteq W
      BY <3>2 DEF D
    <3>4. o \notin S
      BY <1>1, <1>2, <2>2, <3>3 DEF Closed
    <3>5. Closed(S, p)
      BY <1>2, <2>2, <3>4, HoldersAre DEF Closed
    <3> QED
      BY <3>5 DEF Forest
  <2> QED
    BY <1>2, <2>1, <2>2 DEF Forest
<1>4. Self(q, o) = W
  <2> DEFINE B == Under(p, o)
  <2>1. Within(B, p, o) /\ o \notin B /\ h \notin B /\ h # o
    BY UnderWithin, NotUnderItself DEF Self
  <2> HIDE DEF B
  <2>2. Within(B, q, o)
    BY <1>2, <2>1 DEF Within
  <2>3. Under(q, o) = B
    BY <1>3, <2>2, UnderIs
  <2> QED
    BY <2>3 DEF Self, B
<1>5. ASSUME NEW c \in Chars
      PROVE  Under(q, c) = IF h = c \/ h \in Under(p, c) THEN Under(p, c) \cup W
                                                         ELSE Under(p, c) \ W
  <2>1. c \notin W
    BY <1>1, ObjectsAssumption
  <2> DEFINE R == {o}
  <2>2. Shifted(q, p, R, W)
    BY <1>1, <1>2, <1>3 DEF Shifted
  <2> HIDE DEF W
  <2>3. CASE h = c \/ h \in Under(p, c)
    <3>1. Into(q, p, R, c)
      BY <1>2, <2>3 DEF Into
    <3> HIDE DEF R
    <3> QED
      BY <2>1, <2>2, <2>3, <3>1, UnderGiven
  <2>4. CASE ~(h = c \/ h \in Under(p, c))
    <3>1. Away(q, p, R, W, c)
      BY <1>2, <2>4 DEF Away
    <3> HIDE DEF R
    <3> QED
      BY <2>1, <2>2, <2>4, <3>1, UnderTaken
  <2> QED
    BY <2>3, <2>4
<1> QED
  BY <1>3, <1>4, <1>5 DEF MovedTo

\* What comes, when In, and what goes, when Out.
Changed(n, m, In, Out) == (n + (IF In THEN m ELSE 0)) - (IF Out THEN m ELSE 0)

LEMMA TotalMoved ==
  ASSUME NEW A, A \subseteq Objs, NEW W, W \subseteq Objs, NEW In, NEW Out, In \in BOOLEAN, Out \in BOOLEAN,
         Out => W \subseteq A, ~Out => W \cap A = {},
         NEW B, In => B = A \cup W, ~In => B = A \ W
  PROVE  Total(B) = Changed(Total(A), Total(W), In, Out)
<1> DEFINE n == Total(A)
           m == Total(W)
<1>1. n \in Int /\ m \in Int
  BY TotalType
<1>2. /\ Changed(n, m, TRUE, TRUE) = n /\ Changed(n, m, FALSE, FALSE) = n
      /\ Changed(n, m, TRUE, FALSE) = n + m /\ Changed(n, m, FALSE, TRUE) = n - m
  <2> HIDE DEF n, m
  <2> QED
    BY <1>1 DEF Changed
<1> HIDE DEF Changed
<1>3. CASE In = TRUE /\ Out = TRUE
  <2>1. B = A
    BY <1>3
  <2> QED
    BY <1>2, <1>3, <2>1
<1>4. CASE In = FALSE /\ Out = FALSE
  <2>1. B = A
    BY <1>4
  <2> QED
    BY <1>2, <1>4, <2>1
<1>5. CASE In = TRUE /\ Out = FALSE
  <2>1. Total(A \cup W) = n + m
    BY <1>5, TotalUnion
  <2> QED
    BY <1>2, <1>5, <2>1
<1>6. CASE In = FALSE /\ Out = TRUE
  <2>1. Total(A \ W) = n - m
    BY <1>6, TotalLess
  <2> QED
    BY <1>2, <1>6, <2>1
<1> QED
  BY <1>3, <1>4, <1>5, <1>6

\* o goes to h, and the numbers of those that had it or get it follow.
Follow(t, s, o, h) ==
  /\ t.place = [s.place EXCEPT ![o] = h]
  /\ t.number \in [Chars -> Int]
  /\ \A c \in Chars :
       t.number[c] = (s.number[c]
                       + (IF h = c \/ h \in Under(s.place, c) THEN Num(s.place, o) ELSE 0))
                       - (IF o \in Under(s.place, c) THEN Num(s.place, o) ELSE 0)

LEMMA TallyMoved ==
  ASSUME NEW s, NEW P, P \subseteq Chars, Tallied(s, P), NEW o \in Objs,
         NEW h \in Places, h \in Objs => h \in Holders, h \notin Self(s.place, o),
         NEW t, Follow(t, s, o, h)
  PROVE  Tallied(t, P) /\ Self(t.place, o) = Self(s.place, o)
<1> DEFINE p == s.place
           q == t.place
           W == Self(p, o)
           n == Num(p, o)
<1>1. Forest(p) /\ q = [p EXCEPT ![o] = h]
  BY DEF Tallied, Follow
<1> HIDE DEF p, q
<1>2. h \notin Self(p, o)
  BY DEF p
<1>3. Forest(q) /\ Self(q, o) = W /\ MovedTo(q, p, o, h)
  BY <1>1, <1>2, UnderMoved
<1>4. n = Total(W) /\ n \in Int /\ W \subseteq Objs /\ Total(W) \in Int
  BY <1>1, NumIs, SelfType, TotalType
<1>5. ASSUME NEW c \in P PROVE t.number[c] = Total(Under(q, c))
  <2> DEFINE A == Under(p, c)
  <2>1. /\ c \in Chars /\ s.number[c] = Total(A) /\ Total(A) \in Int /\ A \subseteq Objs
    BY <1>1, TotalType, UnderWithin DEF Tallied, Within, p
  <2>2. t.number[c] = (Total(A) + (IF h = c \/ h \in A THEN n ELSE 0)) - (IF o \in A THEN n ELSE 0)
    BY <2>1 DEF Follow, p
  <2>3. o \in A => W \subseteq A
    BY <1>1, UnderDeeper
  <2>4. o \notin A => W \cap A = {}
    <3>1. c \notin W
      BY <1>4, <2>1, ObjectsAssumption
    <3> QED
      BY <1>1, <3>1, UnderApart
  <2>5. Under(q, c) = IF h = c \/ h \in A THEN A \cup W ELSE A \ W
    BY <1>3, <2>1 DEF MovedTo
  <2> DEFINE In == h = c \/ h \in A
             Out == o \in A
  <2>6. In \in BOOLEAN /\ Out \in BOOLEAN
    OBVIOUS
  <2>7. t.number[c] = Changed(Total(A), n, In, Out)
    BY <2>2 DEF Changed
  <2>8. (Out => W \subseteq A) /\ (~Out => W \cap A = {})
    BY <2>3, <2>4
  <2>9. (In => Under(q, c) = A \cup W) /\ (~In => Under(q, c) = A \ W)
    BY <2>5
  <2> DEFINE B == Under(q, c)
  <2> HIDE DEF A, W, n, In, Out
  <2>10. (In => B = A \cup W) /\ (~In => B = A \ W)
    BY <2>9
  <2> HIDE DEF B
  <2>11. Total(B) = Changed(Total(A), Total(W), In, Out)
    BY <1>4, <2>1, <2>6, <2>8, <2>10, TotalMoved
  <2> QED
    BY <1>4, <2>7, <2>11 DEF B
<1>6. t.number \in [Chars -> Int]
  BY DEF Follow
<1> QED
  BY <1>3, <1>5, <1>6 DEF Tallied, p, q, W

-----------------------------------------------------------------------------
(***************************************************************************)
(* The building blocks keep the tally.                                     *)
(***************************************************************************)

\* Neither with a character nor in a container.
Loose(s, o) == s.place[o] \notin Chars \cup Objs

LEMMA ApartFrom ==
  /\ Chars \cap Objs = {} /\ Rooms \cap Objs = {} /\ Chars \cap Rooms = {}
  /\ None \notin Objs \cup Chars \cup Rooms
BY ObjectsAssumption

\* What is with a character itself is under that one alone.
LEMMA UnderAt ==
  ASSUME NEW p, Forest(p), NEW o \in Objs, NEW c \in Chars
  PROVE  /\ p[o] \notin Objs => (o \in Under(p, c) <=> p[o] = c)
         /\ p[o] \in Objs => (o \in Under(p, c) <=> p[o] \in Under(p, c))
         /\ Under(p, c) \subseteq Objs
<1>1. Within(Under(p, c), p, c)
  BY UnderWithin
<1> QED
  BY <1>1, ApartFrom DEF Within

LEMMA UnderObjs == \A p, h : Forest(p) => Under(p, h) \subseteq Objs
BY UnderWithin DEF Within

LEMMA ToCharTally ==
  ASSUME NEW s, NEW P, P \subseteq Chars, Tallied(s, P), NEW o \in Objs, Loose(s, o), NEW c \in Chars
  PROVE  Tallied(ToChar(s, o, c), P)
<1> DEFINE t == ToChar(s, o, c)
           p == s.place
<1>1. Forest(p) /\ Self(p, o) \subseteq Objs /\ Num(p, o) \in Int
  BY SelfType, NumIs DEF Tallied
<1>2. \A d \in Chars : o \notin Under(p, d) /\ c \notin Under(p, d)
  BY <1>1, UnderAt, ApartFrom DEF Loose
<1>3. t.place = [p EXCEPT ![o] = c] /\ t.number = [s.number EXCEPT ![c] = @ + Num(p, o)]
  BY DEF ToChar
<1>4. s.number \in [Chars -> Int]
  BY DEF Tallied
<1> HIDE DEF t, p
<1>5. \A d \in Chars : t.number[d] = s.number[d] + (IF c = d THEN Num(p, o) ELSE 0)
  BY <1>1, <1>3, <1>4
<1>6. t.number \in [Chars -> Int]
  BY <1>1, <1>3, <1>4
<1>7. Follow(t, s, o, c)
  BY <1>1, <1>2, <1>3, <1>4, <1>5, <1>6 DEF Follow, p
<1>8. c \in Places /\ c \notin Objs /\ c \notin Self(s.place, o)
  BY <1>1, ApartFrom DEF Places, p
<1> QED
  BY <1>7, <1>8, TallyMoved DEF t

LEMMA ToRoomTally ==
  ASSUME NEW s, Rec(s), NEW P, P \subseteq Chars, Tallied(s, P), NEW o \in Objs, Loose(s, o),
         NEW r \in Rooms \cup {None}
  PROVE  Tallied(ToRoom(s, o, r), P)
<1> DEFINE t == ToRoom(s, o, r)
           p == s.place
<1>1. Forest(p) /\ Self(p, o) \subseteq Objs
  BY SelfType DEF Tallied
<1>2. \A d \in Chars : o \notin Under(p, d) /\ r \notin Under(p, d) /\ r # d
  BY <1>1, UnderAt, ApartFrom DEF Loose
<1>3. t.place = [p EXCEPT ![o] = r] /\ t.number = s.number
  BY DEF ToRoom, Rec
<1>4. s.number \in [Chars -> Int]
  BY DEF Tallied
<1> HIDE DEF t, p
<1>5. Follow(t, s, o, r)
  BY <1>1, <1>2, <1>3, <1>4 DEF Follow, p
<1>6. r \in Places /\ r \notin Objs /\ r \notin Self(s.place, o)
  BY <1>1, ApartFrom DEF Places, p
<1> QED
  BY <1>5, <1>6, TallyMoved DEF t

LEMMA ToObjTally ==
  ASSUME NEW s, NEW P, P \subseteq Chars, Tallied(s, P), NEW o \in Objs, Loose(s, o),
         NEW k \in Holders, k \notin Self(s.place, o)
  PROVE  Tallied(ToObj(s, o, k), P)
<1> DEFINE t == ToObj(s, o, k)
           p == s.place
<1>1. Forest(p) /\ Num(p, o) \in Int /\ k \in Objs
  BY NumIs, HoldersAre DEF Tallied
<1>2. \A d \in Chars : o \notin Under(p, d) /\ k # d
  BY <1>1, UnderAt, ApartFrom DEF Loose
<1>3. t.place = [p EXCEPT ![o] = k] /\ t.number = Count(s, k, Num(p, o))
  BY DEF ToObj
<1>4. s.number \in [Chars -> Int]
  BY DEF Tallied
<1>5. \A d \in Chars : Count(s, k, Num(p, o))[d] =
        s.number[d] + (IF k \in Under(p, d) THEN Num(p, o) ELSE 0)
  BY <1>1, <1>4, CarriersAre DEF Count
<1>6. Count(s, k, Num(p, o)) \in [Chars -> Int]
  BY <1>1, <1>4 DEF Count
<1> HIDE DEF t, p
<1>7. Follow(t, s, o, k)
  BY <1>1, <1>2, <1>3, <1>4, <1>5, <1>6 DEF Follow, p
<1>8. k \in Places
  BY <1>1 DEF Places
<1> QED
  BY <1>7, <1>8, TallyMoved DEF t

LEMMA FromObjTally ==
  ASSUME NEW s, NEW P, P \subseteq Chars, Tallied(s, P), NEW o \in Objs, s.place[o] \in Objs
  PROVE  Tallied(FromObj(s, o), P) /\ FromObj(s, o).place = [s.place EXCEPT ![o] = None]
<1> DEFINE t == FromObj(s, o)
           p == s.place
           k == p[o]
<1>1. Forest(p) /\ Num(p, o) \in Int /\ k \in Holders /\ Self(p, o) \subseteq Objs
  BY NumIs, SelfType DEF Tallied, Forest
<1>2. \A d \in Chars : /\ o \in Under(p, d) <=> k \in Under(p, d)
                       /\ None # d /\ None \notin Under(p, d)
  BY <1>1, UnderAt, ApartFrom
<1>3. t.place = [p EXCEPT ![o] = None] /\ t.number = Count(s, k, -Num(p, o))
  BY DEF FromObj
<1>4. s.number \in [Chars -> Int]
  BY DEF Tallied
<1>5. \A d \in Chars : Count(s, k, -Num(p, o))[d] =
        s.number[d] - (IF k \in Under(p, d) THEN Num(p, o) ELSE 0)
  BY <1>1, <1>4, CarriersAre DEF Count
<1>6. Count(s, k, -Num(p, o)) \in [Chars -> Int]
  BY <1>1, <1>4 DEF Count
<1> HIDE DEF t, p, k
<1>7. Follow(t, s, o, None)
  BY <1>1, <1>2, <1>3, <1>4, <1>5, <1>6 DEF Follow, p
<1>8. None \in Places /\ None \notin Objs /\ None \notin Self(s.place, o)
  BY <1>1, ApartFrom DEF Places, p
<1>9. Tallied(t, P)
  BY <1>7, <1>8, TallyMoved
<1> QED
  BY <1>3, <1>9 DEF t, p

LEMMA OffListTally ==
  ASSUME NEW s, NEW P, P \subseteq Chars, Tallied(s, P), NEW o \in Objs, s.place[o] \in Chars
  PROVE  /\ Tallied(OffList(s, o), P) /\ Rec(OffList(s, o))
         /\ OffList(s, o).place = [s.place EXCEPT ![o] = None]
         /\ Self(OffList(s, o).place, o) = Self(s.place, o)
<1> DEFINE t == OffList(s, o)
           p == s.place
           c == p[o]
<1>1. Forest(p) /\ Num(p, o) \in Int /\ Self(p, o) \subseteq Objs /\ c \notin Objs /\ c \in Chars
  BY NumIs, SelfType, ApartFrom DEF Tallied
<1>2. \A d \in Chars : /\ o \in Under(p, d) <=> c = d
                       /\ None # d /\ None \notin Under(p, d)
  BY <1>1, UnderAt, ApartFrom
<1>3. t.place = [p EXCEPT ![o] = None] /\ t.number = [s.number EXCEPT ![c] = @ - Num(p, o)]
  BY DEF OffList
<1>4. s.number \in [Chars -> Int]
  BY DEF Tallied
<1> HIDE DEF t, p, c
<1>5. \A d \in Chars : t.number[d] = s.number[d] - (IF c = d THEN Num(p, o) ELSE 0)
  BY <1>1, <1>3, <1>4
<1>6. t.number \in [Chars -> Int]
  BY <1>1, <1>3, <1>4
<1>7. Follow(t, s, o, None)
  BY <1>1, <1>2, <1>3, <1>4, <1>5, <1>6 DEF Follow, p
<1>8. None \in Places /\ None \notin Objs /\ None \notin Self(s.place, o)
  BY <1>1, ApartFrom DEF Places, p
<1>9. Tallied(t, P) /\ Self(t.place, o) = Self(s.place, o)
  BY <1>7, <1>8, TallyMoved
<1> QED
  BY <1>3, <1>9, OffShape DEF t, p

\* equip_char: the object falls, or nothing is counted.
LEMMA EquipTally ==
  ASSUME NEW s, Rec(s), room \in [Chars -> Rooms \cup {None}],
         NEW P, P \subseteq Chars, Tallied(s, P), NEW o \in Objs, s.place[o] \in Chars, NEW loc, NEW Z
  PROVE  Tallied(Equip(s, o, loc, Z), P) /\ Rec(Equip(s, o, loc, Z))
<1>1. CASE o \in Z
  <2> DEFINE f == OffList(s, o)
             r == room[s.place[o]]
  <2>1. Tallied(f, P) /\ Rec(f) /\ f.place = [s.place EXCEPT ![o] = None]
    BY OffListTally
  <2>2. r \in Rooms \cup {None} /\ Equip(s, o, loc, Z) = ToRoom(f, o, r)
    BY <1>1 DEF Equip
  <2> HIDE DEF f, r
  <2>3. Loose(f, o)
    BY <2>1, ApartFrom DEF Loose, Tallied, Forest
  <2>4. Tallied(ToRoom(f, o, r), P)
    BY <2>1, <2>2, <2>3, ToRoomTally
  <2>5. Rec(ToRoom(f, o, r))
    BY <2>1, ToShape DEF Put1
  <2> QED
    BY <2>2, <2>4, <2>5
<1>2. CASE o \notin Z
  <2> DEFINE t == [s EXCEPT !.wear[o] = loc]
  <2>1. Rec(t) /\ t.place = s.place /\ t.number = s.number
    BY DEF Rec
  <2>2. Equip(s, o, loc, Z) = t
    BY <1>2 DEF Equip
  <2> HIDE DEF t
  <2>3. Tallied(t, P)
    BY <2>1 DEF Tallied
  <2> QED
    BY <2>1, <2>2, <2>3
<1> QED
  BY <1>1, <1>2

\* unequip_char: the second weapon may fall.
LEMMA UnequipTally ==
  ASSUME NEW s, Rec(s), room \in [Chars -> Rooms \cup {None}],
         NEW P, P \subseteq Chars, Tallied(s, P), NEW o \in Objs, s.place[o] \in Chars, NEW Z
  PROVE  Tallied(Unequip(s, o, Z), P) /\ Rec(Unequip(s, o, Z))
<1> DEFINE t == [s EXCEPT !.wear[o] = "none"]
           Q == Second(s, s.place[o])
<1>1. Rec(t) /\ t.place = s.place /\ t.number = s.number
  BY DEF Rec
<1>2. CASE s.wear[o] = "wield" /\ Q # {}
  <2> DEFINE q == CHOOSE x \in Q : TRUE
  <2>1. Unequip(s, o, Z) = Equip(t, q, "wield", Z)
    BY <1>2 DEF Unequip
  <2>2. q \in Q
    BY <1>2
  <2> HIDE DEF q, t
  <2>3. q \in Objs /\ t.place[q] \in Chars
    BY <1>1, <2>2 DEF Second, Carried
  <2>4. Tallied(t, P)
    BY <1>1 DEF Tallied
  <2> QED
    BY <1>1, <2>1, <2>3, <2>4, EquipTally
<1>3. CASE ~(s.wear[o] = "wield" /\ Q # {})
  <2>1. Unequip(s, o, Z) = t
    BY <1>3 DEF Unequip
  <2> HIDE DEF t, Q
  <2>2. Tallied(t, P)
    BY <1>1 DEF Tallied
  <2> QED
    BY <1>1, <2>1, <2>2
<1> QED
  BY <1>2, <1>3

\* In t, o is nowhere, and of the rest at most something carried has fallen.
Lifted(t, s, o) ==
  /\ Rec(t) /\ t.place[o] = None
  /\ \A x \in Objs \ {o} : \/ t.place[x] = s.place[x]
                           \/ s.place[x] \in Chars /\ t.place[x] \in Rooms

\* obj_from_char
LEMMA FromCharTally ==
  ASSUME NEW s, room \in [Chars -> Rooms \cup {None}], Sound(s, room),
         NEW P, P \subseteq Chars, Tallied(s, P), NEW o \in Objs, s.place[o] \in Chars, NEW Z
  PROVE  /\ Tallied(FromChar(s, o, Z), P) /\ Lifted(FromChar(s, o, Z), s, o)
         /\ s.wear[o] = "none" => FromChar(s, o, Z).place = [s.place EXCEPT ![o] = None]
<1>1. \E u : /\ Tallied(u, P) /\ FromChar(s, o, Z) = OffList(u, o)
             /\ s.wear[o] = "none" => u = s
             /\ u.place[o] = s.place[o]
             /\ \A x \in Objs : \/ u.place[x] = s.place[x]
                                \/ s.place[x] \in Chars /\ u.place[x] \in Rooms
  <2>1. CASE s.wear[o] = "none"
    BY <2>1 DEF FromChar
  <2>2. CASE s.wear[o] # "none"
    <3> DEFINE u == Unequip(s, o, Z)
    <3>1. FromChar(s, o, Z) = OffList(u, o)
      BY <2>2 DEF FromChar
    <3>2. Off(u, s, o)
      BY <2>2, UnequipSound
    <3>3. Tallied(u, P)
      BY UnequipTally DEF Sound, IsState
    <3> HIDE DEF u
    <3> QED
      BY <2>2, <3>1, <3>2, <3>3 DEF Off
  <2> QED
    BY <2>1, <2>2
<1>2. PICK u : /\ Tallied(u, P) /\ FromChar(s, o, Z) = OffList(u, o)
               /\ s.wear[o] = "none" => u = s
               /\ u.place[o] = s.place[o]
               /\ \A x \in Objs : \/ u.place[x] = s.place[x]
                                  \/ s.place[x] \in Chars /\ u.place[x] \in Rooms
  BY <1>1
<1>3. /\ Tallied(OffList(u, o), P) /\ Rec(OffList(u, o))
      /\ OffList(u, o).place = [u.place EXCEPT ![o] = None]
  BY <1>2, OffListTally
<1>4. u.place \in [Objs -> Places]
  BY <1>2 DEF Tallied, Forest
<1>5. Lifted(OffList(u, o), s, o)
  BY <1>2, <1>3, <1>4 DEF Lifted
<1> QED
  BY <1>2, <1>3, <1>5

LEMMA FromTally ==
  ASSUME NEW s, room \in [Chars -> Rooms \cup {None}], Sound(s, room),
         NEW P, P \subseteq Chars, Tallied(s, P), NEW o \in Objs, NEW Z
  PROVE  Tallied(From(s, o, Z), P) /\ Lifted(From(s, o, Z), s, o)
<1>0. s.place \in [Objs -> Places] /\ Rec(s)
  BY DEF Sound, IsState
<1>1. CASE s.place[o] \in Chars
  BY <1>1, FromCharTally DEF From
<1>2. CASE s.place[o] \in Objs
  <2>1. From(s, o, Z) = FromObj(s, o)
    BY <1>2, ApartFrom DEF From
  <2>2. Tallied(FromObj(s, o), P) /\ FromObj(s, o).place = [s.place EXCEPT ![o] = None]
    BY <1>2, FromObjTally
  <2>3. Rec(FromObj(s, o))
    BY <1>0, ToShape DEF Put1
  <2>4. Lifted(FromObj(s, o), s, o)
    BY <1>0, <2>2, <2>3 DEF Lifted
  <2> QED
    BY <2>1, <2>2, <2>4
<1>3. CASE s.place[o] \notin Chars \cup Objs
  <2>1. From(s, o, Z) = ToRoom(s, o, None)
    BY <1>3 DEF From
  <2>2. Tallied(ToRoom(s, o, None), P)
    BY <1>0, <1>3, ToRoomTally DEF Loose
  <2>3. Put1(ToRoom(s, o, None), s, o, None)
    BY <1>0, ToShape
  <2>4. Lifted(ToRoom(s, o, None), s, o)
    BY <1>0, <2>3 DEF Lifted, Put1
  <2> QED
    BY <2>1, <2>2, <2>4
<1> QED
  BY <1>1, <1>2, <1>3

\* extract_obj: what o takes along was counted with it.
LEMMA ExtractTally ==
  ASSUME NEW s, room \in [Chars -> Rooms \cup {None}], Sound(s, room),
         NEW P, P \subseteq Chars, Tallied(s, P), NEW o \in Objs, NEW Z
  PROVE  Tallied(Extract(s, o, Z), P)
<1> DEFINE D == {o} \cup (IF o \in Holders THEN Below(s.place, o) ELSE {})
           t == From(s, o, Z)
           e == Extract(s, o, Z)
           p == t.place
<1>1. Tallied(t, P) /\ Lifted(t, s, o)
  BY FromTally
<1>2. Forest(s.place) /\ Forest(p)
  BY <1>1 DEF Tallied
<1>3. D = Self(s.place, o)
  BY <1>2, UnderNot DEF Self, Under
<1>4. e = [t EXCEPT !.place = [x \in Objs |-> IF x \in D THEN None ELSE @[x]]]
  BY DEF Extract
<1> HIDE DEF e, t, D
<1>5. e.place = [x \in Objs |-> IF x \in D THEN None ELSE p[x]] /\ e.number = t.number
  BY <1>1, <1>4 DEF Lifted, Rec
<1>6. /\ D \subseteq Objs /\ o \in D
      /\ \A x \in Objs : x \in D <=> x = o \/ s.place[x] \in D
  BY <1>2, <1>3, UnderWithin DEF Within, Self
<1>7. \A x \in Objs : x \in D <=> x = o \/ p[x] \in D
  <2>1. \A x \in Objs \ {o} : p[x] \in D <=> s.place[x] \in D
    BY <1>1, <1>6, ApartFrom DEF Lifted
  <2> QED
    BY <1>6, <2>1
<1>8. Forest(e.place)
  <2>1. Sound(e, room)
    BY ExtractSound DEF Gone, e
  <2> QED
    BY <2>1, TreeForest DEF Sound, IsState
<1>9. p[o] = None
  BY <1>1 DEF Lifted
<1> HIDE DEF p
<1>10. ASSUME NEW c \in P PROVE Under(e.place, c) = Under(p, c)
  <2> DEFINE A == Under(p, c)
             B == D \cap A
  <2>1. Within(A, p, c) /\ c \in Chars /\ c \notin D /\ c # None /\ None \notin A
    BY <1>2, <1>6, UnderWithin, ApartFrom DEF Within
  <2>2. B \subseteq Objs /\ \A x \in B : p[x] \in B
    BY <1>6, <1>7, <1>9, <2>1 DEF Within
  <2> HIDE DEF A, B
  <2>3. B = {}
    BY <1>2, <2>2, NoCycle
  <2>4. D \cap A = {}
    BY <2>3 DEF B
  <2>5. Within(A, e.place, c)
    <3>1. \A x \in A : x \notin D /\ e.place[x] = p[x]
      BY <1>5, <2>1, <2>4 DEF Within
    <3>2. \A x \in Objs \ A : e.place[x] = p[x] \/ e.place[x] = None
      BY <1>5
    <3> QED
      BY <2>1, <3>1, <3>2 DEF Within
  <2>6. Under(e.place, c) = A
    BY <1>8, <2>5, UnderIs
  <2> QED
    BY <2>6 DEF A
<1>11. /\ t.number \in [Chars -> Int]
       /\ \A c \in P : t.number[c] = Total(Under(p, c))
  BY <1>1 DEF Tallied, p
<1>12. Tallied(e, P)
  BY <1>5, <1>8, <1>10, <1>11 DEF Tallied
<1> QED
  BY <1>12 DEF e

-----------------------------------------------------------------------------
(***************************************************************************)
(* The actions keep the tally.                                             *)
(***************************************************************************)
Tally == Tallied(now, Present)

LEMMA TallyOn ==
  ASSUME NEW s, NEW P, Tallied(s, P), NEW t, Goes(s, t), Present' \subseteq P
  PROVE  Tally'
BY DEF Tally, Tallied, now, Goes

LEMMA TallyKeep ==
  ASSUME NEW s, NEW P, Tallied(s, P), Becomes(s), Present' \subseteq P
  PROVE  Tally'
BY TallyOn DEF Becomes

LEMMA NowTally ==
  ASSUME Inv, Tally
  PROVE  /\ Tallied(now, Present) /\ Present \subseteq Chars /\ Forest(place)
         /\ number \in [Chars -> Int] /\ \A c \in Present : number[c] = Total(Under(place, c))
         /\ (room' = room => Present' \subseteq Present)
BY DEF Tally, Tallied, now, Present

\* What has just been lifted can be put anywhere.
LEMMA LooseNow ==
  ASSUME NEW f, NEW o \in Objs, f.place[o] \notin Chars \cup Objs
  PROVE  Loose(f, o)
BY DEF Loose

LEMMA PickUpTally ==
  ASSUME Inv, Tally, NEW c \in Chars, NEW o \in Objs,
         Get(c, o) \/ \E k \in Holders : GetFrom(c, o, k)
  PROVE  Tally'
<1>1. /\ Rec(now) /\ now.place = place /\ place \in [Objs -> Places]
      /\ Tallied(now, Present) /\ Present \subseteq Chars
  BY NowSound, NowTally
<1>2. room' = room
  BY DEF Get, GetFrom
<1>3. PICK f : Tallied(f, Present) /\ f.place[o] = None /\ Becomes(ToChar(f, o, c))
  <2>1. CASE Get(c, o)
    <3>1. Loose(now, o)
      BY <1>1, <2>1, PresentSpot DEF Get, Loose
    <3>2. Tallied(ToRoom(now, o, None), Present)
      BY <1>1, <3>1, ToRoomTally
    <3>3. Put1(ToRoom(now, o, None), now, o, None)
      BY <1>1, ToShape
    <3>4. ToRoom(now, o, None).place[o] = None
      BY <1>1, <3>3 DEF Put1
    <3> QED
      BY <2>1, <3>2, <3>4 DEF Get
  <2>2. CASE \E k \in Holders : GetFrom(c, o, k)
    <3>1. place[o] \in Objs /\ Becomes(ToChar(FromObj(now, o), o, c))
      BY <2>2, HoldersAre DEF GetFrom
    <3>2. /\ Tallied(FromObj(now, o), Present)
          /\ FromObj(now, o).place = [place EXCEPT ![o] = None]
      BY <1>1, <3>1, FromObjTally
    <3> QED
      BY <1>1, <3>1, <3>2
  <2> QED
    BY <2>1, <2>2
<1>4. Tallied(ToChar(f, o, c), Present)
  BY <1>1, <1>3, LooseNow, ApartFrom, ToCharTally
<1> QED
  BY <1>2, <1>3, <1>4, NowTally, TallyKeep

\* Something goes from somebody to a room or to somebody.
LEMMA HandTally ==
  ASSUME Inv, Tally, NEW o \in Objs, place[o] \in Chars, NEW Z, NEW h \in Rooms \cup Chars,
         NEW t, \/ h \in Chars /\ t = ToChar(FromChar(now, o, Z), o, h)
                \/ h \in Rooms /\ t = ToRoom(FromChar(now, o, Z), o, h)
  PROVE  Tallied(t, Present)
<1> DEFINE f == FromChar(now, o, Z)
<1>1. Tallied(f, Present) /\ Lifted(f, now, o) /\ Present \subseteq Chars
  BY NowSound, NowTally, FromCharTally
<1> HIDE DEF f
<1>2. Rec(f) /\ Loose(f, o)
  BY <1>1, LooseNow, ApartFrom DEF Lifted
<1> QED
  BY <1>1, <1>2, ToCharTally, ToRoomTally DEF f

LEMMA GiveTally ==
  ASSUME Inv, Tally, NEW c \in Chars, NEW o \in Objs, NEW d \in Chars,
         Give(c, o, d) \/ Snatch(c, o, d)
  PROVE  Tally'
<1> DEFINE t == ToChar(FromChar(now, o, {}), o, d)
<1>1. place[o] \in Chars /\ Becomes(t) /\ room' = room
  BY DEF Give, Snatch, InHand
<1>2. Tallied(t, Present)
  BY <1>1, HandTally
<1> HIDE DEF t
<1> QED
  BY <1>1, <1>2, NowTally, TallyKeep

LEMMA DropTally ==
  ASSUME Inv, Tally, NEW c \in Chars, NEW o \in Objs, Drop(c, o)
  PROVE  Tally'
<1> DEFINE t == ToRoom(FromChar(now, o, {}), o, room[c])
<1>1. /\ place[o] \in Present /\ room[c] \in Spots(room) /\ room[c] \in Rooms /\ room' = room
      /\ (Becomes(t) \/ Becomes(Extract(t, o, {})))
  BY PresentSpot DEF Drop, InHand
<1>2. Sound(t, room) /\ Tallied(t, Present)
  BY <1>1, HandOver, HandTally, PresentSpot
<1> HIDE DEF t
<1>3. Tallied(Extract(t, o, {}), Present)
  BY <1>2, ExtractTally, NowSound, NowTally
<1> QED
  BY <1>1, <1>2, <1>3, NowTally, TallyKeep

LEMMA SellTally ==
  ASSUME Inv, Tally, NEW c \in Chars, NEW o \in Objs, NEW d \in Chars, Sell(c, o, d)
  PROVE  Tally'
<1> DEFINE t == ToChar(FromChar(now, o, {}), o, d)
           e == Extract(now, o, {})
<1>1. place[o] \in Chars /\ room' = room /\ (Becomes(t) \/ Becomes(e))
  BY DEF Sell, InHand
<1>2. Tallied(t, Present)
  BY <1>1, HandTally
<1>3. Tallied(e, Present)
  BY ExtractTally, NowSound, NowTally
<1> HIDE DEF t, e
<1> QED
  BY <1>1, <1>2, <1>3, NowTally, TallyKeep

LEMMA PutTally ==
  ASSUME Inv, Tally, NEW c \in Chars, NEW o \in Objs, NEW k \in Holders, Put(c, o, k)
  PROVE  Tally'
<1> DEFINE f == FromChar(now, o, {})
           t == ToObj(f, o, k)
<1>1. /\ place[o] \in Chars /\ wear[o] = "none" /\ k # o /\ place[k] \in Spots(room)
      /\ room' = room /\ Becomes(t)
  BY PresentSpot DEF Put, InHand, Here
<1>2. /\ Rec(now) /\ now.place = place /\ now.wear = wear /\ place \in [Objs -> Places]
      /\ Tallied(now, Present) /\ Present \subseteq Chars /\ Forest(place)
  BY NowSound, NowTally
<1>3. Tallied(f, Present) /\ Lifted(f, now, o) /\ f.place = [place EXCEPT ![o] = None]
  BY <1>1, <1>2, NowSound, FromCharTally
<1>4. k \notin Self(place, o)
  <2>1. Within(Under(place, o), place, o) /\ place[k] \notin Objs
    BY <1>1, <1>2, UnderWithin, ApartFrom DEF Spots
  <2>2. k \notin Under(place, o)
    BY <2>1, HoldersAre DEF Within
  <2> QED
    BY <1>1, <2>2 DEF Self
<1>5. Self([place EXCEPT ![o] = None], o) = Self(place, o)
  <2>1. /\ OffList(now, o).place = [now.place EXCEPT ![o] = None]
        /\ Self(OffList(now, o).place, o) = Self(now.place, o)
    BY <1>1, <1>2, OffListTally
  <2> QED
    BY <1>2, <2>1
<1> HIDE DEF f
<1>6. Tallied(t, Present)
  BY <1>2, <1>3, <1>4, <1>5, LooseNow, ApartFrom, ToObjTally DEF Lifted
<1> QED
  BY <1>1, <1>6, NowTally, TallyKeep

LEMMA DestroyTally ==
  ASSUME Inv, Tally, NEW o \in Objs, NEW Z, Becomes(Extract(now, o, Z)), room' = room
  PROVE  Tally'
<1>1. Tallied(Extract(now, o, Z), Present)
  BY ExtractTally, NowSound, NowTally
<1> QED
  BY <1>1, NowTally, TallyKeep

LEMMA CreateTally ==
  ASSUME Inv, Tally, NEW o \in Objs, NEW h \in Rooms \cup Chars, Create(o, h)
  PROVE  Tally'
<1>1. /\ place[o] = None /\ room' = room
      /\ \/ h \in Rooms /\ Becomes(ToRoom(now, o, h))
         \/ h \in Chars /\ Becomes(ToChar(now, o, h))
  BY DEF Create, Present
<1>2. Loose(now, o) /\ Rec(now)
  BY <1>1, NowSound, ApartFrom DEF Loose
<1>3. CASE h \in Rooms /\ Becomes(ToRoom(now, o, h))
  <2>1. Tallied(ToRoom(now, o, h), Present)
    BY <1>2, <1>3, ToRoomTally, NowTally
  <2> QED
    BY <1>1, <1>3, <2>1, NowTally, TallyKeep
<1>4. CASE h \in Chars /\ Becomes(ToChar(now, o, h))
  <2>1. Tallied(ToChar(now, o, h), Present)
    BY <1>2, <1>4, ToCharTally, NowTally
  <2> QED
    BY <1>1, <1>4, <2>1, NowTally, TallyKeep
<1> QED
  BY <1>1, <1>3, <1>4

LEMMA RemovedTally ==
  ASSUME Inv, Tally, NEW c \in Chars, NEW loc, NEW Z
  PROVE  Tallied(Removed(now, c, loc, Z), Present) /\ Rec(Removed(now, c, loc, Z))
<1> DEFINE X == {x \in Carried(place, c) : wear[x] = loc}
<1>1. /\ Rec(now) /\ now.place = place /\ now.wear = wear
      /\ room \in [Chars -> Rooms \cup {None}]
      /\ Tallied(now, Present) /\ Present \subseteq Chars
  BY NowSound, NowTally
<1>2. CASE X = {}
  <2>1. Removed(now, c, loc, Z) = now
    BY <1>1, <1>2 DEF Removed
  <2> QED
    BY <1>1, <2>1
<1>3. CASE X # {}
  <2> DEFINE q == CHOOSE x \in X : TRUE
  <2>1. q \in X
    BY <1>3
  <2>2. q \in Objs /\ place[q] \in Chars
    BY <2>1 DEF Carried
  <2>3. Removed(now, c, loc, Z) = Unequip(now, q, Z)
    BY <1>1, <1>3 DEF Removed
  <2> HIDE DEF q, X
  <2> QED
    BY <1>1, <2>2, <2>3, UnequipTally
<1> QED
  BY <1>2, <1>3

LEMMA WearTally ==
  ASSUME Inv, Tally, NEW c \in Chars, NEW o \in Objs, NEW Z, Wear(c, o, Z)
  PROVE  Tally'
<1>1. PICK loc : Donned(c, o, loc) /\ Becomes(Equip(Removed(now, c, loc, Z), o, loc, Z))
  BY WearIs
<1> DEFINE s == Removed(now, c, loc, Z)
<1>2. /\ Tallied(s, Present) /\ Rec(s) /\ s.place = place /\ place[o] \in Chars
  BY <1>1, RemovedTally, PutOn DEF Donned
<1> HIDE DEF s
<1>3. Tallied(Equip(s, o, loc, Z), Present)
  BY <1>2, EquipTally, NowSound, NowTally
<1> QED
  BY <1>1, <1>3, WearIs, NowTally, TallyKeep DEF s

LEMMA RemoveTally ==
  ASSUME Inv, Tally, NEW c \in Chars, NEW o \in Objs, NEW Z, Remove(c, o, Z)
  PROVE  Tally'
<1>1. place[o] \in Chars /\ room' = room /\ Becomes(Unequip(now, o, Z))
  BY DEF Remove
<1>2. Tallied(Unequip(now, o, Z), Present)
  BY <1>1, UnequipTally, NowSound, NowTally
<1> QED
  BY <1>1, <1>2, NowTally, TallyKeep

LEMMA LoseTally ==
  ASSUME Inv, Tally, NEW c \in Chars, NEW o \in Objs, NEW Z,
         ZapWorn(c, o, Z) \/ \E d \in Chars : Disarm(c, o, d, Z)
  PROVE  Tally'
<1>1. place[o] \in Chars /\ room[c] \in Rooms /\ room' = room
  BY PresentSpot DEF ZapWorn, Disarm
<1>2. \/ Becomes(ToRoom(FromChar(now, o, Z), o, room[c]))
      \/ \E d \in Chars : Becomes(ToChar(FromChar(now, o, Z), o, d))
  BY DEF ZapWorn, Disarm
<1>3. Tallied(ToRoom(FromChar(now, o, Z), o, room[c]), Present)
  BY <1>1, HandTally
<1>4. \A d \in Chars : Tallied(ToChar(FromChar(now, o, Z), o, d), Present)
  BY <1>1, HandTally
<1> QED
  BY <1>1, <1>2, <1>3, <1>4, NowTally, TallyKeep

LEMMA RemoveAllTally ==
  ASSUME Inv, Tally, NEW c \in Chars, NEW Z, RemoveAll(c, Z)
  PROVE  Tally'
<1> DEFINE P == Worn(c, "wield")
           s == IF P = {} THEN now ELSE Unequip(now, CHOOSE p \in P : TRUE, Z)
           t == [s EXCEPT !.wear = [o \in Objs |-> IF place[o] = c THEN "none" ELSE @[o]]]
<1>1. Becomes(t) /\ room' = room
  BY DEF RemoveAll
<1>2. Tallied(s, Present) /\ Rec(s)
  <2>1. CASE P = {}
    BY <2>1, NowSound, NowTally
  <2>2. CASE P # {}
    <3> DEFINE p == CHOOSE p \in P : TRUE
    <3>1. p \in P
      BY <2>2
    <3>2. p \in Objs /\ place[p] \in Chars
      BY <3>1 DEF Worn, Carried
    <3>3. s = Unequip(now, p, Z)
      BY <2>2
    <3> HIDE DEF p, s, P
    <3> QED
      BY <3>2, <3>3, UnequipTally, NowSound, NowTally
  <2> QED
    BY <2>1, <2>2
<1>3. t.place = s.place /\ t.number = s.number
  <2> HIDE DEF s
  <2> QED
    BY <1>2 DEF Rec
<1> HIDE DEF s, t, P
<1>4. Tallied(t, Present)
  BY <1>2, <1>3 DEF Tallied
<1> QED
  BY <1>1, <1>4, NowTally, TallyKeep

\* do_slice: what falls out was under its owner before.
LEMMA SliceTally ==
  ASSUME Inv, Tally, Inv', NEW k \in Bags, NEW T, Slice(k, T)
  PROVE  Tally'
<1>1. /\ place' = [o \in Objs |-> IF o \in T THEN place[k] ELSE place[o]]
      /\ number' = number /\ room' = room
      /\ place[k] \in Chars /\ \A o \in T : o \in Objs /\ place[o] = k
  BY DEF Slice, Carried, Present
<1>2. /\ Forest(place) /\ number \in [Chars -> Int] /\ Present' = Present /\ Present \subseteq Chars
      /\ \A c \in Present : number[c] = Total(Under(place, c))
  BY <1>1, NowTally DEF Present
<1>3. PICK q : q = place'
  OBVIOUS
<1>4. q = [o \in Objs |-> IF o \in T THEN place[k] ELSE place[o]]
  BY <1>1, <1>3
<1>5. Forest(q)
  <2>1. (Sound(now, room) => Tree(now.place, room))' /\ (now.place = place)'
    BY DEF Sound, now
  <2>2. Tree(q, room') /\ q \in [Objs -> Places]
    BY <1>3, <2>1 DEF Inv, Sound, IsState
  <2> QED
    BY <2>2, TreeForest
<1>6. ASSUME NEW c \in Chars PROVE Under(q, c) = Under(place, c)
  <2> DEFINE A == Under(place, c)
  <2>1. Within(A, place, c) /\ k \in Objs /\ A \subseteq Objs
    BY <1>2, UnderWithin, HoldersAre DEF Within, Holders
  <2> HIDE DEF A
  <2>2. \A x \in T : x \in A <=> place[k] = c
    BY <1>1, <2>1, ApartFrom DEF Within
  <2>3. Within(A, q, c)
    BY <1>1, <1>4, <2>1, <2>2, ApartFrom DEF Within
  <2> QED
    BY <1>5, <2>3, UnderIs DEF A
<1>7. Tallied([place |-> q, number |-> number, wear |-> wear], Present)
  BY <1>2, <1>5, <1>6 DEF Tallied
<1>8. /\ now'.place = q /\ now'.number = number
  BY <1>1, <1>3 DEF now
<1> QED
  BY <1>2, <1>7, <1>8 DEF Tally, Tallied

\* What a container holds is counted for those that have the container, and
\* after it has fallen out for those that have the place where it is then.
LEMMA SpilledTally ==
  ASSUME Inv, Tally, NEW o \in Holders, NEW h \in Places,
         h \in Spots(room) \/ (h = place[o] /\ h \in Objs)
  PROVE  Tallied(Spilled(o, h), Present)
<1> DEFINE R == Carried(place, o)
           W == Under(place, o)
           n == NumberOf(place, R)
           t == Spilled(o, h)
           q == t.place
           m == t.number
           s == [now EXCEPT !.number = Count(now, o, -n)]
<1>1. /\ Forest(place) /\ number \in [Chars -> Int] /\ Present \subseteq Chars
      /\ \A c \in Present : number[c] = Total(Under(place, c))
      /\ now.place = place /\ now.number = number /\ o \in Objs
  BY NowTally, NowSound, HoldersAre DEF now
<1>2. q = [x \in Objs |-> IF x \in R THEN h ELSE place[x]]
  BY DEF Spilled
<1>3. n = Total(W) /\ n \in Int
  <2>1. W = UNION {Self(place, x) : x \in R}
    BY <1>1, UnderParts
  <2> QED
    BY <1>1, <2>1, NumberOfIs
<1>4. Forest(q)
  <2>1. Sound(t, room)
    BY <1>1, SpilledSound
  <2> QED
    BY <2>1, TreeForest DEF Sound, IsState
<1>5. /\ W \subseteq Objs
      /\ \A x \in Objs : x \in W <=> x \in R \/ place[x] \in W
  BY <1>1, UnderWithin DEF Within, Carried
<1>6. Shifted(q, place, R, W)
  <2> HIDE DEF t, R, W
  <2> QED
    BY <1>1, <1>2, <1>4, <1>5 DEF Shifted
<1>7. /\ m \in [Chars -> Int]
      /\ \A c \in Chars : m[c] = Changed(number[c], n, h = c \/ h \in Under(place, c),
                                         o \in Under(place, c))
  <2>1. s.place = place /\ s.number = Count(now, o, -n)
    BY DEF now
  <2> HIDE DEF s, n
  <2>2. /\ Count(now, o, -n) \in [Chars -> Int]
        /\ \A c \in Chars : Count(now, o, -n)[c]
                              = number[c] - (IF o \in Under(place, c) THEN n ELSE 0)
    BY <1>1, <1>3, CarriersAre DEF Count
  <2>3. h \notin Objs => \A c \in Chars : h \notin Under(place, c)
    BY <1>1, UnderAt
  <2>4. CASE h \in Chars
    <3>1. h \notin Objs
      BY <2>4, ApartFrom
    <3>2. m = [s.number EXCEPT ![h] = @ + n]
      BY <2>4 DEF Spilled, s, n
    <3> HIDE DEF t
    <3> QED
      BY <1>1, <1>3, <2>1, <2>2, <2>3, <2>4, <3>1, <3>2 DEF Changed
  <2>5. CASE h \in Objs
    <3>1. h \notin Chars /\ h \in Holders
      BY <1>1, <2>5, ApartFrom DEF Spots, Forest
    <3>2. m = Count(s, h, n)
      BY <2>5, <3>1 DEF Spilled, s, n
    <3>3. /\ Count(s, h, n) \in [Chars -> Int]
          /\ \A c \in Chars : Count(s, h, n)[c]
               = s.number[c] + (IF h \in Under(place, c) THEN n ELSE 0)
      BY <1>3, <2>1, <2>2, <3>1, CarriersAre DEF Count
    <3> HIDE DEF t
    <3> QED
      BY <1>1, <1>3, <2>1, <2>2, <3>1, <3>2, <3>3 DEF Changed
  <2>6. CASE h \notin Chars \cup Objs
    <3>1. m = s.number
      BY <2>6 DEF Spilled, s, n
    <3> HIDE DEF t
    <3> QED
      BY <1>1, <1>3, <2>1, <2>2, <2>3, <2>6, <3>1 DEF Changed
  <2> QED
    BY <2>4, <2>5, <2>6
<1> HIDE DEF t, s
<1>8. ASSUME NEW c \in Present PROVE m[c] = Total(Under(q, c))
  <2> DEFINE A == Under(place, c)
             B == Under(q, c)
             In == h = c \/ h \in A
             Out == o \in A
  <2>1. /\ c \in Chars /\ number[c] = Total(A) /\ A \subseteq Objs /\ c \notin W
    BY <1>1, <1>5, UnderAt, ApartFrom
  <2>2. Out => W \subseteq A
    BY <1>1, UnderDeeper DEF Self
  <2>3. ~Out => W \cap A = {}
    BY <1>1, <2>1, UnderApart, ApartFrom DEF Self
  <2>4. In \in BOOLEAN /\ Out \in BOOLEAN
    OBVIOUS
  <2>5. \A x \in R : x \in Objs /\ q[x] = h
    BY <1>2 DEF Carried
  <2>6. In => B = A \cup W
    <3> SUFFICES ASSUME In PROVE B = A \cup W
      OBVIOUS
    <3>1. Into(q, place, R, c)
      BY <2>5 DEF Into
    <3> QED
      BY <1>6, <2>1, <3>1, UnderGiven
  <2>7. ~In => B = A \ W
    <3> SUFFICES ASSUME ~In PROVE B = A \ W
      OBVIOUS
    <3>1. Away(q, place, R, W, c)
      BY <2>5 DEF Away
    <3> QED
      BY <1>6, <2>1, <3>1, UnderTaken
  <2>8. m[c] = Changed(Total(A), Total(W), In, Out)
    BY <1>3, <1>7, <2>1
  <2> HIDE DEF A, B, In, Out, W, m
  <2>9. Total(B) = Changed(Total(A), Total(W), In, Out)
    BY <1>5, <2>1, <2>2, <2>3, <2>4, <2>6, <2>7, TotalMoved
  <2> QED
    BY <2>8, <2>9 DEF B
<1> QED
  BY <1>4, <1>7, <1>8 DEF Tallied, t

LEMMA BurstTally ==
  ASSUME Inv, Tally, NEW o \in Objs, NEW Z, Burst(o, Z)
  PROVE  Tally'
<1> DEFINE h == IF place[o] \in Chars THEN room[place[o]] ELSE place[o]
           t == Spilled(o, h)
<1>1. /\ h \in Spots(room) /\ h \in Places /\ o \in Holders
      /\ Becomes(Extract(t, o, Z)) /\ room' = room
  BY PresentSpot DEF Burst, Spots, Places
<1>2. Sound(t, room) /\ Tallied(t, Present)
  BY <1>1, SpilledSound, SpilledTally
<1> HIDE DEF t, h
<1>3. Tallied(Extract(t, o, Z), Present)
  BY <1>2, ExtractTally, NowSound, NowTally
<1> QED
  BY <1>1, <1>3, NowTally, TallyKeep

LEMMA DecayTally ==
  ASSUME Inv, Tally, NEW o \in Objs, NEW Z, Decay(o, Z)
  PROVE  Tally'
<1> DEFINE h == IF wear[o] = "float" THEN room[place[o]] ELSE place[o]
           s == IF o \in Corpses \/ wear[o] = "float" THEN Spilled(o, h) ELSE now
<1>1. Becomes(Extract(s, o, Z)) /\ room' = room
  BY DEF Decay
<1>2. h \in Places /\ (h \in Spots(room) \/ (h = place[o] /\ h \in Objs))
  BY DecayTo
<1>3. o \in Corpses \/ wear[o] = "float" => o \in Holders
  BY NowSound, ObjectsAssumption DEF Outfit, Fitting, Holders, Objs
<1> HIDE DEF h
<1>4. Sound(s, room) /\ Tallied(s, Present)
  <2>1. CASE o \in Corpses \/ wear[o] = "float"
    BY <1>2, <1>3, <2>1, SpilledSound, SpilledTally
  <2>2. CASE ~(o \in Corpses \/ wear[o] = "float")
    BY <2>2, NowSound, NowTally
  <2> QED
    BY <2>1, <2>2
<1> HIDE DEF s
<1>5. Tallied(Extract(s, o, Z), Present)
  BY <1>4, ExtractTally, NowSound, NowTally
<1> QED
  BY <1>1, <1>5, NowTally, TallyKeep

\* Nothing is with two characters.
LEMMA UnderOnce ==
  ASSUME NEW p, Forest(p), NEW c \in Chars, NEW d \in Chars, c # d
  PROVE  Under(p, c) \cap Under(p, d) = {}
<1> DEFINE A == Under(p, c)
           B == Under(p, d)
           D == A \cap B
<1>1. Within(A, p, c) /\ Within(B, p, d) /\ c \notin B /\ d \notin A
  BY UnderWithin, ApartFrom DEF Within
<1> HIDE DEF A, B
<1>2. D \subseteq Objs /\ \A x \in D : p[x] \in D
  BY <1>1 DEF Within
<1> HIDE DEF D
<1>3. D = {}
  BY <1>2, NoCycle
<1> QED
  BY <1>3 DEF A, B, D

\* What goes with W, none of which is with d any more, is not missed there.
LEMMA UnderLost ==
  ASSUME NEW p, NEW q, NEW R, NEW W, Shifted(q, p, R, W), NEW d \in Chars,
         \A x \in R : q[x] \notin Chars \cup Objs \/ q[x] \in W
  PROVE  Under(q, d) = Under(p, d) \ W
<1>1. d \notin W /\ Under(p, d) \subseteq Objs
  BY UnderObjs, ApartFrom DEF Shifted
<1>2. Away(q, p, R, W, d)
  BY <1>1, ApartFrom DEF Away, Shifted
<1> QED
  BY <1>1, <1>2, UnderTaken

LEMMA InitTally == Init => Tally
<1> SUFFICES ASSUME Init PROVE Tally
  OBVIOUS
<1>1. Forest(now.place)
  BY InitInv, NowSound, TreeForest
<1>2. Present = {} /\ now.number \in [Chars -> Int]
  BY DEF Init, Present, now
<1> QED
  BY <1>1, <1>2 DEF Tally, Tallied

LEMMA InitTallyNext == Init' => Tally'
BY InitTally, PTL

LEMMA RebootTally == Reboot => Tally'
BY InitTallyNext DEF Reboot, Init

\* What is in some things, with these, is what is they or in one of them.
LEMMA DeepSelf ==
  ASSUME NEW p, Forest(p), NEW C, C \subseteq Objs
  PROVE  /\ Deep(p, C) = UNION {Self(p, x) : x \in C}
         /\ Deep(p, C) \subseteq Objs
         /\ \A x \in Objs : x \in Deep(p, C) <=> x \in C \/ p[x] \in Deep(p, C)
<1> DEFINE W == UNION {Self(p, x) : x \in C}
<1>1. Deep(p, C) = W
  <2>1. \A k \in C \cap Holders : Self(p, k) = {k} \cup Below(p, k)
    BY DEF Self, Under
  <2>2. \A k \in C \ Holders : Self(p, k) = {k}
    BY UnderNot DEF Self
  <2>3. \A x : x \in Deep(p, C) <=> x \in C \/ \E k \in C \cap Holders : x \in Below(p, k)
    BY DEF Deep
  <2>4. \A x : x \in W <=> \E k \in C : x \in Self(p, k)
    OBVIOUS
  <2> HIDE DEF W
  <2>5. ASSUME NEW x \in W PROVE x \in Deep(p, C)
    <3>1. PICK k \in C : x \in Self(p, k)
      BY <2>4
    <3> QED
      BY <2>1, <2>2, <2>3, <3>1
  <2>6. ASSUME NEW x \in Deep(p, C) PROVE x \in W
    <3>1. CASE x \in C
      BY <2>4, <3>1 DEF Self
    <3>2. CASE \E k \in C \cap Holders : x \in Below(p, k)
      BY <2>1, <2>4, <3>2
    <3> QED
      BY <2>3, <2>6, <3>1, <3>2
  <2> QED
    BY <2>5, <2>6
<1>2. W \subseteq Objs
  BY SelfType
<1>3. ASSUME NEW x \in Objs, x \in C PROVE x \in W
  BY <1>3 DEF Self
<1>4. ASSUME NEW x \in Objs, p[x] \in W PROVE x \in W
  <2>1. PICK y \in C : p[x] \in Self(p, y)
    BY <1>4
  <2>2. x \in Under(p, y)
    BY <2>1, UnderWithin DEF Within, Self
  <2> QED
    BY <2>2 DEF Self
<1>5. ASSUME NEW x \in W, x \notin C PROVE p[x] \in W
  <2>1. PICK y \in C : x \in Self(p, y)
    OBVIOUS
  <2>2. p[x] \in Self(p, y)
    BY <1>5, <2>1, UnderWithin DEF Within, Self
  <2> QED
    BY <2>2
<1>6. Deep(p, C) = UNION {Self(p, x) : x \in C}
  BY <1>1
<1> HIDE DEF W
<1>7. \A x \in Objs : x \in W <=> x \in C \/ p[x] \in W
  BY <1>3, <1>4, <1>5
<1> QED
  BY <1>1, <1>2, <1>6, <1>7

\* What is with c and what is with nobody changes its place: it is missed with
\* c and with nobody else.
LEMMA Parted ==
  ASSUME NEW p, Forest(p), NEW q, Forest(q), NEW c \in Chars, NEW R, R \subseteq Objs,
         \A x \in R : p[x] = c \/ p[x] \notin Chars \cup Objs,
         NEW V, V = Deep(p, R),
         \A x \in Objs : x \notin V => q[x] = p[x],
         \A x \in V : q[x] \notin Chars \cup Objs \/ q[x] \in V,
         NEW d \in Chars
  PROVE  /\ Under(q, d) = IF d = c THEN Under(p, c) \ V ELSE Under(p, d)
         /\ Under(p, c) \cap V = Deep(p, {x \in R : p[x] = c})
<1> DEFINE A == {x \in R : p[x] = c}
           W == Deep(p, A)
           U == V \ W
<1>1. /\ V \subseteq Objs /\ \A x \in Objs : x \in V <=> x \in R \/ p[x] \in V
      /\ V = UNION {Self(p, x) : x \in R}
  BY DeepSelf
<1>2. A \subseteq R /\ A \subseteq Objs /\ \A x \in A : p[x] = c
  OBVIOUS
<1>3. W = UNION {Self(p, x) : x \in A} /\ W \subseteq V
  <2> HIDE DEF A
  <2>1. W = UNION {Self(p, x) : x \in A}
    BY <1>2, DeepSelf
  <2> QED
    BY <1>1, <1>2, <2>1
<1>4. W \subseteq Under(p, c)
  <2>1. \A x \in A : x \in Under(p, c)
    BY <1>2, UnderAt, ApartFrom
  <2>2. \A x \in A : Self(p, x) \subseteq Under(p, c)
    BY <1>2, <2>1, UnderDeeper
  <2> QED
    BY <1>3, <2>2
<1>5. ASSUME NEW e \in Chars PROVE U \cap Under(p, e) = {}
  <2> SUFFICES ASSUME NEW x \in R, x \notin A PROVE Self(p, x) \cap Under(p, e) = {}
    BY <1>1, <1>3
  <2>1. p[x] \notin Chars /\ p[x] \notin Objs /\ x \in Objs
    OBVIOUS
  <2>2. x \notin Under(p, e)
    BY <2>1, UnderAt
  <2>3. e \notin Self(p, x)
    BY <2>1, SelfType, ApartFrom
  <2> QED
    BY <2>1, <2>2, <2>3, UnderApart
<1>6. Shifted(q, p, V, V)
  BY <1>1 DEF Shifted
<1>7. Under(q, d) = Under(p, d) \ V
  BY <1>6, UnderLost
<1>8. d # c => W \cap Under(p, d) = {}
  BY <1>4, UnderOnce
<1>9. V = W \cup U
  BY <1>3
<1> HIDE DEF U, W
<1>10. Under(p, c) \cap V = W
  BY <1>4, <1>5, <1>9
<1>11. d # c => Under(p, d) \ V = Under(p, d)
  BY <1>5, <1>8, <1>9
<1> QED
  BY <1>7, <1>10, <1>11 DEF W

\* make_corpse: what goes with the dead was counted for them alone, and what
\* the walk finds on the floor for nobody.
LEMMA DeadTally ==
  ASSUME Inv, Tally, NEW c \in Present, NEW k \in Corpses \cup Carcasses \cup {None},
         k # None => place[k] = None, NEW D, NEW Z, NEW w \in Courses(c, Z)
  PROVE  Tallied(Dead(c, k, D, w), Present)
<1> DEFINE C == w.taken \cup w.down
           M == Moved(c, w)
           R == M \cup ({k} \ {None})
           V == Deep(place, R)
           W == Deep(place, C)
           n == NumberOf(place, C)
           s == Dead(c, k, D, w)
           q == s.place
<1>1. /\ Forest(place) /\ number \in [Chars -> Int] /\ Present \subseteq Chars
      /\ \A d \in Present : number[d] = Total(Under(place, d))
      /\ room[c] \in Rooms /\ c \in Chars /\ place \in [Objs -> Places]
  BY NowTally, NowSound, PresentSpot
<1>2. Forest(q)
  <2>1. Sound(s, room)
    BY DeadSound
  <2> QED
    BY <2>1, TreeForest DEF Sound, IsState
<1>3. /\ \A x \in Objs : IF x = k THEN q[x] = room[c]
                         ELSE IF x \in M THEN q[x] = room[c] \/ (k # None /\ q[x] = k)
                         ELSE q[x] = place[x]
      /\ s.number = [number EXCEPT ![c] = @ - n]
  <2>1. IsDead(s, c, k, w)
    BY DeadShape
  <2> HIDE DEF s
  <2> QED
    BY <2>1 DEF IsDead
<1>4. C \subseteq Objs /\ \A x \in C : place[x] = c
  BY CoursesAre
<1>5. (\A x \in M : x \in C \/ (x \in Objs /\ place[x] = room[c])) /\ C \subseteq M
  BY DEF Floor, Moved
<1>6. /\ k # None => k \in Objs
      /\ \A x \in R : x \in M \/ (x = k /\ k # None)
      /\ \A x \in M : x \in R
      /\ k # None => k \in R
  BY DEF Objs, Holders
<1>7. n = Total(W) /\ n \in Int
  <2>1. C \subseteq Carried(place, c)
    BY <1>4 DEF Carried
  <2> HIDE DEF C
  <2>2. NumberOf(place, C) = Total(UNION {Self(place, o) : o \in C}) /\ NumberOf(place, C) \in Int
    BY <1>1, <2>1, NumberOfIs
  <2>3. W = UNION {Self(place, o) : o \in C}
    BY <1>1, <1>4, DeepSelf
  <2> QED
    BY <2>2, <2>3
<1> HIDE DEF C, M, R, q, s, n
<1>8. R \subseteq Objs /\ \A x \in R : place[x] = c \/ place[x] \notin Chars \cup Objs
  BY <1>1, <1>4, <1>5, <1>6, ApartFrom
<1>9. C = {x \in R : place[x] = c}
  <2>1. \A x \in C : x \in R
    BY <1>5, <1>6
  <2> QED
    BY <1>1, <1>4, <1>5, <1>6, <2>1, ApartFrom
<1>10. /\ V \subseteq Objs /\ \A x \in Objs : x \in V <=> x \in R \/ place[x] \in V
  BY <1>1, <1>8, DeepSelf
<1> HIDE DEF V
<1>11. \A x \in Objs : x \notin V => q[x] = place[x]
  BY <1>3, <1>6, <1>10, ApartFrom
<1>12. \A x \in V : q[x] \notin Chars \cup Objs \/ q[x] \in V
  <2> SUFFICES ASSUME NEW x \in V, x \in Objs PROVE q[x] \notin Chars \cup Objs \/ q[x] \in V
    BY <1>10
  <2>1. CASE x \in R
    BY <1>1, <1>3, <1>6, <1>10, <2>1, ApartFrom
  <2>2. CASE x \notin R
    BY <1>3, <1>6, <1>10, <2>2, ApartFrom
  <2> QED
    BY <2>1, <2>2
<1>13. ASSUME NEW d \in Chars
       PROVE  /\ Under(q, d) = IF d = c THEN Under(place, c) \ V ELSE Under(place, d)
              /\ Under(place, c) \cap V = W
  BY <1>1, <1>2, <1>8, <1>9, <1>11, <1>12, Parted DEF V
<1> HIDE DEF W
<1>14. ASSUME NEW d \in Present PROVE s.number[d] = Total(Under(q, d))
  <2>1. d \in Chars /\ number[d] = Total(Under(place, d)) /\ Under(place, d) \subseteq Objs
    BY <1>1, UnderObjs
  <2>2. CASE d = c
    <3>1. Under(q, c) = Under(place, c) \ W /\ W \subseteq Under(place, c)
      BY <1>13, <2>1, <2>2
    <3>2. Total(Under(place, c) \ W) = Total(Under(place, c)) - Total(W)
      BY <2>1, <2>2, <3>1, TotalLess
    <3> QED
      BY <1>1, <1>3, <1>7, <2>1, <2>2, <3>1, <3>2
  <2>3. CASE d # c
    BY <1>1, <1>3, <1>13, <2>1, <2>3
  <2> QED
    BY <2>2, <2>3
<1>15. s.number \in [Chars -> Int]
  BY <1>1, <1>3, <1>7
<1>16. Forest(s.place) /\ \A d \in Present : s.number[d] = Total(Under(s.place, d))
  BY <1>2, <1>14 DEF q
<1>17. Tallied(s, Present)
  BY <1>15, <1>16 DEF Tallied
<1> QED
  BY <1>17 DEF s

\* What somebody carries is extracted.
LEMMA StrippedTally ==
  ASSUME NEW s, NEW r, Sound(s, r), NEW P, P \subseteq Chars, Tallied(s, P), NEW c \in Chars
  PROVE  Tallied(Stripped(s, c), P)
<1> DEFINE p == s.place
           C == Carried(p, c)
           V == Deep(p, C)
           n == NumberOf(p, C)
           t == Stripped(s, c)
           q == t.place
<1>1. /\ Forest(p) /\ s.number \in [Chars -> Int]
      /\ \A d \in P : s.number[d] = Total(Under(p, d))
  BY DEF Tallied
<1>2. Forest(q)
  <2>1. Sound(t, r)
    BY StrippedSound
  <2> QED
    BY <2>1, TreeForest DEF Sound, IsState
<1>3. /\ q = [x \in Objs |-> IF x \in V THEN None ELSE p[x]]
      /\ t.number = [s.number EXCEPT ![c] = @ - n]
  BY DEF Stripped
<1>4. C \subseteq Objs /\ (\A x \in C : p[x] = c) /\ C = {x \in C : p[x] = c}
  BY DEF Carried
<1>5. n = Total(Under(p, c)) /\ n \in Int /\ V = Under(p, c)
  <2>1. n = Total(UNION {Self(p, o) : o \in C}) /\ n \in Int
    BY <1>1, NumberOfIs
  <2>2. Under(p, c) = UNION {Self(p, o) : o \in C}
    BY <1>1, UnderParts
  <2>3. V = UNION {Self(p, o) : o \in C}
    BY <1>1, <1>4, DeepSelf
  <2> QED
    BY <2>1, <2>2, <2>3
<1> HIDE DEF t, n, C, p, q
<1>6. V \subseteq Objs
  BY <1>1, <1>4, DeepSelf
<1>7. /\ \A x \in Objs : x \notin V => q[x] = p[x]
      /\ \A x \in V : q[x] \notin Chars \cup Objs \/ q[x] \in V
  <2> HIDE DEF V
  <2> QED
    BY <1>3, <1>6, ApartFrom
<1>8. ASSUME NEW d \in Chars
      PROVE  Under(q, d) = IF d = c THEN Under(p, c) \ V ELSE Under(p, d)
  <2> DEFINE X == V
  <2>1. X = Deep(p, C)
    OBVIOUS
  <2>2. /\ \A x \in Objs : x \notin X => q[x] = p[x]
        /\ \A x \in X : q[x] \notin Chars \cup Objs \/ q[x] \in X
    BY <1>7
  <2> HIDE DEF X
  <2>3. Under(q, d) = IF d = c THEN Under(p, c) \ X ELSE Under(p, d)
    BY <1>1, <1>2, <1>4, <2>1, <2>2, Parted
  <2> QED
    BY <2>3 DEF X
<1> HIDE DEF V
<1>9. ASSUME NEW d \in P PROVE t.number[d] = Total(Under(q, d))
  <2>1. CASE d = c
    <3>1. Under(q, c) = {}
      BY <1>5, <1>8
    <3> QED
      BY <1>1, <1>3, <1>5, <2>1, <3>1, TotalNone
  <2>2. CASE d # c
    BY <1>1, <1>3, <1>8, <2>2
  <2> QED
    BY <2>1, <2>2
<1>10. t.number \in [Chars -> Int]
  BY <1>1, <1>3, <1>5
<1>11. Forest(t.place) /\ \A d \in P : t.number[d] = Total(Under(t.place, d))
  BY <1>2, <1>9 DEF q
<1>12. Tallied(t, P)
  BY <1>10, <1>11 DEF Tallied
<1> QED
  BY <1>12 DEF t

LEMMA DieTally ==
  ASSUME Inv, Tally, NEW c \in Chars, NEW k \in Corpses \cup Carcasses \cup {None}, NEW D, NEW Z,
         Die(c, k, D, Z) \/ DieMob(c, k, D, Z)
  PROVE  Tally'
<1>1. /\ c \in Present /\ (k # None => place[k] = None)
      /\ room' = [room EXCEPT ![c] = Hall] \/ room' = [room EXCEPT ![c] = None]
  BY DEF Die, DieMob
<1>2. PICK w \in Courses(c, Z) :
        Goes(Dead(c, k, D, w), w.off) \/ Goes(Stripped(Dead(c, k, D, w), c), w.off)
  BY DEF Die, DieMob
<1>3. Tallied(Dead(c, k, D, w), Present) /\ Sound(Dead(c, k, D, w), room)
  BY <1>1, DeadTally, DeadSound
<1>4. Tallied(Stripped(Dead(c, k, D, w), c), Present)
  BY <1>3, StrippedTally, NowTally
<1>5. PICK t : Tallied(t, Present) /\ Goes(t, w.off)
  BY <1>2, <1>3, <1>4
<1>6. Present' \subseteq Present
  BY <1>1, NowSound DEF Present
<1> QED
  BY <1>5, <1>6, TallyOn

\* c is no longer there, and nothing of what goes with c, or from the floor,
\* was counted for others.
LEMMA GoneTally ==
  ASSUME Inv, Tally, Inv', NEW c \in Present, room' = [room EXCEPT ![c] = None], number' = number,
         NEW R, R \subseteq Objs, \A x \in R : place[x] = c \/ place[x] \notin Chars \cup Objs,
         \A x \in Objs : x \notin Deep(place, R) => place'[x] = place[x],
         \A x \in Deep(place, R) : place'[x] \notin Chars \cup Objs
  PROVE  Tally'
<1>1. /\ Forest(place) /\ number \in [Chars -> Int] /\ Present \subseteq Chars
      /\ \A d \in Present : number[d] = Total(Under(place, d))
      /\ room \in [Chars -> Rooms \cup {None}]
  BY NowTally, NowSound
<1>2. PICK q : q = place'
  OBVIOUS
<1>3. PICK V : V = Deep(place, R)
  OBVIOUS
<1>4. Forest(q)
  <2>1. (Sound(now, room) => Tree(now.place, room))' /\ (now.place = place)'
    BY DEF Sound, now
  <2>2. Tree(q, room') /\ q \in [Objs -> Places]
    BY <1>2, <2>1 DEF Inv, Sound, IsState
  <2> QED
    BY <2>2, TreeForest
<1>5. Present' = Present \ {c}
  BY <1>1 DEF Present
<1>6. ASSUME NEW d \in Present' PROVE Under(q, d) = Under(place, d)
  <2>1. d \in Chars /\ c \in Chars /\ d # c
    BY <1>1, <1>5
  <2>2. /\ \A x \in Objs : x \notin V => q[x] = place[x]
        /\ \A x \in V : q[x] \notin Chars \cup Objs \/ q[x] \in V
    BY <1>2, <1>3
  <2>3. Under(q, d) = IF d = c THEN Under(place, c) \ V ELSE Under(place, d)
    BY <1>1, <1>3, <1>4, <2>1, <2>2, Parted
  <2> QED
    BY <2>1, <2>3
<1>7. PICK P : P = Present'
  OBVIOUS
<1>8. Tallied([place |-> q, number |-> number, wear |-> wear], P)
  BY <1>1, <1>4, <1>5, <1>6, <1>7 DEF Tallied
<1>9. now'.place = q /\ now'.number = number
  BY <1>2 DEF now
<1> QED
  BY <1>7, <1>8, <1>9 DEF Tally, Tallied

\* A weapon that is not among the things that go is as one that is.
LEMMA DeepMore ==
  ASSUME NEW p, Forest(p), NEW C, C \subseteq Objs, NEW A, A \subseteq Weapons
  PROVE  Deep(p, C \cup A) = Deep(p, C) \cup A
<1>1. A \cap Holders = {}
  BY ObjectsAssumption
<1>2. (C \cup A) \cap Holders = C \cap Holders
  BY <1>1
<1> QED
  BY <1>2 DEF Deep

\* extract_char
LEMMA LeaveTally ==
  ASSUME Inv, Tally, Inv', NEW c \in Chars, NEW Z, Leave(c, Z)
  PROVE  Tally'
<1>1. c \in Present /\ room' = [room EXCEPT ![c] = None] /\ number' = number
  BY DEF Leave
<1>2. PICK w \in Courses(c, Z) :
        LET T == IF w.off THEN Carried(place, c) \cup Floor(room[c])
                 ELSE Carried(place, c) \ w.down
            gone == Deep(place, T)
        IN  place' = [x \in Objs |-> IF x \in gone THEN None
                                     ELSE IF x \in w.down THEN room[c] ELSE place[x]]
  BY DEF Leave
<1> DEFINE T == IF w.off THEN Carried(place, c) \cup Floor(room[c])
                ELSE Carried(place, c) \ w.down
           R == T \cup w.down
<1>3. /\ \A x \in w.down : x \in Objs /\ place[x] = c /\ x \in Weapons
      /\ room[c] \in Rooms
  BY <1>1, CoursesAre, PresentSpot
<1>4. T \subseteq Objs /\ \A x \in T : place[x] = c \/ place[x] = room[c]
  BY DEF Carried, Floor
<1>5. place' = [x \in Objs |-> IF x \in Deep(place, T) THEN None
                               ELSE IF x \in w.down THEN room[c] ELSE place[x]]
  BY <1>2
<1> HIDE DEF T
<1>6. R \subseteq Objs /\ \A x \in R : place[x] = c \/ place[x] \notin Chars \cup Objs
  BY <1>3, <1>4, ApartFrom
<1>7. Deep(place, R) = Deep(place, T) \cup w.down /\ Deep(place, R) \subseteq Objs
  <2>1. Forest(place) /\ w.down \subseteq Weapons
    BY <1>3, NowTally
  <2>2. Deep(place, R) = Deep(place, T) \cup w.down
    BY <1>4, <2>1, DeepMore
  <2> HIDE DEF R
  <2> QED
    BY <1>6, <2>1, <2>2, DeepSelf
<1> HIDE DEF R
<1>8. /\ \A x \in Objs : x \notin Deep(place, R) => place'[x] = place[x]
      /\ \A x \in Deep(place, R) : place'[x] \notin Chars \cup Objs
  BY <1>3, <1>5, <1>7, ApartFrom
<1> QED
  BY <1>1, <1>6, <1>8, GoneTally

\* free_char
LEMMA FreeTally ==
  ASSUME Inv, Tally, Inv', NEW c \in Chars, NEW Z, Free(c, Z)
  PROVE  Tally'
<1>1. c \in Present
  BY DEF Free
<1>2. CASE Reboot
  BY <1>2, RebootTally
<1>3. CASE ~Reboot
  <2>1. PICK w \in Courses(c, Z) :
          /\ w.down = {}
          /\ place' = [x \in Objs |-> IF x \in Deep(place, w.taken) THEN None
                                      ELSE IF x \in w.left THEN Lost ELSE place[x]]
          /\ room' = [room EXCEPT ![c] = None] /\ number' = number
    BY <1>3 DEF Free
  <2> DEFINE R == w.taken \cup w.left
  <2>2. /\ \A x \in w.taken \cup w.left : x \in Objs /\ place[x] = c
        /\ w.taken \subseteq Objs /\ w.left \subseteq Weapons
    BY <1>1, <2>1, CoursesAre
  <2>3. Deep(place, R) = Deep(place, w.taken) \cup w.left /\ Deep(place, R) \subseteq Objs
    <3>1. Forest(place) /\ w.taken \cup w.left \subseteq Objs
      BY <2>2, NowTally
    <3>2. Deep(place, w.taken \cup w.left) = Deep(place, w.taken) \cup w.left
      <4> DEFINE C == w.taken
                 A == w.left
      <4>1. C \subseteq Objs /\ A \subseteq Weapons
        BY <2>2
      <4> HIDE DEF C, A
      <4>2. Deep(place, C \cup A) = Deep(place, C) \cup A
        BY <3>1, <4>1, DeepMore
      <4> QED
        BY <4>2 DEF C, A
    <3>3. Deep(place, w.taken \cup w.left) \subseteq Objs
      BY <3>1, DeepSelf
    <3> QED
      BY <3>2, <3>3
  <2>4. R \subseteq Objs /\ \A x \in R : place[x] = c \/ place[x] \notin Chars \cup Objs
    BY <2>2
  <2> HIDE DEF R
  <2>5. /\ \A x \in Objs : x \notin Deep(place, R) => place'[x] = place[x]
        /\ \A x \in Deep(place, R) : place'[x] \notin Chars \cup Objs
    BY <2>1, <2>3, ObjectsAssumption
  <2> QED
    BY <1>1, <2>1, <2>4, <2>5, GoneTally
<1> QED
  BY <1>2, <1>3

\* Nothing is with a character that is not in the world.
LEMMA EnterTally ==
  ASSUME Inv, Tally, NEW c \in Chars, NEW r \in Rooms, Enter(c, r)
  PROVE  Tally'
<1>1. /\ c \notin Present /\ room' = [room EXCEPT ![c] = r]
      /\ number' = [number EXCEPT ![c] = 0] /\ place' = place
  BY DEF Enter
<1>2. /\ Forest(place) /\ number \in [Chars -> Int] /\ Present \subseteq Chars
      /\ \A d \in Present : number[d] = Total(Under(place, d))
      /\ Tree(place, room) /\ room \in [Chars -> Rooms \cup {None}]
  BY NowTally, NowSound
<1>3. Present' = Present \cup {c}
  BY <1>1, <1>2, ApartFrom DEF Present
<1>4. Under(place, c) = {}
  <2>1. \A x \in Objs : place[x] # c
    BY <1>1, <1>2, ApartFrom DEF Tree, Spots, Present
  <2>2. Within({}, place, c)
    BY <2>1 DEF Within
  <2> QED
    BY <1>2, <2>2, UnderIs
<1>5. /\ number' \in [Chars -> Int]
      /\ \A d \in Present \cup {c} : number'[d] = Total(Under(place, d))
  BY <1>1, <1>2, <1>4, TotalNone
<1>6. now'.place = place /\ now'.number = number'
  BY <1>1 DEF now
<1> QED
  BY <1>2, <1>3, <1>5, <1>6 DEF Tally, Tallied

LEMMA WalkTally ==
  ASSUME Inv, Tally, NEW c \in Chars, NEW r \in Rooms, Walk(c, r)
  PROVE  Tally'
<1>1. now' = now /\ room' = [room EXCEPT ![c] = r] /\ c \in Present
  BY DEF Walk, now
<1>2. Present' \subseteq Present
  BY <1>1, NowSound DEF Present
<1>3. now'.place = now.place /\ now'.number = now.number
  BY <1>1
<1> QED
  BY <1>2, <1>3 DEF Tally, Tallied

-----------------------------------------------------------------------------
LEMMA TallyInductive == Inv /\ Tally /\ [Next]_vars => Tally'
<1> SUFFICES ASSUME Inv, Tally, [Next]_vars PROVE Tally'
  OBVIOUS
<1>0. Inv'
  BY Inductive
<1>1. CASE UNCHANGED vars
  BY <1>1 DEF vars, Tally, Tallied, now, Present
<1>2. ASSUME NEW c \in Chars, NEW o \in Objs, Handling(c, o) PROVE Tally'
  <2>1. CASE Sacrifice(c, o)
    BY <2>1, DestroyTally DEF Sacrifice
  <2> QED
    BY <1>2, <2>1, PickUpTally, DropTally, PutTally, GiveTally, SellTally DEF Handling
<1>3. ASSUME NEW c \in Chars, NEW o \in Objs, NEW Z, Equipment(c, o, Z) PROVE Tally'
  <2>1. CASE Consume(c, o, Z)
    BY <2>1, DestroyTally DEF Consume
  <2> QED
    BY <1>3, <2>1, WearTally, RemoveTally, LoseTally DEF Equipment
<1>4. ASSUME NEW c \in Chars, NEW Z, Dying(c, Z) PROVE Tally'
  BY <1>4, DieTally DEF Dying
<1>5. ASSUME NEW c \in Chars, NEW r \in Rooms, Enter(c, r) \/ Walk(c, r) PROVE Tally'
  BY <1>5, EnterTally, WalkTally
<1>6. ASSUME NEW o \in Objs, NEW Z, Burst(o, Z) \/ Decay(o, Z) PROVE Tally'
  BY <1>6, BurstTally, DecayTally
<1>7. ASSUME NEW c \in Chars, NEW Z, RemoveAll(c, Z) \/ Leave(c, Z) \/ Free(c, Z)
      PROVE  Tally'
  BY <1>0, <1>7, RemoveAllTally, LeaveTally, FreeTally
<1>8. ASSUME NEW k \in Bags, NEW T, Slice(k, T) PROVE Tally'
  BY <1>0, <1>8, SliceTally
<1>9. ASSUME NEW o \in Objs, NEW h \in Rooms \cup Chars, Create(o, h) PROVE Tally'
  BY <1>9, CreateTally
<1>10. CASE Next
  BY <1>2, <1>3, <1>4, <1>5, <1>6, <1>7, <1>8, <1>9, <1>10, RebootTally DEF Next
<1> QED
  BY <1>1, <1>10

THEOREM TallyInvariance == Spec => [](Inv /\ Tally)
<1>1. Init => Inv /\ Tally
  BY InitInv, InitTally
<1>2. Inv /\ Tally /\ [Next]_vars => (Inv /\ Tally)'
  BY Inductive, TallyInductive
<1> QED
  BY <1>1, <1>2, PTL DEF Spec

\* However many containers are in one another, and whatever is moved, spilled,
\* destroyed or left behind with what is in it, the number a character is said
\* to carry, which is only ever added to and taken from, is the number of what
\* it carries.
THEOREM CountedRightly == Spec => []NumberRight
<1>1. ASSUME Inv, Tally PROVE NumberRight
  <2> SUFFICES ASSUME NEW c \in Present
               PROVE  number[c] = NumberOf(place, Carried(place, c))
    BY DEF NumberRight
  <2>1. Forest(place) /\ number[c] = Total(Under(place, c))
    BY <1>1, NowTally
  <2>2. Under(place, c) = UNION {Self(place, o) : o \in Carried(place, c)}
    BY <2>1, UnderParts
  <2>3. NumberOf(place, Carried(place, c)) = Total(UNION {Self(place, o) : o \in Carried(place, c)})
    BY <2>1, NumberOfIs
  <2> QED
    BY <2>1, <2>2, <2>3
<1> QED
  BY <1>1, TallyInvariance, PTL

\* Only weapons are wielded and only floating discs float; everything is at
\* some place, and what a character carries has a number (wear_obj,
\* equip_char, obj_to_char).
THEOREM Typed == Spec => []TypeOK
<1>1. ASSUME Inv, Tally PROVE TypeOK
  <2>1. /\ place \in [Objs -> Places] /\ wear \in [Objs -> Locs]
        /\ Fitting(wear) /\ room \in [Chars -> Rooms \cup {None}] /\ torn \in BOOLEAN
    BY <1>1, NowSound DEF Outfit
  <2>2. number \in [Chars -> Int]
    BY <1>1, NowTally
  <2> QED
    BY <2>1, <2>2 DEF TypeOK, Fitting, Locs
<1> QED
  BY <1>1, TallyInvariance, PTL
=============================================================================
