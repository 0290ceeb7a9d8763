---------------------------- MODULE CompanyProofs ----------------------------
(***************************************************************************)
(* Spec => [] of the type invariant and the four safety invariants of      *)
(* Company, for any players, mobiles, teams and kinds of them.             *)
(*                                                                         *)
(* The invariant is stated of a record of pointers and of where everybody  *)
(* is, so that each building block can be shown to keep it by itself.      *)
(***************************************************************************)
EXTENDS Company, TLAPS

Ties == [master : [Chars -> Chars \cup {None}],
         leader : [Chars -> Chars \cup {None}],
         pet : [Chars -> Mobs \cup {None}],
         charm : [Chars -> {"no", "spell", "bit"}],
         riding : [Chars -> Chars \cup {None}],
         passenger : [Chars -> Chars \cup {None}]]

Wheres == [Chars -> {"out", "prompt", "limbo", "here"}]

\* A slot that is free points nowhere, and at the prompt there is no company.
FreeOK(s, a) ==
  \A c \in Chars :
    /\ a[c] = "out" => /\ s.master[c] = None /\ s.leader[c] = None /\ s.pet[c] = None
                       /\ s.charm[c] = "no"
                       /\ s.riding[c] = None /\ s.passenger[c] = None
    /\ a[c] = "prompt" => s.master[c] = None /\ s.leader[c] = None

\* CompanyHere
HereOK(s, a) ==
  \A c \in Chars : a[c] = "here" =>
    /\ s.master[c] # None => a[s.master[c]] = "here"
    /\ s.leader[c] # None => a[s.leader[c]] = "here"

\* LeaderIsMaster; of who is in limbo, whatever binds it.
LeadOK(s, a) ==
  \A c \in Chars : c \notin Bound \/ a[c] = "limbo" =>
    s.leader[c] \in {None, c, s.master[c]}

\* PetIsOwn: the undead are nobody's pets, and a pet is where its owner is.
PetOK(s, a, k) ==
  \A c \in Chars : s.pet[c] # None =>
    /\ c \in Players
    /\ s.master[s.pet[c]] = c
    /\ k[s.pet[c]] # "undead"
    /\ \/ a[c] = "prompt" /\ a[s.pet[c]] = "limbo"
       \/ a[c] = "here" /\ a[s.pet[c]] = "here"

\* RidersCarried, and who rides is in the world.
RideOK(s, a) ==
  \A c \in Chars : s.riding[c] # None =>
    /\ a[c] = "here" /\ a[s.riding[c]] = "here"
    /\ s.passenger[s.riding[c]] = c

Good(s, a, k) ==
  /\ s \in Ties /\ a \in Wheres /\ k \in [Mobs -> Kinds]
  /\ FreeOK(s, a) /\ HereOK(s, a) /\ LeadOK(s, a) /\ PetOK(s, a, k) /\ RideOK(s, a)

IInv == Good(now, at, kind) /\ team \in [Players -> Teams \cup {"none"}]

-----------------------------------------------------------------------------
(***************************************************************************)
(* The building blocks, field by field.                                    *)
(***************************************************************************)
LEMMA NoneFacts == None \notin Chars /\ Mobs \subseteq Chars /\ Players \subseteq Chars
  BY CompanyAssumption DEF Chars

LEMMA TiesForm ==
  ASSUME NEW s \in Ties
  PROVE  s = [master |-> s.master, leader |-> s.leader, pet |-> s.pet, charm |-> s.charm,
              riding |-> s.riding, passenger |-> s.passenger]
  BY DEF Ties

LEMMA StopFields ==
  ASSUME NEW s \in Ties, NEW c \in Chars
  PROVE  /\ Stop(s, c) \in Ties
         /\ Stop(s, c).riding = s.riding /\ Stop(s, c).passenger = s.passenger
         /\ \A x \in Chars : Stop(s, c).master[x] = IF x = c THEN None ELSE s.master[x]
         /\ \A x \in Chars : Stop(s, c).leader[x] =
              IF x = c /\ s.master[c] # None THEN None ELSE s.leader[x]
         /\ \A x \in Chars : Stop(s, c).pet[x] =
              IF x = s.master[c] /\ s.pet[x] = c THEN None ELSE s.pet[x]
         /\ \A x \in Chars : Stop(s, c).charm[x] =
              IF x = c /\ s.master[c] # None THEN "no" ELSE s.charm[x]
<1>1. CASE s.master[c] = None
  BY <1>1, NoneFacts DEF Stop, Ties
<1>2. CASE s.master[c] # None
  <2> DEFINE m == s.master[c]
  <2>1. m \in Chars
    BY <1>2 DEF Ties
  <2>2. Stop(s, c) = [s EXCEPT !.charm[c] = "no", !.master[c] = None, !.leader[c] = None,
                               !.pet[m] = IF @ = c THEN None ELSE @]
    BY <1>2 DEF Stop
  <2>3. Stop(s, c) = [master |-> [s.master EXCEPT ![c] = None],
                      leader |-> [s.leader EXCEPT ![c] = None],
                      pet |-> [s.pet EXCEPT ![m] = IF @ = c THEN None ELSE @],
                      charm |-> [s.charm EXCEPT ![c] = "no"],
                      riding |-> s.riding, passenger |-> s.passenger]
    BY <2>2 DEF Ties
  <2>4. QED
    BY <1>2, <2>1, <2>3 DEF Ties
<1>3. QED
  BY <1>1, <1>2

LEMMA StopGood ==
  ASSUME NEW s, NEW a, NEW k, Good(s, a, k), NEW c \in Chars
  PROVE  /\ Good(Stop(s, c), a, k)
         /\ Stop(s, c).master[c] = None
         /\ \A x \in Chars : Stop(s, c).pet[x] # c
         /\ \A x \in Chars : s.pet[x] = None => Stop(s, c).pet[x] = None
<1>1. s \in Ties
  BY DEF Good
<1>2. PICK t \in Ties :
        /\ t = Stop(s, c)
        /\ t.riding = s.riding /\ t.passenger = s.passenger
        /\ \A x \in Chars : t.master[x] = IF x = c THEN None ELSE s.master[x]
        /\ \A x \in Chars : t.leader[x] =
             IF x = c /\ s.master[c] # None THEN None ELSE s.leader[x]
        /\ \A x \in Chars : t.pet[x] =
             IF x = s.master[c] /\ s.pet[x] = c THEN None ELSE s.pet[x]
        /\ \A x \in Chars : t.charm[x] =
             IF x = c /\ s.master[c] # None THEN "no" ELSE s.charm[x]
  BY <1>1, StopFields
<1>3. FreeOK(t, a)
  BY <1>2 DEF Good, FreeOK
<1>4. HereOK(t, a)
  BY <1>2 DEF Good, HereOK
<1>5. LeadOK(t, a)
  BY <1>2 DEF Good, LeadOK
<1>6. PetOK(t, a, k)
  <2> SUFFICES ASSUME NEW x \in Chars, t.pet[x] # None
               PROVE  /\ x \in Players
                      /\ t.master[t.pet[x]] = x
                      /\ k[t.pet[x]] # "undead"
                      /\ \/ a[x] = "prompt" /\ a[t.pet[x]] = "limbo"
                         \/ a[x] = "here" /\ a[t.pet[x]] = "here"
    BY DEF PetOK
  <2> QED
    BY <1>2, NoneFacts DEF Good, PetOK, Ties
<1>7. RideOK(t, a)
  BY <1>2 DEF Good, RideOK
<1>8. \A x \in Chars : t.pet[x] # c
  BY <1>2, NoneFacts DEF Good, PetOK
<1>9. QED
  BY <1>2, <1>3, <1>4, <1>5, <1>6, <1>7, <1>8 DEF Good

\* Only the pointers of who is in the world are set.
LEMMA AddGood ==
  ASSUME NEW s, NEW a, NEW k, Good(s, a, k),
         NEW c \in Chars, NEW m \in Chars, a[c] = "here", a[m] = "here"
  PROVE  /\ Good(Add(s, c, m), a, k)
         /\ s.master[c] = None => Add(s, c, m).master[c] = m
<1>1. CASE s.master[c] # None
  BY <1>1 DEF Add
<1>2. CASE s.master[c] = None
  <2>1. Add(s, c, m) = [master |-> [s.master EXCEPT ![c] = m],
                        leader |-> [s.leader EXCEPT ![c] = None],
                        pet |-> s.pet, charm |-> s.charm,
                        riding |-> s.riding, passenger |-> s.passenger]
    BY <1>2 DEF Add, Good, Ties
  <2>2. PICK t \in Ties :
          /\ t = Add(s, c, m)
          /\ t.riding = s.riding /\ t.passenger = s.passenger
          /\ t.pet = s.pet /\ t.charm = s.charm
          /\ \A x \in Chars : t.master[x] = IF x = c THEN m ELSE s.master[x]
          /\ \A x \in Chars : t.leader[x] = IF x = c THEN None ELSE s.leader[x]
    BY <2>1 DEF Good, Ties
  <2>3. FreeOK(t, a)
    BY <2>2 DEF Good, FreeOK
  <2>4. HereOK(t, a)
    BY <2>2 DEF Good, HereOK
  <2>5. LeadOK(t, a)
    BY <2>2 DEF Good, LeadOK
  <2>6. PetOK(t, a, k)
    BY <1>2, <2>2, NoneFacts DEF Good, PetOK, Ties
  <2>7. RideOK(t, a)
    BY <2>2 DEF Good, RideOK
  <2>8. QED
    BY <2>2, <2>3, <2>4, <2>5, <2>6, <2>7 DEF Good
<1>3. QED
  BY <1>1, <1>2

LEMMA AddedGood ==
  ASSUME NEW s, NEW a, NEW k, Good(s, a, k), NEW t,
         NEW c \in Chars, NEW m \in Chars, a[c] = "here", a[m] = "here",
         t \in Added(s, c, m)
  PROVE  /\ Good(t, a, k)
         /\ s.master[c] = None => t.master[c] = m \/ c \in Bound
<1>1. t = Add(s, c, m) \/ (t = s /\ c \in Bound)
  BY DEF Added
<1>2. QED
  BY <1>1, AddGood

\* Charm comes and goes without changing the company.
LEMMA CharmGood ==
  ASSUME NEW s, NEW a, NEW k, Good(s, a, k), NEW ch \in {"no", "spell", "bit"},
         NEW c \in Chars, a[c] # "out"
  PROVE  /\ Good([s EXCEPT !.charm[c] = ch], a, k)
         /\ [s EXCEPT !.charm[c] = ch].master = s.master
         /\ [s EXCEPT !.charm[c] = ch].pet = s.pet
<1>0. s \in Ties
  BY DEF Good
<1>1. PICK t \in Ties :
        /\ t = [s EXCEPT !.charm[c] = ch]
        /\ t.master = s.master /\ t.leader = s.leader /\ t.pet = s.pet
        /\ t.riding = s.riding /\ t.passenger = s.passenger
        /\ \A x \in Chars : t.charm[x] = IF x = c THEN ch ELSE s.charm[x]
  <2>1. [s EXCEPT !.charm[c] = ch] =
          [master |-> s.master, leader |-> s.leader, pet |-> s.pet,
           charm |-> [s.charm EXCEPT ![c] = ch],
           riding |-> s.riding, passenger |-> s.passenger]
    BY <1>0, TiesForm
  <2>2. [s EXCEPT !.charm[c] = ch] \in Ties
    BY <1>0, <2>1 DEF Ties
  <2> QED
    BY <1>0, <2>1, <2>2 DEF Ties
<1>2. FreeOK(t, a)
  BY <1>1 DEF Good, FreeOK
<1>3. HereOK(t, a) /\ LeadOK(t, a) /\ PetOK(t, a, k) /\ RideOK(t, a)
  BY <1>1 DEF Good, HereOK, LeadOK, PetOK, RideOK
<1>4. QED
  BY <1>1, <1>2, <1>3 DEF Good

Led(s, v, c, ch) == [s EXCEPT !.leader[v] = c, !.charm[v] = ch]

\* A leader that is the master, or of one that add_follower may refuse.
LEMMA LedGood ==
  ASSUME NEW s, NEW a, NEW k, Good(s, a, k), NEW ch \in {"no", "spell", "bit"},
         NEW v \in Chars, NEW c \in Chars, a[c] = "here", a[v] = "here",
         v \in Bound \/ s.master[v] = c \/ v = c
  PROVE  /\ Good(Led(s, v, c, ch), a, k)
         /\ Led(s, v, c, ch).master = s.master
         /\ Led(s, v, c, ch).pet = s.pet
<1>1. s \in Ties
  BY DEF Good
<1>2. PICK t \in Ties :
        /\ t = [s EXCEPT !.leader[v] = c]
        /\ t.riding = s.riding /\ t.passenger = s.passenger
        /\ t.pet = s.pet /\ t.master = s.master /\ t.charm = s.charm
        /\ \A x \in Chars : t.leader[x] = IF x = v THEN c ELSE s.leader[x]
  <2>1. [s EXCEPT !.leader[v] = c] =
          [master |-> s.master, leader |-> [s.leader EXCEPT ![v] = c],
           pet |-> s.pet, charm |-> s.charm,
           riding |-> s.riding, passenger |-> s.passenger]
    BY <1>1, TiesForm
  <2>2. [s EXCEPT !.leader[v] = c] \in Ties
    BY <1>1, <2>1 DEF Ties
  <2> QED
    BY <1>1, <2>1, <2>2 DEF Ties
<1>3. FreeOK(t, a)
  BY <1>2 DEF Good, FreeOK
<1>4. HereOK(t, a)
  BY <1>2 DEF Good, HereOK
<1>5. LeadOK(t, a)
  BY <1>2 DEF Good, LeadOK
<1>6. PetOK(t, a, k) /\ RideOK(t, a)
  BY <1>2 DEF Good, PetOK, RideOK
<1>7. Good(t, a, k)
  BY <1>2, <1>3, <1>4, <1>5, <1>6 DEF Good
<1>8. Led(s, v, c, ch) = [t EXCEPT !.charm[v] = ch]
  <2>1. [s EXCEPT !.leader[v] = c, !.charm[v] = ch] =
          [[s EXCEPT !.leader[v] = c] EXCEPT !.charm[v] = ch]
    BY <1>1 DEF Ties
  <2> QED
    BY <1>2, <2>1 DEF Led
<1>9. a[v] # "out"
  OBVIOUS
<1>10. /\ Good([t EXCEPT !.charm[v] = ch], a, k)
       /\ [t EXCEPT !.charm[v] = ch].master = t.master
       /\ [t EXCEPT !.charm[v] = ch].pet = t.pet
  BY <1>7, <1>9, CharmGood
<1>11. QED
  BY <1>2, <1>8, <1>10

\* die_follower leaves nobody that follows, is led by or owns c.
LEMMA DieFollowerGood ==
  ASSUME NEW s, NEW a, NEW k, Good(s, a, k), NEW c \in Chars
  PROVE  /\ Good(DieFollower(s, c), a, k)
         /\ \A x \in Chars : /\ DieFollower(s, c).master[x] # c
                             /\ DieFollower(s, c).leader[x] # c
                             /\ DieFollower(s, c).pet[x] # c
<1> DEFINE u == Stop(s, c)
<1> DEFINE v == [u EXCEPT !.leader[c] = None]
<1> DEFINE F == Followers(v, c)
<1> DEFINE t0 == DieFollower(s, c)
<1>2. Good(u, a, k) /\ u.master[c] = None /\ (\A x \in Chars : u.pet[x] # c)
  BY StopGood
<1>3. u \in Ties
  BY <1>2 DEF Good
<1>4. t0 = [v EXCEPT
        !.charm = [x \in Chars |-> IF x \in F THEN "no" ELSE @[x]],
        !.master = [x \in Chars |-> IF x \in F THEN None ELSE @[x]],
        !.leader = [x \in Chars |-> IF x \in F THEN None
                                    ELSE IF @[x] = c THEN x ELSE @[x]],
        !.pet[c] = IF @ \in F THEN None ELSE @]
  BY DEF DieFollower
<1> HIDE DEF u, t0, F
<1>5. /\ v \in Ties
      /\ v.master = u.master /\ v.pet = u.pet /\ v.charm = u.charm
      /\ v.riding = u.riding /\ v.passenger = u.passenger
      /\ \A x \in Chars : v.leader[x] = IF x = c THEN None ELSE u.leader[x]
  <2>1. v = [master |-> u.master, leader |-> [u.leader EXCEPT ![c] = None],
             pet |-> u.pet, charm |-> u.charm,
             riding |-> u.riding, passenger |-> u.passenger]
    BY <1>3, TiesForm
  <2> QED
    BY <1>3, <2>1, NoneFacts DEF Ties
<1>6. F = {f \in Chars : u.master[f] = c}
  BY <1>5 DEF F, Followers
<1> HIDE DEF v
<1>7. t0 =
        [master |-> [x \in Chars |-> IF x \in F THEN None ELSE v.master[x]],
         leader |-> [x \in Chars |-> IF x \in F THEN None
                                     ELSE IF v.leader[x] = c THEN x ELSE v.leader[x]],
         pet |-> [v.pet EXCEPT ![c] = IF @ \in F THEN None ELSE @],
         charm |-> [x \in Chars |-> IF x \in F THEN "no" ELSE v.charm[x]],
         riding |-> v.riding, passenger |-> v.passenger]
  <2>1. v \in Ties
    BY <1>5
  <2> QED
    BY <1>4, <2>1 DEF Ties
<1>8. PICK t \in Ties :
        /\ t = t0
        /\ t.riding = u.riding /\ t.passenger = u.passenger
        /\ \A x \in Chars : t.master[x] = IF u.master[x] = c THEN None ELSE u.master[x]
        /\ \A x \in Chars : t.leader[x] =
             IF u.master[x] = c \/ x = c THEN None
             ELSE IF u.leader[x] = c THEN x ELSE u.leader[x]
        /\ \A x \in Chars : t.pet[x] =
             IF x = c /\ u.pet[c] \in F THEN None ELSE u.pet[x]
        /\ \A x \in Chars : t.charm[x] = IF u.master[x] = c THEN "no" ELSE u.charm[x]
  <2>1. t0 \in Ties
    BY <1>5, <1>7, NoneFacts DEF Ties
  <2>2. t0.riding = u.riding /\ t0.passenger = u.passenger
    BY <1>5, <1>7
  <2>3. \A x \in Chars : t0.master[x] = IF u.master[x] = c THEN None ELSE u.master[x]
    BY <1>5, <1>6, <1>7
  <2>4. \A x \in Chars : t0.leader[x] =
             IF u.master[x] = c \/ x = c THEN None
             ELSE IF u.leader[x] = c THEN x ELSE u.leader[x]
    BY <1>3, <1>5, <1>6, <1>7, NoneFacts DEF Ties
  <2>5. \A x \in Chars : t0.pet[x] = IF x = c /\ u.pet[c] \in F THEN None ELSE u.pet[x]
    BY <1>3, <1>5, <1>7 DEF Ties
  <2>6. \A x \in Chars : t0.charm[x] = IF u.master[x] = c THEN "no" ELSE u.charm[x]
    BY <1>5, <1>6, <1>7
  <2>7. QED
    BY <2>1, <2>2, <2>3, <2>4, <2>5, <2>6
<1>9. FreeOK(t, a)
  BY <1>2, <1>8, NoneFacts DEF Good, FreeOK
<1>10. HereOK(t, a)
  BY <1>2, <1>8 DEF Good, HereOK
<1>11. LeadOK(t, a)
  BY <1>2, <1>8 DEF Good, LeadOK
<1>12. PetOK(t, a, k)
  <2> SUFFICES ASSUME NEW x \in Chars, t.pet[x] # None
               PROVE  /\ x \in Players
                      /\ t.master[t.pet[x]] = x
                      /\ k[t.pet[x]] # "undead"
                      /\ \/ a[x] = "prompt" /\ a[t.pet[x]] = "limbo"
                         \/ a[x] = "here" /\ a[t.pet[x]] = "here"
    BY DEF PetOK
  <2>1. t.pet[x] = u.pet[x] /\ u.pet[x] \in Chars
    BY <1>3, <1>8, NoneFacts DEF Ties
  <2>2. x # c
    BY <1>2, <1>6, <1>8, <2>1, NoneFacts DEF Good, PetOK
  <2>3. QED
    BY <1>2, <1>8, <2>1, <2>2 DEF Good, PetOK
<1>13. RideOK(t, a)
  BY <1>2, <1>8 DEF Good, RideOK
<1>14. \A x \in Chars : t.master[x] # c /\ t.leader[x] # c /\ t.pet[x] # c
  BY <1>2, <1>8, NoneFacts
<1>15. QED
  BY <1>8, <1>9, <1>10, <1>11, <1>12, <1>13, <1>14 DEF Good, t0

LEMMA OffForm ==
  ASSUME NEW s \in Ties, NEW c \in Chars, NEW m \in Chars
  PROVE  [s EXCEPT !.riding[c] = None, !.passenger[m] = None] =
           [master |-> s.master, leader |-> s.leader, pet |-> s.pet, charm |-> s.charm,
            riding |-> [s.riding EXCEPT ![c] = None],
            passenger |-> [s.passenger EXCEPT ![m] = None]]
<1> DEFINE t == [s EXCEPT !.riding[c] = None]
<1>1. t = [master |-> s.master, leader |-> s.leader, pet |-> s.pet, charm |-> s.charm,
           riding |-> [s.riding EXCEPT ![c] = None], passenger |-> s.passenger]
  BY TiesForm
<1>2. [s EXCEPT !.riding[c] = None, !.passenger[m] = None] = [t EXCEPT !.passenger[m] = None]
  BY DEF Ties
<1> HIDE DEF t
<1>3. QED
  BY <1>1, <1>2

Saddled(s, c, m) == [s EXCEPT !.riding[c] = m, !.passenger[m] = c]

LEMMA MountForm ==
  ASSUME NEW s \in Ties, NEW c \in Chars, NEW m \in Chars
  PROVE  Saddled(s, c, m) =
           [master |-> s.master, leader |-> s.leader, pet |-> s.pet, charm |-> s.charm,
            riding |-> [s.riding EXCEPT ![c] = m],
            passenger |-> [s.passenger EXCEPT ![m] = c]]
<1> DEFINE t == [s EXCEPT !.riding[c] = m]
<1>1. t = [master |-> s.master, leader |-> s.leader, pet |-> s.pet, charm |-> s.charm,
           riding |-> [s.riding EXCEPT ![c] = m], passenger |-> s.passenger]
  BY TiesForm
<1>2. Saddled(s, c, m) = [t EXCEPT !.passenger[m] = c]
  BY DEF Ties, Saddled
<1> HIDE DEF t
<1>3. QED
  BY <1>1, <1>2

\* A rider gets off, whichever of the two does it.
LEMMA OffGood ==
  ASSUME NEW s, NEW a, NEW k, Good(s, a, k), NEW c \in Chars, NEW m, s.riding[c] = m, m # None
  PROVE  Good([s EXCEPT !.riding[c] = None, !.passenger[m] = None], a, k)
<1>1. s \in Ties
  BY DEF Good
<1>2. m \in Chars
  BY <1>1 DEF Ties
<1>3. PICK t \in Ties :
        /\ t = [s EXCEPT !.riding[c] = None, !.passenger[m] = None]
        /\ t.master = s.master /\ t.leader = s.leader
        /\ t.pet = s.pet /\ t.charm = s.charm
        /\ \A x \in Chars : t.riding[x] = IF x = c THEN None ELSE s.riding[x]
        /\ \A x \in Chars : t.passenger[x] = IF x = m THEN None ELSE s.passenger[x]
  <2>1. [s EXCEPT !.riding[c] = None, !.passenger[m] = None] =
          [master |-> s.master, leader |-> s.leader, pet |-> s.pet, charm |-> s.charm,
           riding |-> [s.riding EXCEPT ![c] = None],
           passenger |-> [s.passenger EXCEPT ![m] = None]]
    BY <1>1, <1>2, OffForm
  <2>2. [s EXCEPT !.riding[c] = None, !.passenger[m] = None] \in Ties
    BY <1>1, <2>1 DEF Ties
  <2> QED
    BY <1>1, <1>2, <2>1, <2>2 DEF Ties
<1>4. FreeOK(t, a)
  BY <1>3 DEF Good, FreeOK
<1>5. HereOK(t, a) /\ LeadOK(t, a) /\ PetOK(t, a, k)
  BY <1>3 DEF Good, HereOK, LeadOK, PetOK
<1>6. RideOK(t, a)
  BY <1>2, <1>3 DEF Good, RideOK
<1>7. QED
  BY <1>3, <1>4, <1>5, <1>6 DEF Good

LEMMA SwapExcept ==
  ASSUME NEW s \in Ties, NEW c \in Chars, NEW m \in Chars
  PROVE  [s EXCEPT !.passenger[m] = None, !.riding[c] = None] =
         [s EXCEPT !.riding[c] = None, !.passenger[m] = None]
  BY DEF Ties

\* clear_mount leaves c riding nobody and carrying nobody.
LEMMA ClearMountGood ==
  ASSUME NEW s, NEW a, NEW k, Good(s, a, k), NEW c \in Chars
  PROVE  /\ Good(ClearMount(s, c), a, k)
         /\ ClearMount(s, c).master = s.master
         /\ ClearMount(s, c).leader = s.leader
         /\ ClearMount(s, c).pet = s.pet
         /\ \A x \in Chars : ClearMount(s, c).riding[x] # c
<1> DEFINE t == IF s.riding[c] = None THEN s
                ELSE [s EXCEPT !.passenger[s.riding[c]] = None, !.riding[c] = None]
<1>1. s \in Ties
  BY DEF Good
<1>2. ClearMount(s, c) = IF t.passenger[c] = None THEN t
        ELSE [t EXCEPT !.riding[t.passenger[c]] = None, !.passenger[c] = None]
  BY DEF ClearMount
<1>3. Good(t, a, k) /\ t.master = s.master /\ t.leader = s.leader /\ t.pet = s.pet
  <2>1. CASE s.riding[c] = None
    BY <2>1
  <2>2. CASE s.riding[c] # None
    <3>1. s.riding[c] \in Chars
      BY <1>1, <2>2 DEF Ties
    <3>2. t = [s EXCEPT !.riding[c] = None, !.passenger[s.riding[c]] = None]
      BY <1>1, <2>2, <3>1, SwapExcept
    <3>3. PICK r \in Chars : r = s.riding[c]
      BY <3>1
    <3>4. t = [s EXCEPT !.riding[c] = None, !.passenger[r] = None]
      BY <3>2, <3>3
    <3>5. Good(t, a, k)
      BY <2>2, <3>3, <3>4, OffGood
    <3>6. t.master = s.master /\ t.leader = s.leader /\ t.pet = s.pet
      <4>1. [s EXCEPT !.riding[c] = None, !.passenger[r] = None] =
              [master |-> s.master, leader |-> s.leader, pet |-> s.pet, charm |-> s.charm,
               riding |-> [s.riding EXCEPT ![c] = None],
               passenger |-> [s.passenger EXCEPT ![r] = None]]
        BY <1>1, OffForm
      <4> HIDE DEF t
      <4>2. QED
        BY <3>4, <4>1
    <3>7. QED
      BY <3>5, <3>6
  <2>3. QED
    BY <2>1, <2>2
<1> HIDE DEF t
<1>4. t \in Ties
  BY <1>3 DEF Good
<1>5. CASE t.passenger[c] = None
  <2>1. \A x \in Chars : t.riding[x] # c
    BY <1>3, <1>5, NoneFacts DEF Good, RideOK
  <2>2. QED
    BY <1>2, <1>3, <1>5, <2>1
<1>6. CASE t.passenger[c] # None
  <2>1. PICK p \in Chars : p = t.passenger[c]
    BY <1>4, <1>6 DEF Ties
  <2>2. PICK v \in Ties :
          /\ v = [t EXCEPT !.riding[p] = None, !.passenger[c] = None]
          /\ v.master = t.master /\ v.leader = t.leader
          /\ v.pet = t.pet /\ v.charm = t.charm
          /\ \A x \in Chars : v.riding[x] = IF x = p THEN None ELSE t.riding[x]
          /\ \A x \in Chars : v.passenger[x] = IF x = c THEN None ELSE t.passenger[x]
    <3>1. [t EXCEPT !.riding[p] = None, !.passenger[c] = None] =
            [master |-> t.master, leader |-> t.leader, pet |-> t.pet, charm |-> t.charm,
             riding |-> [t.riding EXCEPT ![p] = None],
             passenger |-> [t.passenger EXCEPT ![c] = None]]
      BY <1>4, OffForm
    <3>2. [t EXCEPT !.riding[p] = None, !.passenger[c] = None] \in Ties
      BY <1>4, <3>1 DEF Ties
    <3> QED
      BY <1>4, <3>1, <3>2 DEF Ties
  <2>3. ClearMount(s, c) = v
    BY <1>2, <1>6, <2>1, <2>2
  <2>4. FreeOK(v, a)
    BY <1>3, <2>2 DEF Good, FreeOK
  <2>5. HereOK(v, a) /\ LeadOK(v, a) /\ PetOK(v, a, k)
    BY <1>3, <2>2 DEF Good, HereOK, LeadOK, PetOK
  <2>6. RideOK(v, a)
    <3> SUFFICES ASSUME NEW x \in Chars, v.riding[x] # None
                 PROVE  /\ a[x] = "here" /\ a[v.riding[x]] = "here"
                        /\ v.passenger[v.riding[x]] = x
      BY DEF RideOK
    <3>1. x # p /\ v.riding[x] = t.riding[x] /\ t.riding[x] \in Chars
      BY <1>4, <2>2 DEF Ties
    <3>2. t.passenger[t.riding[x]] = x /\ a[x] = "here" /\ a[t.riding[x]] = "here"
      BY <1>3, <3>1, NoneFacts DEF Good, RideOK
    <3>3. QED
      BY <2>1, <2>2, <3>1, <3>2
  <2>7. \A x \in Chars : v.riding[x] # c
    BY <1>3, <2>1, <2>2, NoneFacts DEF Good, RideOK
  <2>8. QED
    BY <1>3, <2>2, <2>3, <2>4, <2>5, <2>6, <2>7 DEF Good
<1>7. QED
  BY <1>5, <1>6

\* A slot made new, when nobody owns or rides it.
LEMMA FreshGood ==
  ASSUME NEW s, NEW a, NEW k, Good(s, a, k), NEW c \in Chars,
         \A x \in Chars : s.pet[x] # c /\ s.riding[x] # c
  PROVE  /\ Good(Fresh(s, c), a, k)
         /\ \A x \in Chars : /\ Fresh(s, c).master[x] = IF x = c THEN None ELSE s.master[x]
                             /\ Fresh(s, c).leader[x] = IF x = c THEN None ELSE s.leader[x]
                             /\ Fresh(s, c).pet[x] = IF x = c THEN None ELSE s.pet[x]
                             /\ Fresh(s, c).riding[x] = IF x = c THEN None ELSE s.riding[x]
         /\ Fresh(s, c).passenger[c] = None /\ Fresh(s, c).charm[c] = "no"
<1>1. s \in Ties
  BY DEF Good
<1>2. Fresh(s, c) = [master |-> [s.master EXCEPT ![c] = None],
                     leader |-> [s.leader EXCEPT ![c] = None],
                     pet |-> [s.pet EXCEPT ![c] = None],
                     charm |-> [s.charm EXCEPT ![c] = "no"],
                     riding |-> [s.riding EXCEPT ![c] = None],
                     passenger |-> [s.passenger EXCEPT ![c] = None]]
  <2> DEFINE s1 == [s EXCEPT !.master[c] = None]
  <2> DEFINE s2 == [s1 EXCEPT !.leader[c] = None]
  <2> DEFINE s3 == [s2 EXCEPT !.pet[c] = None]
  <2> DEFINE s4 == [s3 EXCEPT !.charm[c] = "no"]
  <2> DEFINE s5 == [s4 EXCEPT !.riding[c] = None]
  <2>1. Fresh(s, c) = [s5 EXCEPT !.passenger[c] = None]
    BY <1>1 DEF Fresh, Ties
  <2>2. s1 = [master |-> [s.master EXCEPT ![c] = None], leader |-> s.leader,
              pet |-> s.pet, charm |-> s.charm,
              riding |-> s.riding, passenger |-> s.passenger]
    BY <1>1, TiesForm
  <2> HIDE DEF s1
  <2>3. s2 = [s1 EXCEPT !.leader = [s.leader EXCEPT ![c] = None]]
    BY <2>2
  <2>4. s3 = [s2 EXCEPT !.pet = [s.pet EXCEPT ![c] = None]]
    BY <2>2, <2>3
  <2> HIDE DEF s2
  <2>5. s4 = [s3 EXCEPT !.charm = [s.charm EXCEPT ![c] = "no"]]
    BY <2>2, <2>3, <2>4
  <2> HIDE DEF s3
  <2>6. s5 = [s4 EXCEPT !.riding = [s.riding EXCEPT ![c] = None]]
    BY <2>2, <2>3, <2>4, <2>5
  <2> HIDE DEF s4, s5
  <2>7. QED
    BY <2>1, <2>2, <2>3, <2>4, <2>5, <2>6
<1>3. PICK t \in Ties :
        /\ t = Fresh(s, c)
        /\ \A x \in Chars : t.master[x] = IF x = c THEN None ELSE s.master[x]
        /\ \A x \in Chars : t.leader[x] = IF x = c THEN None ELSE s.leader[x]
        /\ \A x \in Chars : t.pet[x] = IF x = c THEN None ELSE s.pet[x]
        /\ \A x \in Chars : t.charm[x] = IF x = c THEN "no" ELSE s.charm[x]
        /\ \A x \in Chars : t.riding[x] = IF x = c THEN None ELSE s.riding[x]
        /\ \A x \in Chars : t.passenger[x] = IF x = c THEN None ELSE s.passenger[x]
  <2>1. Fresh(s, c) \in Ties
    BY <1>1, <1>2 DEF Ties
  <2> QED
    BY <1>1, <1>2, <2>1 DEF Ties
<1>4. FreeOK(t, a)
  BY <1>3 DEF Good, FreeOK
<1>5. HereOK(t, a)
  BY <1>3 DEF Good, HereOK
<1>6. LeadOK(t, a)
  BY <1>3 DEF Good, LeadOK
<1>7. PetOK(t, a, k)
  <2> SUFFICES ASSUME NEW x \in Chars, t.pet[x] # None
               PROVE  /\ x \in Players
                      /\ t.master[t.pet[x]] = x
                      /\ k[t.pet[x]] # "undead"
                      /\ \/ a[x] = "prompt" /\ a[t.pet[x]] = "limbo"
                         \/ a[x] = "here" /\ a[t.pet[x]] = "here"
    BY DEF PetOK
  <2>1. t.pet[x] = s.pet[x] /\ s.pet[x] \in Chars /\ s.pet[x] # c
    BY <1>1, <1>3, NoneFacts DEF Ties
  <2>2. QED
    BY <1>3, <2>1 DEF Good, PetOK
<1>8. RideOK(t, a)
  <2> SUFFICES ASSUME NEW x \in Chars, t.riding[x] # None
               PROVE  /\ a[x] = "here" /\ a[t.riding[x]] = "here"
                      /\ t.passenger[t.riding[x]] = x
    BY DEF RideOK
  <2>1. t.riding[x] = s.riding[x] /\ s.riding[x] \in Chars /\ s.riding[x] # c
    BY <1>1, <1>3, NoneFacts DEF Ties
  <2>2. QED
    BY <1>3, <2>1 DEF Good, RideOK
<1>9. QED
  BY <1>3, <1>4, <1>5, <1>6, <1>7, <1>8 DEF Good

Blank(s, c) ==
  /\ s.master[c] = None /\ s.leader[c] = None /\ s.pet[c] = None /\ s.charm[c] = "no"
  /\ s.riding[c] = None /\ s.passenger[c] = None

\* A slot is given back when it points nowhere and nobody in the world, or
\* with a pet or a mount, points to it.
LEMMA GoneGood ==
  ASSUME NEW s, NEW a, NEW k, Good(s, a, k), NEW c \in Chars, Blank(s, c),
         \A x \in Chars : a[x] = "here" => s.master[x] # c /\ s.leader[x] # c,
         \A x \in Chars : s.pet[x] # c /\ s.riding[x] # c
  PROVE  Good(s, [a EXCEPT ![c] = "out"], k)
<1> DEFINE b == [a EXCEPT ![c] = "out"]
<1>1. /\ s \in Ties /\ b \in Wheres
      /\ \A x \in Chars : b[x] = IF x = c THEN "out" ELSE a[x]
  BY DEF Good, Wheres
<1> HIDE DEF b
<1>2. FreeOK(s, b)
  BY <1>1 DEF Good, FreeOK, Blank
<1>3. HereOK(s, b)
  BY <1>1 DEF Good, HereOK, Ties
<1>4. LeadOK(s, b)
  BY <1>1 DEF Good, LeadOK, Blank
<1>5. PetOK(s, b, k)
  BY <1>1, NoneFacts DEF Good, PetOK, Ties, Blank
<1>6. RideOK(s, b)
  BY <1>1 DEF Good, RideOK, Ties, Blank
<1>7. QED
  BY <1>1, <1>2, <1>3, <1>4, <1>5, <1>6 DEF Good, b

\* extract_char of a mobile: its slot can be given back.
LEMMA VanishGood ==
  ASSUME NEW s, NEW a, NEW k, Good(s, a, k), NEW m \in Chars
  PROVE  /\ Good(Vanish(s, m), [a EXCEPT ![m] = "out"], k)
         /\ \A x \in Chars : Vanish(s, m).pet[x] # m
<1> DEFINE d == DieFollower(s, m)
<1> DEFINE e == ClearMount(d, m)
<1>1. /\ Good(d, a, k)
      /\ \A x \in Chars : d.master[x] # m /\ d.leader[x] # m /\ d.pet[x] # m
  BY DieFollowerGood
<1>2. /\ Good(e, a, k)
      /\ e.master = d.master /\ e.leader = d.leader /\ e.pet = d.pet
      /\ \A x \in Chars : e.riding[x] # m
  BY <1>1, ClearMountGood
<1>3. Vanish(s, m) = Fresh(e, m)
  BY DEF Vanish
<1> HIDE DEF d, e
<1>4. PICK t : t = Fresh(e, m)
  OBVIOUS
<1>5. /\ Good(t, a, k)
      /\ \A x \in Chars : /\ t.master[x] = IF x = m THEN None ELSE e.master[x]
                          /\ t.leader[x] = IF x = m THEN None ELSE e.leader[x]
                          /\ t.pet[x] = IF x = m THEN None ELSE e.pet[x]
                          /\ t.riding[x] = IF x = m THEN None ELSE e.riding[x]
      /\ t.passenger[m] = None /\ t.charm[m] = "no"
  BY <1>1, <1>2, <1>4, FreshGood
<1>6. Blank(t, m)
  BY <1>5 DEF Blank
<1>7. \A x \in Chars : t.master[x] # m /\ t.leader[x] # m /\ t.pet[x] # m /\ t.riding[x] # m
  BY <1>1, <1>2, <1>5, NoneFacts
<1>8. Good(t, [a EXCEPT ![m] = "out"], k)
  BY <1>5, <1>6, <1>7, GoneGood
<1>9. QED
  BY <1>3, <1>4, <1>7, <1>8

\* Where everybody is when the pet of c is gone.
Petless(s, a, c) == IF s.pet[c] = None THEN a ELSE [a EXCEPT ![s.pet[c]] = "out"]

\* nuke_pets: the pet, which is c's own, is gone for good.
LEMMA NukeGood ==
  ASSUME NEW s, NEW a, NEW k, Good(s, a, k), NEW c \in Chars
  PROVE  Good(Nuke(s, c), Petless(s, a, c), k)
<1>1. CASE s.pet[c] = None
  BY <1>1 DEF Nuke, Petless
<1>2. CASE s.pet[c] # None
  <2>1. s \in Ties
    BY DEF Good
  <2>2. PICK m \in Chars : m = s.pet[c]
    BY <1>2, <2>1, NoneFacts DEF Ties
  <2> DEFINE b == [a EXCEPT ![m] = "out"]
  <2>3. Good(Stop(s, m), a, k)
    BY StopGood
  <2>4. PICK u : u = Vanish(Stop(s, m), m)
    OBVIOUS
  <2>5. Good(u, b, k)
    BY <2>3, <2>4, VanishGood
  <2>6. Nuke(s, c) = [u EXCEPT !.pet[c] = None]
    BY <1>2, <2>2, <2>4 DEF Nuke
  <2>7. PICK t \in Ties :
          /\ t = [u EXCEPT !.pet[c] = None]
          /\ t.master = u.master /\ t.leader = u.leader /\ t.charm = u.charm
          /\ t.riding = u.riding /\ t.passenger = u.passenger
          /\ \A x \in Chars : t.pet[x] = IF x = c THEN None ELSE u.pet[x]
    <3>1. u \in Ties
      BY <2>5 DEF Good
    <3>2. [u EXCEPT !.pet[c] = None] =
            [master |-> u.master, leader |-> u.leader, charm |-> u.charm,
             pet |-> [u.pet EXCEPT ![c] = None],
             riding |-> u.riding, passenger |-> u.passenger]
      BY <3>1, TiesForm
    <3>3. [u EXCEPT !.pet[c] = None] \in Ties
      BY <3>1, <3>2 DEF Ties
    <3>4. QED
      BY <3>1, <3>2, <3>3 DEF Ties
  <2>8. FreeOK(t, b)
    BY <2>5, <2>7 DEF Good, FreeOK
  <2>9. HereOK(t, b) /\ LeadOK(t, b) /\ RideOK(t, b)
    BY <2>5, <2>7 DEF Good, HereOK, LeadOK, RideOK
  <2>10. PetOK(t, b, k)
    BY <2>5, <2>7 DEF Good, PetOK
  <2>11. Good(t, b, k)
    BY <2>5, <2>7, <2>8, <2>9, <2>10 DEF Good
  <2>12. Petless(s, a, c) = b
    BY <1>2, <2>2 DEF Petless
  <2>13. QED
    BY <2>6, <2>7, <2>11, <2>12
<1>3. QED
  BY <1>1, <1>2

-----------------------------------------------------------------------------
(***************************************************************************)
(* The actions.                                                            *)
(***************************************************************************)
TeamsOK == team \in [Players -> Teams \cup {"none"}]

LEMMA Becoming ==
  ASSUME NEW s, NEW a, NEW k, Good(s, a, k), Becomes(s), at' = a, kind' = k, TeamsOK'
  PROVE  IInv'
<1>1. s \in Ties
  BY DEF Good
<1>2. now' = s
  BY <1>1, TiesForm DEF Becomes, now
<1>3. QED
  BY <1>2 DEF IInv, TeamsOK

\* Those that leave everybody where it is.
LEMMA Staying ==
  ASSUME IInv, NEW s, Good(s, at, kind), Becomes(s), UNCHANGED <<at, kind, team>>
  PROVE  IInv'
<1>1. TeamsOK'
  BY DEF IInv, TeamsOK
<1>2. QED
  BY <1>1, Becoming

LEMMA Now ==
  ASSUME IInv
  PROVE  /\ Good(now, at, kind) /\ TeamsOK /\ now \in Ties
         /\ now.master = master /\ now.leader = leader /\ now.pet = pet
         /\ now.charm = charm /\ now.riding = riding /\ now.passenger = passenger
  BY DEF IInv, TeamsOK, Good, now

LEMMA NowTypes ==
  ASSUME IInv
  PROVE  /\ master \in [Chars -> Chars \cup {None}] /\ leader \in [Chars -> Chars \cup {None}]
         /\ pet \in [Chars -> Mobs \cup {None}] /\ charm \in [Chars -> {"no", "spell", "bit"}]
         /\ riding \in [Chars -> Chars \cup {None}]
         /\ passenger \in [Chars -> Chars \cup {None}]
  BY Now DEF Ties

LEMMA FollowStep ==
  ASSUME IInv, NEW c \in Chars, NEW v \in Chars,
         Follow(c, v) \/ Attack(c, v)
  PROVE  IInv'
<1>2. CASE Follow(c, v)
  <2>1. PICK s : s \in Added(Stop(now, c), c, v) /\ Becomes(s)
    BY <1>2 DEF Follow
  <2>2. Good(Stop(now, c), at, kind)
    BY Now, StopGood
  <2>3. at[c] = "here" /\ at[v] = "here" /\ UNCHANGED <<at, kind, team>>
    BY <1>2 DEF Follow, Here
  <2>4. Good(s, at, kind)
    BY <2>1, <2>2, <2>3, AddedGood
  <2>5. QED
    BY <2>1, <2>3, <2>4, Staying
<1>3. CASE Attack(c, v)
  BY <1>3, Now, StopGood, Staying DEF Attack
<1>4. QED
  BY <1>2, <1>3

LEMMA GroupStep ==
  ASSUME IInv, NEW c \in Chars, NEW v \in Chars, Group(c, v)
  PROVE  IInv'
<1>1. PICK l \in Chars \cup {None} :
        l \in {None, c} /\ leader' = [leader EXCEPT ![v] = l]
  BY NoneFacts DEF Group
<1>2. /\ at[c] = "here" /\ at[v] = "here" /\ (master[v] = c \/ v = c)
      /\ UNCHANGED <<at, kind, team, master, pet, charm, riding, passenger>>
  BY DEF Group, Here
<1>3. PICK t \in Ties :
        /\ t = [master |-> master, leader |-> [leader EXCEPT ![v] = l], pet |-> pet,
                charm |-> charm, riding |-> riding, passenger |-> passenger]
        /\ t.master = master /\ t.pet = pet /\ t.charm = charm
        /\ t.riding = riding /\ t.passenger = passenger
        /\ \A x \in Chars : t.leader[x] = IF x = v THEN l ELSE leader[x]
  <2> DEFINE t == [master |-> master, leader |-> [leader EXCEPT ![v] = l], pet |-> pet,
                   charm |-> charm, riding |-> riding, passenger |-> passenger]
  <2>1. t \in Ties
    BY NowTypes DEF Ties
  <2>2. \A x \in Chars : t.leader[x] = IF x = v THEN l ELSE leader[x]
    BY NowTypes
  <2>3. QED
    BY <2>1, <2>2
<1>4. FreeOK(t, at)
  BY Now, <1>2, <1>3 DEF Good, FreeOK
<1>5. HereOK(t, at)
  BY Now, <1>1, <1>2, <1>3 DEF Good, HereOK
<1>6. LeadOK(t, at)
  BY Now, <1>1, <1>2, <1>3 DEF Good, LeadOK
<1>7. PetOK(t, at, kind) /\ RideOK(t, at)
  BY Now, <1>3 DEF Good, PetOK, RideOK
<1>8. Good(t, at, kind)
  BY Now, <1>3, <1>4, <1>5, <1>6, <1>7 DEF Good
<1>9. Becomes(t)
  BY <1>1, <1>2, <1>3 DEF Becomes
<1>10. QED
  BY <1>2, <1>8, <1>9, Staying

LEMMA NoFollowStep ==
  ASSUME IInv, NEW c \in Chars, NoFollow(c)
  PROVE  IInv'
<1>1. PICK s : /\ Good(s, at, kind)
               /\ Becomes(IF charm[c] = "no" THEN DieFollower(s, c) ELSE s)
  <2>1. CASE riding[c] = None
    BY <2>1, Now DEF NoFollow
  <2>2. CASE riding[c] # None
    <3> DEFINE s == [now EXCEPT !.riding[c] = None, !.passenger[riding[c]] = None]
    <3>1. Good(s, at, kind)
      BY <2>2, Now, OffGood
    <3>2. Becomes(IF charm[c] = "no" THEN DieFollower(s, c) ELSE s)
      BY <2>2 DEF NoFollow
    <3>3. QED
      BY <3>1, <3>2
  <2>3. QED
    BY <2>1, <2>2
<1>2. UNCHANGED <<at, kind, team>>
  BY DEF NoFollow
<1>3. CASE charm[c] = "no"
  BY <1>1, <1>2, <1>3, DieFollowerGood, Staying
<1>4. CASE charm[c] # "no"
  BY <1>1, <1>2, <1>4, Staying
<1>5. QED
  BY <1>3, <1>4

LEMMA MountStep ==
  ASSUME IInv, NEW c \in Chars, NEW m \in Mobs, Mount(c, m)
  PROVE  IInv'
<1>1. /\ at[c] = "here" /\ at[m] = "here" /\ passenger[m] = None /\ m \in Chars
      /\ Becomes(Saddled(now, c, m))
      /\ UNCHANGED <<at, kind, team>>
  BY NoneFacts DEF Mount, Here, Saddled
<1>2. PICK t \in Ties :
        /\ t = Saddled(now, c, m)
        /\ t.master = master /\ t.leader = leader /\ t.pet = pet /\ t.charm = charm
        /\ \A x \in Chars : t.riding[x] = IF x = c THEN m ELSE riding[x]
        /\ \A x \in Chars : t.passenger[x] = IF x = m THEN c ELSE passenger[x]
  <2>1. Saddled(now, c, m) =
          [master |-> master, leader |-> leader, pet |-> pet, charm |-> charm,
           riding |-> [riding EXCEPT ![c] = m],
           passenger |-> [passenger EXCEPT ![m] = c]]
    BY Now, <1>1, MountForm
  <2>2. Saddled(now, c, m) \in Ties
    BY NowTypes, <1>1, <2>1 DEF Ties
  <2>3. QED
    BY NowTypes, <1>1, <2>1, <2>2 DEF Ties
<1>3. FreeOK(t, at)
  BY Now, <1>1, <1>2 DEF Good, FreeOK
<1>4. HereOK(t, at) /\ LeadOK(t, at) /\ PetOK(t, at, kind)
  BY Now, <1>2 DEF Good, HereOK, LeadOK, PetOK
<1>5. RideOK(t, at)
  <2>1. \A x \in Chars : riding[x] # None =>
          /\ at[x] = "here" /\ at[riding[x]] = "here"
          /\ passenger[riding[x]] = x /\ riding[x] \in Chars
    <3>1. RideOK(now, at) /\ now.riding = riding /\ now.passenger = passenger
      BY Now DEF Good
    <3>2. QED
      BY <3>1, NowTypes DEF RideOK
  <2> SUFFICES ASSUME NEW x \in Chars, t.riding[x] # None
               PROVE  /\ at[x] = "here" /\ at[t.riding[x]] = "here"
                      /\ t.passenger[t.riding[x]] = x
    BY DEF RideOK
  <2>2. CASE x = c
    <3>1. t.riding[x] = m /\ t.passenger[m] = c
      BY <1>1, <1>2, <2>2
    <3>2. QED
      BY <1>1, <2>2, <3>1
  <2>3. CASE x # c
    <3>1. t.riding[x] = riding[x]
      BY <1>2, <2>3
    <3>2. passenger[riding[x]] = x /\ riding[x] \in Chars /\ riding[x] # m
      BY <1>1, <2>1, <3>1, NoneFacts
    <3>3. t.passenger[riding[x]] = x
      BY <1>2, <3>2
    <3>4. QED
      BY <2>1, <3>1, <3>3
  <2>4. QED
    BY <2>2, <2>3
<1>6. Good(t, at, kind)
  <2>1. at \in Wheres /\ kind \in [Mobs -> Kinds]
    BY Now DEF Good
  <2>2. t \in Ties
    BY <1>2
  <2>3. QED
    BY <2>1, <2>2, <1>3, <1>4, <1>5 DEF Good
<1>7. QED
  BY <1>1, <1>2, <1>6, Staying

LEMMA WearOffStep ==
  ASSUME IInv, NEW c \in Chars, WearOff(c)
  PROVE  IInv'
<1>1. at[c] # "out"
  BY DEF WearOff, Here
<1>2. Good([now EXCEPT !.charm[c] = "no"], at, kind)
  BY <1>1, Now, CharmGood
<1>3. QED
  BY <1>2, Staying DEF WearOff

LEMMA CommandStep ==
  ASSUME IInv, NEW c \in Chars, Command(c)
  PROVE  IInv'
<1>2. CASE Unfollow(c)
  BY <1>2, Now, StopGood, Staying DEF Unfollow
<1>3. CASE NoFollow(c) \/ WearOff(c)
  BY <1>3, NoFollowStep, WearOffStep
<1>4. CASE Dismount(c) \/ Transfer(c)
  <2>1. CASE Dismount(c)
    BY <2>1, Now, OffGood, Staying DEF Dismount
  <2>2. CASE Transfer(c)
    BY <2>2, Now, ClearMountGood, Staying DEF Transfer
  <2>3. QED
    BY <1>4, <2>1, <2>2
<1>5. ASSUME NEW v \in Chars, Follow(c, v) \/ Group(c, v) \/ Attack(c, v) PROVE IInv'
  BY <1>5, FollowStep, GroupStep
<1>6. ASSUME NEW m \in Mobs, Mount(c, m) PROVE IInv'
  BY <1>6, MountStep
<1>7. QED
  BY <1>2, <1>3, <1>4, <1>5, <1>6 DEF Command

-----------------------------------------------------------------------------
\* A mobile is made in the place of none.
LEMMA ComesGood ==
  ASSUME IInv, NEW m \in Mobs, NEW k0 \in Kinds, Comes(m, k0)
  PROVE  /\ Good(now, at', kind') /\ at'[m] = "here" /\ kind'[m] = k0
         /\ \A x \in Chars : at[x] = "here" => at'[x] = "here"
         /\ master[m] = None /\ TeamsOK'
<1>1. /\ at[m] = "out" /\ m \in Chars /\ TeamsOK'
      /\ \A x \in Chars : at'[x] = IF x = m THEN "here" ELSE at[x]
      /\ at' \in Wheres
      /\ \A x \in Mobs : kind'[x] = IF x = m THEN k0 ELSE kind[x]
      /\ kind' \in [Mobs -> Kinds]
  BY Now, NoneFacts DEF Comes, Good, Wheres, TeamsOK
<1>2. master[m] = None
  BY Now, <1>1 DEF Good, FreeOK
<1>3. FreeOK(now, at')
  BY Now, <1>1 DEF Good, FreeOK
<1>4. HereOK(now, at')
  <2> SUFFICES ASSUME NEW x \in Chars, at'[x] = "here"
               PROVE  /\ master[x] # None => at'[master[x]] = "here"
                      /\ leader[x] # None => at'[leader[x]] = "here"
    BY Now DEF HereOK
  <2>1. CASE x = m
    BY Now, <1>1, <2>1 DEF Good, FreeOK
  <2>2. CASE x # m
    BY Now, NowTypes, <1>1, <2>2 DEF Good, HereOK
  <2>3. QED
    BY <2>1, <2>2
<1>5. LeadOK(now, at')
  BY Now, <1>1 DEF Good, LeadOK
<1>6. PetOK(now, at', kind')
  <2> SUFFICES ASSUME NEW x \in Chars, pet[x] # None
               PROVE  /\ x \in Players
                      /\ master[pet[x]] = x
                      /\ kind'[pet[x]] # "undead"
                      /\ \/ at'[x] = "prompt" /\ at'[pet[x]] = "limbo"
                         \/ at'[x] = "here" /\ at'[pet[x]] = "here"
    BY Now DEF PetOK
  <2>1. /\ pet[x] \in Mobs /\ pet[x] # m /\ pet[x] \in Chars
    BY Now, NowTypes, NoneFacts, <1>1 DEF Good, PetOK
  <2>2. x # m
    BY Now, <1>1 DEF Good, PetOK
  <2>3. QED
    BY Now, <1>1, <2>1, <2>2 DEF Good, PetOK
<1>7. RideOK(now, at')
  BY Now, NowTypes, <1>1 DEF Good, RideOK
<1>8. QED
  BY Now, <1>1, <1>2, <1>3, <1>4, <1>5, <1>6, <1>7 DEF Good

LEMMA PetForm ==
  ASSUME NEW s \in Ties, NEW c \in Chars, NEW m \in Mobs
  PROVE  /\ [s EXCEPT !.pet[c] = m] \in Ties
         /\ [s EXCEPT !.pet[c] = m].master = s.master
         /\ [s EXCEPT !.pet[c] = m].leader = s.leader
         /\ [s EXCEPT !.pet[c] = m].charm = s.charm
         /\ [s EXCEPT !.pet[c] = m].riding = s.riding
         /\ [s EXCEPT !.pet[c] = m].passenger = s.passenger
         /\ \A x \in Chars : [s EXCEPT !.pet[c] = m].pet[x] = IF x = c THEN m ELSE s.pet[x]
<1>1. [s EXCEPT !.pet[c] = m] =
        [master |-> s.master, leader |-> s.leader, charm |-> s.charm,
         pet |-> [s.pet EXCEPT ![c] = m], riding |-> s.riding, passenger |-> s.passenger]
  BY TiesForm
<1>2. QED
  BY <1>1 DEF Ties

\* What is made follows its maker and is led by it; only a pet is owned.
LEMMA MadeGood ==
  ASSUME NEW a, NEW k, Good(now, a, k), NEW c \in Players, NEW m \in Mobs,
         a[c] = "here", a[m] = "here", master[m] = None, NEW owned \in BOOLEAN,
         owned => k[m] # "undead"
  PROVE  Good(Made(c, m, owned), a, k)
<1>1. c \in Chars /\ m \in Chars /\ now.master = master
  BY NoneFacts DEF now
<1>2. PICK u : u = Add(now, m, c)
  OBVIOUS
<1>3. Good(u, a, k) /\ u.master[m] = c
  BY <1>1, <1>2, AddGood
<1>4. PICK t : t = Led(u, m, c, "bit")
  OBVIOUS
<1>5. Good(t, a, k) /\ t.master = u.master /\ t.pet = u.pet
  <2>1. "bit" \in {"no", "spell", "bit"}
    OBVIOUS
  <2>2. m \in Chars /\ c \in Chars /\ (m \in Bound \/ u.master[m] = c \/ m = c)
    BY <1>1, <1>3
  <2>3. Good(t, a, k)
    BY <1>3, <1>4, <2>1, <2>2, LedGood
  <2>4. t.master = u.master
    BY <1>1, <1>3, <1>4 DEF Led, Good, Ties
  <2>5. t.pet = u.pet
    BY <1>1, <1>3, <1>4 DEF Led, Good, Ties
  <2>6. QED
    BY <2>3, <2>4, <2>5
<1>6. Made(c, m, owned) = IF owned THEN [t EXCEPT !.pet[c] = m] ELSE t
  BY <1>2, <1>4 DEF Made, Led
<1>7. CASE ~owned
  BY <1>5, <1>6, <1>7
<1>8. CASE owned
  <2>1. t \in Ties
    BY <1>5 DEF Good
  <2>2. PICK v : v = [t EXCEPT !.pet[c] = m]
    OBVIOUS
  <2>3. /\ v \in Ties
        /\ v.master = t.master /\ v.leader = t.leader /\ v.charm = t.charm
        /\ v.riding = t.riding /\ v.passenger = t.passenger
        /\ \A x \in Chars : v.pet[x] = IF x = c THEN m ELSE t.pet[x]
    BY <1>1, <2>1, <2>2, PetForm
  <2>4. FreeOK(v, a)
    BY <1>1, <1>5, <2>3 DEF Good, FreeOK
  <2>5. HereOK(v, a) /\ LeadOK(v, a) /\ RideOK(v, a)
    BY <1>5, <2>3 DEF Good, HereOK, LeadOK, RideOK
  <2>6. PetOK(v, a, k)
    BY <1>1, <1>3, <1>5, <1>8, <2>3 DEF Good, PetOK
  <2>7. Good(v, a, k)
    BY <1>5, <2>3, <2>4, <2>5, <2>6 DEF Good
  <2>8. QED
    BY <1>6, <1>8, <2>2, <2>7
<1>9. QED
  BY <1>7, <1>8

LEMMA MadeStep ==
  ASSUME IInv, NEW c \in Chars, NEW m \in Mobs,
         BuyPet(c, m) \/ CallMount(c, m) \/ Raise(c, m)
  PROVE  IInv'
<1>1. PICK k0 \in Kinds, owned \in BOOLEAN :
        /\ owned => k0 # "undead"
        /\ c \in Here \cap Players /\ Comes(m, k0) /\ Becomes(Made(c, m, owned))
  <2>1. CASE BuyPet(c, m)
    BY <2>1 DEF BuyPet, Kinds
  <2>2. CASE CallMount(c, m)
    BY <2>2 DEF CallMount, Kinds
  <2>3. CASE Raise(c, m)
    BY <2>3 DEF Raise, Kinds
  <2>4. QED
    BY <2>1, <2>2, <2>3
<1>2. /\ Good(now, at', kind') /\ at'[m] = "here" /\ kind'[m] = k0
      /\ at'[c] = "here" /\ master[m] = None /\ TeamsOK'
  BY <1>1, ComesGood DEF Here
<1>3. Good(Made(c, m, owned), at', kind')
  BY <1>1, <1>2, MadeGood
<1>4. QED
  BY <1>1, <1>2, <1>3, Becoming

LEMMA CharmStep ==
  ASSUME IInv, NEW c \in Chars, NEW v \in Chars, Charm(c, v)
  PROVE  IInv'
<1>1. PICK s : /\ s \in Added(Stop(now, v), v, c)
               /\ Becomes([s EXCEPT !.leader[v] = c, !.charm[v] = "spell"])
  BY DEF Charm
<1>2. Good(Stop(now, v), at, kind) /\ Stop(now, v).master[v] = None
  BY Now, StopGood
<1>3. at[c] = "here" /\ at[v] = "here" /\ UNCHANGED <<at, kind, team>>
  BY DEF Charm, Here
<1>4. Good(s, at, kind) /\ (s.master[v] = c \/ v \in Bound)
  BY <1>1, <1>2, <1>3, AddedGood
<1>5. Good(Led(s, v, c, "spell"), at, kind)
  BY <1>3, <1>4, LedGood
<1>6. QED
  BY <1>1, <1>3, <1>5, Staying DEF Led

LEMMA EntranceStep ==
  ASSUME IInv, NEW c \in Chars, NEW v \in Chars, Entrance(c, v)
  PROVE  IInv'
<1>1. PICK s : /\ s \in Added(now, v, c)
               /\ Becomes([Stop(s, v) EXCEPT !.charm[v] = "no", !.master[v] = None])
  BY DEF Entrance
<1>2. at[c] = "here" /\ at[v] = "here" /\ UNCHANGED <<at, kind, team>>
  BY DEF Entrance, Here
<1>3. Good(s, at, kind)
  BY Now, <1>1, <1>2, AddedGood
<1>4. PICK u : u = Stop(s, v)
  OBVIOUS
<1>5. Good(u, at, kind) /\ u.master[v] = None
  BY <1>3, <1>4, StopGood
<1>6. PICK w : w = [u EXCEPT !.charm[v] = "no"]
  OBVIOUS
<1>7. Good(w, at, kind) /\ w.master[v] = None
  BY <1>2, <1>5, <1>6, CharmGood
<1>8. [u EXCEPT !.charm[v] = "no", !.master[v] = None] = w
  <2>1. u \in Ties /\ w \in Ties
    BY <1>5, <1>7 DEF Good
  <2>2. [u EXCEPT !.charm[v] = "no", !.master[v] = None] = [w EXCEPT !.master[v] = None]
    BY <1>6, <2>1 DEF Ties
  <2>3. [w.master EXCEPT ![v] = None] = w.master
    BY <1>7, <2>1 DEF Ties
  <2>4. [w EXCEPT !.master[v] = None] = w
    BY <2>1, <2>3 DEF Ties
  <2>5. QED
    BY <2>2, <2>4
<1>9. QED
  BY <1>1, <1>2, <1>4, <1>7, <1>8, Staying

\* Those betrayed are undead, which are nobody's pets.
LEMMA BetrayStep ==
  ASSUME IInv, NEW c \in Chars, NEW v \in Players, NEW G \in SUBSET Mobs, Betray(c, v, G)
  PROVE  IInv'
<1>1. /\ at[c] = "here" /\ UNCHANGED <<at, kind, team, riding, passenger>>
      /\ \A g \in G : at[g] = "here" /\ g \in Chars
  BY NoneFacts DEF Betray, Here
<1>2. PICK t \in Ties :
        /\ Becomes(t) /\ t.riding = riding /\ t.passenger = passenger
        /\ \A x \in Chars : t.master[x] = IF x \in G THEN c ELSE master[x]
        /\ \A x \in Chars : t.leader[x] = IF x \in G THEN None ELSE leader[x]
        /\ \A x \in Chars : t.charm[x] = IF x \in G THEN "bit" ELSE charm[x]
        /\ \A x \in Chars : t.pet[x] = IF \E g \in G : pet[x] = g THEN None ELSE pet[x]
  <2> DEFINE t == [master |-> master', leader |-> leader', pet |-> pet',
                   charm |-> charm', riding |-> riding, passenger |-> passenger]
  <2>1. /\ master' = [x \in Chars |-> IF x \in G THEN c ELSE master[x]]
        /\ leader' = [x \in Chars |-> IF x \in G THEN None ELSE leader[x]]
        /\ charm' = [x \in Chars |-> IF x \in G THEN "bit" ELSE charm[x]]
        /\ pet' = [x \in Chars |-> IF \E g \in G : pet[x] = g THEN None ELSE pet[x]]
    BY DEF Betray
  <2>2. t \in Ties
    BY NowTypes, <2>1 DEF Ties
  <2>3. Becomes(t)
    BY <1>1 DEF Becomes
  <2>4. QED
    BY <2>1, <2>2, <2>3
<1>3. FreeOK(t, at)
  BY Now, <1>1, <1>2 DEF Good, FreeOK
<1>4. HereOK(t, at)
  BY Now, <1>1, <1>2 DEF Good, HereOK
<1>5. LeadOK(t, at)
  BY Now, <1>1, <1>2 DEF Good, LeadOK
<1>6. PetOK(t, at, kind)
  <2> SUFFICES ASSUME NEW x \in Chars, t.pet[x] # None
               PROVE  /\ x \in Players
                      /\ t.master[t.pet[x]] = x
                      /\ kind[t.pet[x]] # "undead"
                      /\ \/ at[x] = "prompt" /\ at[t.pet[x]] = "limbo"
                         \/ at[x] = "here" /\ at[t.pet[x]] = "here"
    BY DEF PetOK
  <2>1. t.pet[x] = pet[x] /\ pet[x] \in Chars /\ pet[x] \notin G
    BY NowTypes, NoneFacts, <1>2
  <2>2. QED
    BY Now, <1>2, <2>1 DEF Good, PetOK
<1>7. RideOK(t, at)
  BY Now, <1>2 DEF Good, RideOK
<1>8. Good(t, at, kind)
  BY Now, <1>2, <1>3, <1>4, <1>5, <1>6, <1>7 DEF Good
<1>9. QED
  BY <1>1, <1>2, <1>8, Staying

LEMMA TurnStep ==
  ASSUME IInv, NEW c \in Chars, NEW m \in Mobs, Turn(c, m)
  PROVE  IInv'
<1>1. /\ m \in Chars /\ at[m] = "here" /\ kind[m] = "undead"
      /\ UNCHANGED <<at, kind, team>>
  BY NoneFacts DEF Turn, Here
<1>2. PICK t \in Ties :
        /\ Becomes(t) /\ t.riding = riding /\ t.passenger = passenger /\ t.pet = pet
        /\ \A x \in Chars : t.master[x] = IF x = m THEN None ELSE master[x]
        /\ \A x \in Chars : t.leader[x] = IF x = m THEN None ELSE leader[x]
        /\ \A x \in Chars : t.charm[x] = IF x = m THEN "no" ELSE charm[x]
  <2> DEFINE t == [master |-> master', leader |-> leader', pet |-> pet,
                   charm |-> charm', riding |-> riding, passenger |-> passenger]
  <2>1. /\ master' = [master EXCEPT ![m] = None]
        /\ leader' = [leader EXCEPT ![m] = None]
        /\ charm' = [charm EXCEPT ![m] = "no"]
        /\ pet' = pet /\ riding' = riding /\ passenger' = passenger
    BY DEF Turn, Becomes, now
  <2>2. t \in Ties
    BY NowTypes, <2>1 DEF Ties
  <2>3. Becomes(t)
    BY <2>1 DEF Becomes
  <2>4. QED
    BY NowTypes, <2>1, <2>2, <2>3
<1>3. FreeOK(t, at)
  BY Now, <1>1, <1>2 DEF Good, FreeOK
<1>4. HereOK(t, at) /\ LeadOK(t, at)
  BY Now, <1>1, <1>2 DEF Good, HereOK, LeadOK
<1>5. PetOK(t, at, kind)
  <2> SUFFICES ASSUME NEW x \in Chars, pet[x] # None
               PROVE  /\ x \in Players
                      /\ t.master[pet[x]] = x
                      /\ kind[pet[x]] # "undead"
                      /\ \/ at[x] = "prompt" /\ at[pet[x]] = "limbo"
                         \/ at[x] = "here" /\ at[pet[x]] = "here"
    BY <1>2 DEF PetOK
  <2>1. pet[x] \in Chars /\ pet[x] # m
    BY Now, NowTypes, NoneFacts, <1>1 DEF Good, PetOK
  <2>2. QED
    BY Now, <1>2, <2>1 DEF Good, PetOK
<1>6. RideOK(t, at)
  BY Now, <1>2 DEF Good, RideOK
<1>7. Good(t, at, kind)
  BY Now, <1>2, <1>3, <1>4, <1>5, <1>6 DEF Good
<1>8. QED
  BY <1>1, <1>2, <1>7, Staying

LEMMA VhanStep ==
  ASSUME IInv, NEW m \in Mobs, NEW g \in Mobs, Vhan(m, g)
  PROVE  IInv'
<1>1. /\ m \in Chars /\ g \in Chars /\ at[m] = "here" /\ at[g] = "here"
      /\ UNCHANGED <<at, kind, team>>
  BY NoneFacts DEF Vhan, Here
<1>2. PICK u : u = Add(Stop(now, g), g, m)
  OBVIOUS
<1>3. Good(Stop(now, g), at, kind) /\ Stop(now, g).master[g] = None
  BY Now, <1>1, StopGood
<1>4. Good(u, at, kind) /\ u.master[g] = m
  BY <1>1, <1>2, <1>3, AddGood
<1>5. Becomes(Led(u, g, m, "bit"))
  BY <1>2 DEF Vhan, Led
<1>6. Good(Led(u, g, m, "bit"), at, kind)
  BY <1>1, <1>4, LedGood
<1>7. QED
  BY <1>1, <1>5, <1>6, Staying

LEMMA MagicStep ==
  ASSUME IInv, NEW c \in Chars, Magic(c)
  PROVE  IInv'
<1>1. ASSUME NEW v \in Chars, Charm(c, v) \/ Entrance(c, v) PROVE IInv'
  BY <1>1, CharmStep, EntranceStep
<1>2. ASSUME NEW v \in Players, NEW G \in SUBSET Mobs, Betray(c, v, G) PROVE IInv'
  BY <1>2, BetrayStep
<1>3. ASSUME NEW m \in Mobs, BuyPet(c, m) \/ CallMount(c, m) \/ Raise(c, m) PROVE IInv'
  BY <1>3, MadeStep
<1>4. ASSUME NEW m \in Mobs, Turn(c, m) PROVE IInv'
  BY <1>4, TurnStep
<1>5. QED
  BY <1>1, <1>2, <1>3, <1>4 DEF Magic

LEMMA WildGood ==
  ASSUME NEW s, NEW a, NEW k, Good(s, a, k), NEW m \in Mobs
  PROVE  Good(s, a, [k EXCEPT ![m] = "wild"])
<1> DEFINE l == [k EXCEPT ![m] = "wild"]
<1>1. l \in [Mobs -> Kinds] /\ \A x \in Mobs : l[x] = IF x = m THEN "wild" ELSE k[x]
  BY DEF Good, Kinds
<1> HIDE DEF l
<1>2. PetOK(s, a, l)
  BY <1>1 DEF Good, PetOK, Ties
<1>3. Good(s, a, l)
  BY <1>1, <1>2 DEF Good
<1>4. QED
  BY <1>3 DEF l

LEMMA SlainStep ==
  ASSUME IInv, NEW m \in Mobs, Slain(m)
  PROVE  IInv'
<1>1. /\ m \in Chars /\ TeamsOK' /\ Becomes(Vanish(now, m))
      /\ at' = [at EXCEPT ![m] = "out"] /\ kind' = [kind EXCEPT ![m] = "wild"]
  BY Now, NoneFacts DEF Slain, TeamsOK
<1>2. PICK t : t = Vanish(now, m)
  OBVIOUS
<1>3. Good(t, at', kind)
  BY Now, <1>1, <1>2, VanishGood
<1>4. Good(t, at', kind')
  BY <1>1, <1>3, WildGood
<1>5. QED
  BY <1>1, <1>2, <1>4, Becoming

LEMMA SameTies ==
  ASSUME UNCHANGED ties
  PROVE  Becomes(now)
  BY DEF ties, Becomes, now

LEMMA MobileStep ==
  ASSUME IInv, NEW m \in Mobs, Mobile(m)
  PROVE  IInv'
<1>1. CASE Spawn(m)
  <2>1. Comes(m, "wild") /\ Becomes(now) /\ "wild" \in Kinds
    BY <1>1, SameTies DEF Spawn, Kinds
  <2>2. Good(now, at', kind') /\ TeamsOK'
    BY <2>1, ComesGood
  <2>3. QED
    BY <2>1, <2>2, Becoming
<1>2. CASE Slain(m)
  BY <1>2, SlainStep
<1>3. CASE Stray(m)
  BY <1>3, Now, NoneFacts, DieFollowerGood, Staying DEF Stray
<1>4. ASSUME NEW v \in Players, Salesman(m, v) PROVE IInv'
  <2>1. /\ m \in Chars /\ v \in Chars /\ at[m] = "here" /\ at[v] = "here"
        /\ UNCHANGED <<at, kind, team>>
    BY <1>4, NoneFacts DEF Salesman, Here
  <2>2. Good(Stop(now, m), at, kind)
    BY Now, <2>1, StopGood
  <2>3. Good(Add(Stop(now, m), m, v), at, kind)
    BY <2>1, <2>2, AddGood
  <2>4. Becomes(Add(Stop(now, m), m, v)) \/ Becomes(Stop(now, m))
    BY <1>4 DEF Salesman
  <2>5. QED
    BY <2>1, <2>2, <2>3, <2>4, Staying
<1>5. ASSUME NEW g \in Mobs, Vhan(m, g) PROVE IInv'
  BY <1>5, VhanStep
<1>6. QED
  BY <1>1, <1>2, <1>3, <1>4, <1>5 DEF Mobile

-----------------------------------------------------------------------------
LEMMA WithoutPetForm ==
  ASSUME IInv, NEW c \in Chars
  PROVE  WithoutPet(c) = Petless(now, at, c)
<1>1. at \in [Chars -> {"out", "prompt", "limbo", "here"}]
  BY Now DEF Good, Wheres
<1>2. CASE pet[c] = None
  BY <1>1, <1>2, Now DEF WithoutPet, Petless
<1>3. CASE pet[c] # None
  <2>1. Petless(now, at, c) = [at EXCEPT ![pet[c]] = "out"]
    BY <1>3, Now DEF Petless
  <2>2. WithoutPet(c) = [x \in Chars |-> IF x = pet[c] THEN "out" ELSE at[x]]
    BY <1>3 DEF WithoutPet
  <2>3. QED
    BY <1>1, <2>1, <2>2
<1>4. QED
  BY <1>2, <1>3

\* Nobody is the pet of a player.
LEMMA PetlessPlayer ==
  ASSUME IInv, NEW c \in Players
  PROVE  Petless(now, at, c)[c] = at[c]
<1>1. c \in Chars /\ c \notin Mobs /\ pet[c] \in Mobs \cup {None} /\ c # None
  BY NowTypes, NoneFacts, CompanyAssumption
<1>2. pet[c] # c
  BY <1>1
<1>3. at \in [Chars -> {"out", "prompt", "limbo", "here"}]
  BY Now DEF Good, Wheres
<1>4. QED
  BY <1>1, <1>2, <1>3, Now DEF Petless

\* The pet enters with its owner, whom it follows and is led by.
LEMMA EnterStep ==
  ASSUME IInv, NEW c \in Players, EnterGame(c)
  PROVE  IInv'
<1>1. /\ c \in Chars /\ at[c] = "prompt" /\ kind' = kind /\ TeamsOK' /\ Becomes(now)
      /\ \A x \in Chars : at'[x] = IF x = c \/ (pet[c] # None /\ x = pet[c])
                                  THEN "here" ELSE at[x]
  BY Now, NoneFacts, SameTies DEF EnterGame, TeamsOK
<1>2. at' \in Wheres
  BY Now DEF EnterGame, Good, Wheres
<1>3. FreeOK(now, at')
  BY Now, <1>1 DEF Good, FreeOK
<1>4. HereOK(now, at')
  <2> SUFFICES ASSUME NEW x \in Chars, at'[x] = "here"
               PROVE  /\ master[x] # None => at'[master[x]] = "here"
                      /\ leader[x] # None => at'[leader[x]] = "here"
    BY Now DEF HereOK
  <2>0. master[x] \in Chars \cup {None} /\ leader[x] \in Chars \cup {None}
    BY NowTypes
  <2>1. CASE x = c
    BY Now, <1>1, <2>1 DEF Good, FreeOK
  <2>2. CASE x = pet[c] /\ pet[c] # None
    <3>1. master[x] = c /\ at[x] = "limbo"
      BY Now, <1>1, <2>2 DEF Good, PetOK
    <3>2. leader[x] \in {None, x, c}
      BY Now, <3>1 DEF Good, LeadOK
    <3>3. QED
      BY <1>1, <2>2, <3>1, <3>2
  <2>3. CASE at[x] = "here"
    BY Now, <1>1, <2>0, <2>3 DEF Good, HereOK
  <2>4. QED
    BY <1>1, <2>1, <2>2, <2>3
<1>5. LeadOK(now, at')
  BY Now, <1>1 DEF Good, LeadOK
<1>6. PetOK(now, at', kind)
  <2> SUFFICES ASSUME NEW x \in Chars, pet[x] # None
               PROVE  /\ x \in Players
                      /\ master[pet[x]] = x
                      /\ kind[pet[x]] # "undead"
                      /\ \/ at'[x] = "prompt" /\ at'[pet[x]] = "limbo"
                         \/ at'[x] = "here" /\ at'[pet[x]] = "here"
    BY Now DEF PetOK
  <2>1. /\ x \in Players /\ master[pet[x]] = x /\ kind[pet[x]] # "undead"
        /\ \/ at[x] = "prompt" /\ at[pet[x]] = "limbo"
           \/ at[x] = "here" /\ at[pet[x]] = "here"
    BY Now DEF Good, PetOK
  <2>2. pet[x] \in Chars /\ pet[x] # c
    BY NowTypes, NoneFacts, CompanyAssumption
  <2>3. CASE x = c
    BY <1>1, <2>1, <2>2, <2>3
  <2>4. CASE x # c
    <3>1. pet[c] # None => master[pet[c]] = c
      BY Now, <1>1 DEF Good, PetOK
    <3>2. pet[c] # None => pet[x] # pet[c]
      BY <2>1, <2>4, <3>1
    <3>3. pet[c] # None => x # pet[c]
      BY <1>1, <2>1, NowTypes, CompanyAssumption
    <3>4. QED
      BY <1>1, <2>1, <2>2, <2>4, <3>2, <3>3
  <2>5. QED
    BY <2>3, <2>4
<1>7. RideOK(now, at')
  BY Now, NowTypes, <1>1 DEF Good, RideOK
<1>8. Good(now, at', kind')
  BY Now, <1>1, <1>2, <1>3, <1>4, <1>5, <1>6, <1>7 DEF Good
<1>9. QED
  BY <1>1, <1>8, Becoming

\* At the prompt nobody in the world points to the slot, which can be freed.
LEMMA PromptGone ==
  ASSUME NEW s, NEW a, NEW k, Good(s, a, k), NEW c \in Chars, a[c] = "prompt"
  PROVE  Good(Fresh(s, c), [a EXCEPT ![c] = "out"], k)
<1>1. \A x \in Chars : s.pet[x] # c /\ s.riding[x] # c
  BY NoneFacts, CompanyAssumption DEF Good, PetOK, RideOK
<1>2. PICK t : t = Fresh(s, c)
  OBVIOUS
<1>3. /\ Good(t, a, k)
      /\ \A x \in Chars : /\ t.master[x] = IF x = c THEN None ELSE s.master[x]
                          /\ t.leader[x] = IF x = c THEN None ELSE s.leader[x]
                          /\ t.pet[x] = IF x = c THEN None ELSE s.pet[x]
                          /\ t.riding[x] = IF x = c THEN None ELSE s.riding[x]
      /\ t.passenger[c] = None /\ t.charm[c] = "no"
  BY <1>1, <1>2, FreshGood
<1>4. Blank(t, c)
  BY <1>3 DEF Blank
<1>5. \A x \in Chars : a[x] = "here" => t.master[x] # c /\ t.leader[x] # c
  BY <1>3, NoneFacts DEF Good, HereOK
<1>6. \A x \in Chars : t.pet[x] # c /\ t.riding[x] # c
  BY <1>1, <1>3, NoneFacts
<1>7. Good(t, [a EXCEPT ![c] = "out"], k)
  BY <1>3, <1>4, <1>5, <1>6, GoneGood
<1>8. QED
  BY <1>2, <1>7

LEMMA RefuseStep ==
  ASSUME IInv, NEW c \in Players, Refuse(c) \/ HangUp(c)
  PROVE  IInv'
<1>0. c \in Chars /\ at[c] = "prompt" /\ kind' = kind /\ TeamsOK'
  BY Now, NoneFacts DEF Refuse, HangUp, TeamsOK
<1>1. CASE HangUp(c)
  <2>1. Good(Fresh(now, c), at', kind')
    BY Now, <1>0, <1>1, PromptGone DEF HangUp
  <2>2. QED
    BY <1>0, <1>1, <2>1, Becoming DEF HangUp
<1>2. CASE Refuse(c)
  <2>1. PICK b : b = Petless(now, at, c)
    OBVIOUS
  <2>2. PICK s : s = Nuke(now, c)
    OBVIOUS
  <2>3. Good(s, b, kind) /\ b[c] = "prompt"
    BY Now, <1>0, <2>1, <2>2, NukeGood, PetlessPlayer
  <2>4. Good(Fresh(s, c), [b EXCEPT ![c] = "out"], kind)
    BY <1>0, <2>3, PromptGone
  <2>5. at' = [b EXCEPT ![c] = "out"] /\ Becomes(Fresh(s, c))
    BY <1>0, <1>2, <2>1, <2>2, WithoutPetForm DEF Refuse
  <2>6. QED
    BY <1>0, <2>4, <2>5, Becoming
<1>3. QED
  BY <1>1, <1>2

LEMMA DieStep ==
  ASSUME IInv, NEW c \in Players, Die(c)
  PROVE  IInv'
<1>0. c \in Chars /\ at[c] = "here" /\ kind' = kind /\ TeamsOK'
  BY Now, NoneFacts DEF Die, Here, TeamsOK
<1>1. PICK b : b = Petless(now, at, c)
  OBVIOUS
<1>2. PICK s : s = Nuke(now, c)
  OBVIOUS
<1>3. Good(s, b, kind) /\ b[c] = "here"
  BY Now, <1>0, <1>1, <1>2, NukeGood, PetlessPlayer
<1>4. PICK t : t = ClearMount(s, c)
  OBVIOUS
<1>5. Good(t, b, kind)
  BY <1>0, <1>3, <1>4, ClearMountGood
<1>6. Good([t EXCEPT !.charm[c] = "no"], b, kind)
  BY <1>0, <1>3, <1>5, CharmGood
<1>7. at' = b /\ Becomes([t EXCEPT !.charm[c] = "no"])
  BY <1>0, <1>1, <1>2, <1>4, WithoutPetForm DEF Die
<1>8. QED
  BY <1>0, <1>6, <1>7, Becoming

LEMMA QuitStep ==
  ASSUME IInv, NEW c \in Players, Quit(c)
  PROVE  IInv'
<1>0. c \in Chars /\ kind' = kind /\ TeamsOK'
  BY Now, NoneFacts DEF Quit, TeamsOK
<1>1. PICK b : b = Petless(now, at, c)
  OBVIOUS
<1>2. PICK s : s = Nuke(now, c)
  OBVIOUS
<1>3. Good(s, b, kind)
  BY Now, <1>0, <1>1, <1>2, NukeGood
<1>4. Good(Vanish(s, c), [b EXCEPT ![c] = "out"], kind)
  BY <1>0, <1>3, VanishGood
<1>5. at' = [b EXCEPT ![c] = "out"] /\ Becomes(Vanish(s, c))
  BY <1>0, <1>1, <1>2, WithoutPetForm DEF Quit, Vanish
<1>6. QED
  BY <1>0, <1>4, <1>5, Becoming

LEMMA JoinStep ==
  ASSUME IInv, NEW c \in Players, NEW t \in Teams \cup {"none"}, Join(c, t)
  PROVE  IInv'
<1>1. /\ c \in Chars /\ at' = at /\ kind' = kind /\ TeamsOK'
      /\ Becomes(DieFollower(now, c))
  BY Now, NoneFacts DEF Join, TeamsOK
<1>2. Good(DieFollower(now, c), at, kind)
  BY Now, <1>1, DieFollowerGood
<1>3. QED
  BY <1>1, <1>2, Becoming

LEMMA OverStep ==
  ASSUME IInv, Over
  PROVE  IInv'
<1>1. at' = at /\ kind' = kind /\ TeamsOK' /\ Becomes(now)
  BY SameTies DEF Over, TeamsOK
<1>2. QED
  BY <1>1, Now, Becoming

\* The slot and the pet loaded point at nothing yet.
LEMMA LoadedGood ==
  ASSUME IInv, NEW c \in Players, at[c] = "out", NEW M \in SUBSET Mobs,
         \A m \in M : at[m] = "out", NEW b, NEW k,
         b = [x \in Chars |-> IF x = c THEN "prompt" ELSE IF x \in M THEN "limbo" ELSE at[x]],
         k \in [Mobs -> Kinds], \A m \in Mobs \ M : k[m] = kind[m]
  PROVE  Good(now, b, k)
<1>1. /\ c \in Chars /\ b \in Wheres
      /\ \A x \in Chars : b[x] = IF x = c THEN "prompt" ELSE IF x \in M THEN "limbo" ELSE at[x]
  BY Now, NoneFacts DEF Good, Wheres
<1>2. FreeOK(now, b)
  BY Now, <1>1 DEF Good, FreeOK
<1>3. HereOK(now, b)
  BY Now, NowTypes, <1>1 DEF Good, HereOK
<1>4. LeadOK(now, b)
  BY Now, <1>1, NoneFacts DEF Good, LeadOK, FreeOK
<1>5. PetOK(now, b, k)
  <2> SUFFICES ASSUME NEW x \in Chars, pet[x] # None
               PROVE  /\ x \in Players
                      /\ master[pet[x]] = x
                      /\ k[pet[x]] # "undead"
                      /\ \/ b[x] = "prompt" /\ b[pet[x]] = "limbo"
                         \/ b[x] = "here" /\ b[pet[x]] = "here"
    BY Now DEF PetOK
  <2>1. /\ x \in Players /\ master[pet[x]] = x /\ kind[pet[x]] # "undead"
        /\ \/ at[x] = "prompt" /\ at[pet[x]] = "limbo"
           \/ at[x] = "here" /\ at[pet[x]] = "here"
    BY Now DEF Good, PetOK
  <2>2. /\ pet[x] \in Mobs /\ pet[x] \in Chars /\ pet[x] # c
        /\ pet[x] \notin M /\ x # c /\ x \notin M
    BY <2>1, NowTypes, NoneFacts, CompanyAssumption
  <2>3. QED
    BY <1>1, <2>1, <2>2
<1>6. RideOK(now, b)
  BY Now, NowTypes, <1>1 DEF Good, RideOK
<1>7. QED
  BY Now, <1>1, <1>2, <1>3, <1>4, <1>5, <1>6 DEF Good

LEMMA LoadAloneStep ==
  ASSUME IInv, NEW c \in Players, NEW k0, LoadChar(c, None, k0)
  PROVE  IInv'
<1>1. PICK ch \in {"no", "spell"} :
        /\ at' = [at EXCEPT ![c] = "prompt"]
        /\ kind' = kind
        /\ Becomes([now EXCEPT !.charm[c] = ch])
  BY DEF LoadChar
<1>2. c \in Chars /\ at[c] = "out" /\ TeamsOK' /\ at \in Wheres
  BY Now, NoneFacts DEF LoadChar, TeamsOK, Good
<1>3. at' = [x \in Chars |-> IF x = c THEN "prompt" ELSE IF x \in {} THEN "limbo" ELSE at[x]]
  BY <1>1, <1>2 DEF Wheres
<1>4. kind' \in [Mobs -> Kinds]
  BY Now, <1>1 DEF Good
<1>5. Good(now, at', kind')
  <2>1. {} \in SUBSET Mobs /\ (\A m \in {} : at[m] = "out")
    OBVIOUS
  <2>2. \A m \in Mobs \ {} : kind'[m] = kind[m]
    BY <1>1
  <2>3. QED
    BY <1>2, <1>3, <1>4, <2>1, <2>2, LoadedGood
<1>6. at'[c] # "out"
  BY <1>2, <1>3
<1>7. Good([now EXCEPT !.charm[c] = ch], at', kind')
  BY <1>2, <1>5, <1>6, CharmGood
<1>8. QED
  BY <1>1, <1>2, <1>7, Becoming

\* The pet in limbo already follows and is led by its owner.
LEMMA LoadPetStep ==
  ASSUME IInv, NEW c \in Players, NEW m \in Mobs, NEW k0 \in Kinds, LoadChar(c, m, k0)
  PROVE  IInv'
<1>0. m # None /\ c \in Chars /\ m \in Chars /\ c # m
  BY NoneFacts, CompanyAssumption
<1>1. PICK ch \in {"no", "spell"} :
        /\ at[m] = "out" /\ k0 \in {"pet", "steed"}
        /\ at' = [at EXCEPT ![c] = "prompt", ![m] = "limbo"]
        /\ kind' = [kind EXCEPT ![m] = k0]
        /\ Becomes([now EXCEPT !.charm[c] = ch, !.charm[m] = "bit", !.pet[c] = m,
                               !.master[m] = c, !.leader[m] = c])
  BY <1>0 DEF LoadChar
<1>2. at[c] = "out" /\ TeamsOK' /\ at \in Wheres /\ kind \in [Mobs -> Kinds]
  BY Now DEF LoadChar, TeamsOK, Good
<1>3. /\ at' = [x \in Chars |-> IF x = c THEN "prompt" ELSE IF x \in {m} THEN "limbo" ELSE at[x]]
      /\ kind' \in [Mobs -> Kinds] /\ kind'[m] = k0
      /\ \A x \in Mobs \ {m} : kind'[x] = kind[x]
  BY <1>0, <1>1, <1>2 DEF Wheres
<1>4. Good(now, at', kind')
  <2>1. {m} \in SUBSET Mobs /\ (\A x \in {m} : at[x] = "out")
    BY <1>1
  <2>2. QED
    BY <1>2, <1>3, <2>1, LoadedGood
<1>5. at'[c] = "prompt" /\ at'[m] = "limbo"
  BY <1>0, <1>3
<1>6. PICK t \in Ties :
        /\ Becomes(t) /\ t.riding = riding /\ t.passenger = passenger
        /\ \A x \in Chars : t.master[x] = IF x = m THEN c ELSE master[x]
        /\ \A x \in Chars : t.leader[x] = IF x = m THEN c ELSE leader[x]
        /\ \A x \in Chars : t.pet[x] = IF x = c THEN m ELSE pet[x]
        /\ \A x \in Chars : t.charm[x] =
             IF x = m THEN "bit" ELSE IF x = c THEN ch ELSE charm[x]
  <2> DEFINE t == [master |-> master', leader |-> leader', pet |-> pet',
                   charm |-> charm', riding |-> riding, passenger |-> passenger]
  <2>1. /\ master' = [master EXCEPT ![m] = c]
        /\ leader' = [leader EXCEPT ![m] = c]
        /\ pet' = [pet EXCEPT ![c] = m]
        /\ charm' = [[charm EXCEPT ![c] = ch] EXCEPT ![m] = "bit"]
        /\ riding' = riding /\ passenger' = passenger
    BY <1>1 DEF Becomes, now
  <2>2. t \in Ties
    BY <1>0, NowTypes, <2>1 DEF Ties
  <2>3. Becomes(t)
    BY <2>1 DEF Becomes
  <2>4. QED
    BY <1>0, NowTypes, <2>1, <2>2, <2>3
<1>7. FreeOK(t, at')
  BY Now, <1>0, <1>4, <1>5, <1>6 DEF Good, FreeOK
<1>8. HereOK(t, at')
  BY Now, <1>4, <1>5, <1>6 DEF Good, HereOK
<1>9. LeadOK(t, at')
  BY Now, <1>4, <1>6 DEF Good, LeadOK
<1>10. PetOK(t, at', kind')
  <2> SUFFICES ASSUME NEW x \in Chars, t.pet[x] # None
               PROVE  /\ x \in Players
                      /\ t.master[t.pet[x]] = x
                      /\ kind'[t.pet[x]] # "undead"
                      /\ \/ at'[x] = "prompt" /\ at'[t.pet[x]] = "limbo"
                         \/ at'[x] = "here" /\ at'[t.pet[x]] = "here"
    BY DEF PetOK
  <2>1. CASE x = c
    BY <1>0, <1>1, <1>3, <1>5, <1>6, <2>1
  <2>2. CASE x # c
    <3>1. t.pet[x] = pet[x] /\ pet[x] \in Chars
      BY <1>6, <2>2, NowTypes, NoneFacts
    <3>2. master[m] = None
      BY Now, <1>0, <1>1 DEF Good, FreeOK
    <3>3. pet[x] # m
      BY Now, <3>1, <3>2, NoneFacts DEF Good, PetOK
    <3>4. QED
      BY Now, <1>4, <1>6, <3>1, <3>3 DEF Good, PetOK
  <2>3. QED
    BY <2>1, <2>2
<1>11. RideOK(t, at')
  BY Now, <1>4, <1>6 DEF Good, RideOK
<1>12. Good(t, at', kind')
  BY <1>4, <1>6, <1>7, <1>8, <1>9, <1>10, <1>11 DEF Good
<1>13. QED
  BY <1>2, <1>6, <1>12, Becoming

LEMMA SessionStep ==
  ASSUME IInv, NEW c \in Players, Session(c)
  PROVE  IInv'
<1>1. CASE EnterGame(c)
  BY <1>1, EnterStep
<1>2. CASE Refuse(c) \/ HangUp(c)
  BY <1>2, RefuseStep
<1>3. CASE Die(c)
  BY <1>3, DieStep
<1>4. CASE Quit(c)
  BY <1>4, QuitStep
<1>5. ASSUME NEW m \in Mobs \cup {None}, NEW k0 \in Kinds, LoadChar(c, m, k0) PROVE IInv'
  BY <1>5, LoadAloneStep, LoadPetStep
<1>6. ASSUME NEW t \in Teams \cup {"none"}, Join(c, t) PROVE IInv'
  BY <1>6, JoinStep
<1>7. QED
  BY <1>1, <1>2, <1>3, <1>4, <1>5, <1>6 DEF Session

-----------------------------------------------------------------------------
LEMMA Initially ==
  ASSUME Init
  PROVE  IInv
<1>1. at \in Wheres /\ kind \in [Mobs -> Kinds] /\ team \in [Players -> Teams \cup {"none"}]
  BY DEF Init, Wheres, Kinds
<1>2. now \in Ties
  BY DEF Init, now, Ties
<1>3. \A c \in Chars : /\ now.master[c] = None /\ now.leader[c] = None
                       /\ now.pet[c] = None /\ now.charm[c] = "no"
                       /\ now.riding[c] = None /\ now.passenger[c] = None
  BY DEF Init, now
<1>4. Good(now, at, kind)
  BY <1>1, <1>2, <1>3 DEF Good, FreeOK, HereOK, LeadOK, PetOK, RideOK
<1>5. QED
  BY <1>1, <1>4 DEF IInv

LEMMA Stutter ==
  ASSUME IInv, UNCHANGED vars
  PROVE  IInv'
<1>1. at' = at /\ kind' = kind /\ TeamsOK' /\ Becomes(now)
  BY Now, SameTies DEF vars, TeamsOK
<1>2. QED
  BY <1>1, Now, Becoming

LEMMA Inductive ==
  ASSUME IInv, [Next]_vars
  PROVE  IInv'
<1>1. ASSUME NEW c \in Chars, Command(c) \/ Magic(c) PROVE IInv'
  BY <1>1, CommandStep, MagicStep
<1>2. ASSUME NEW m \in Mobs, Mobile(m) PROVE IInv'
  BY <1>2, MobileStep
<1>3. ASSUME NEW c \in Players, Session(c) PROVE IInv'
  BY <1>3, SessionStep
<1>4. QED
  BY <1>1, <1>2, <1>3, OverStep, Stutter DEF Next

\* Whatever is done, and in whatever order, the company is good: no pointer to
\* a slot given back, no leader but the master, no pet but one's own, and no
\* rider of one that carries another.
THEOREM Invariance == Spec => []IInv
<1>1. Init => IInv
  BY Initially
<1>2. IInv /\ [Next]_vars => IInv'
  BY Inductive
<1>3. QED
  BY <1>1, <1>2, PTL DEF Spec

\* The variables keep their types: a mobile has no pet (do_buy, fread_pet and
\* spell_call_mount give one to players only).
THEOREM TypeCorrect == Spec => []TypeOK
<1>1. IInv => TypeOK
  <2> SUFFICES ASSUME IInv PROVE TypeOK
    OBVIOUS
  <2>1. \A m \in Mobs : pet[m] = None
    BY Now, NoneFacts, CompanyAssumption DEF Good, PetOK
  <2>2. QED
    BY Now, NowTypes, <2>1 DEF TypeOK, TeamsOK, Good, Wheres
<1>2. QED
  BY <1>1, Invariance, PTL

\* Extracting, quitting and dying leave nobody in the world following or led
\* by a slot that is given back (die_follower, extract_char).
THEOREM CompanyStaysHere == Spec => []CompanyHere
<1>1. IInv => CompanyHere
  BY Now, NowTypes DEF CompanyHere, Here, Good, HereOK
<1>2. QED
  BY <1>1, Invariance, PTL

\* Who is led, follows the leader (do_group, add_follower, stop_follower),
\* unless add_follower may refuse it.
THEOREM LeadersAreMasters == Spec => []LeaderIsMaster
<1>1. IInv => LeaderIsMaster
  BY Now DEF LeaderIsMaster, Good, LeadOK
<1>2. QED
  BY <1>1, Invariance, PTL

\* nuke_pets extracts one's own pet, never another's, and never one that is
\* gone already (stop_follower, spell_betray, do_buy).
THEOREM PetsAreOwn == Spec => []PetIsOwn
<1>1. IInv => PetIsOwn
  BY Now DEF PetIsOwn, Good, PetOK
<1>2. QED
  BY <1>1, Invariance, PTL

\* Rider and mount agree, and the mount is in the world (clear_mount).
THEOREM RidersAreCarried == Spec => []RidersCarried
<1>1. IInv => RidersCarried
  BY Now, NowTypes DEF RidersCarried, Here, Good, RideOK
<1>2. QED
  BY <1>1, Invariance, PTL
=============================================================================
