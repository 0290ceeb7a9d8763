------------------------------- MODULE Company -------------------------------
(***************************************************************************)
(* Who follows, leads, owns, charms and rides whom.                        *)
(*                                                                         *)
(* A character is a slot of memory, taken and given back; its pointers are *)
(* ch->master, leader, pet, riding and passenger.  charm is AFF_CHARM: an  *)
(* affect of a spell, which wears off, or the bare bit of a creature made  *)
(* by one.  Anybody may meet anybody: rooms are left out, and with them    *)
(* positions, levels, clans, immortals, and players that may be ridden.    *)
(***************************************************************************)
EXTENDS FiniteSets

CONSTANTS
  Players, Mobs,
  Wild, Tame, Steeds, Undead,   \* what the mobiles may be made as
  Bound,   \* those add_follower may refuse: wound transfer
  Teams,   \* pcdata->gladiator_team
  None

Chars == Players \cup Mobs
Kinds == {"wild", "pet", "steed", "undead"}

ASSUME CompanyAssumption ==
  /\ Players \cap Mobs = {}
  /\ None \notin Chars
  /\ Wild \cup Tame \cup Steeds \cup Undead \subseteq Mobs
  /\ Bound \subseteq Chars
  /\ "none" \notin Teams

VARIABLES
  at,        \* "out"; "prompt", loaded but not in the world, or "limbo", for
             \* its pet, which is on char_list but nowhere; "here"
  kind,      \* of a mobile: ACT_PET, a warhorse, ACT_UNDEAD or an elemental
  master, leader, pet, charm,
  riding, passenger,
  team       \* of a gladiator in a combat of teams

ties == <<master, leader, pet, charm, riding, passenger>>
vars == <<at, kind, team, ties>>

Init ==
  /\ at = [c \in Chars |-> "out"]
  /\ kind = [m \in Mobs |-> "wild"]
  /\ master = [c \in Chars |-> None]
  /\ leader = [c \in Chars |-> None]
  /\ pet = [c \in Chars |-> None]
  /\ charm = [c \in Chars |-> "no"]
  /\ riding = [c \in Chars |-> None]
  /\ passenger = [c \in Chars |-> None]
  /\ team = [p \in Players |-> "none"]

Here == {c \in Chars : at[c] = "here"}

-----------------------------------------------------------------------------
(***************************************************************************)
(* Building blocks; s is a record of the pointers.                         *)
(***************************************************************************)
now == [master |-> master, leader |-> leader, pet |-> pet, charm |-> charm,
        riding |-> riding, passenger |-> passenger]

Becomes(s) ==
  /\ master' = s.master
  /\ leader' = s.leader
  /\ pet' = s.pet
  /\ charm' = s.charm
  /\ riding' = s.riding
  /\ passenger' = s.passenger

\* Mutant: the leader stays.
StopLed(s, c) ==
  IF s.master[c] = None THEN s
  ELSE [s EXCEPT !.charm[c] = "no", !.master[c] = None,
                 !.pet[s.master[c]] = IF @ = c THEN None ELSE @]

\* Mutant: the master's pet is not cleared.
StopOnly(s, c) ==
  [s EXCEPT !.charm[c] = "no", !.master[c] = None, !.leader[c] = None]

\* stop_follower; of one who follows nobody it only reports a bug.
Stop(s, c) ==
  IF s.master[c] = None THEN s
  ELSE [s EXCEPT !.charm[c] = "no", !.master[c] = None, !.leader[c] = None,
                 !.pet[s.master[c]] = IF @ = c THEN None ELSE @]

\* add_follower of c to m; of one who follows somebody it only reports a bug.
Add(s, c, m) ==
  IF s.master[c] # None THEN s
  ELSE [s EXCEPT !.master[c] = m, !.leader[c] = None]

\* What add_follower may come to.
Added(s, c, m) == {Add(s, c, m)} \cup IF c \in Bound THEN {s} ELSE {}

Followers(s, c) == {f \in Chars : s.master[f] = c}

\* Mutant: those in the group who do not follow are forgotten.
DieFollowerOnly(s, c) ==
  LET t == [Stop(s, c) EXCEPT !.leader[c] = None]
      F == Followers(t, c)
  IN  [t EXCEPT !.charm = [x \in Chars |-> IF x \in F THEN "no" ELSE @[x]],
                !.master = [x \in Chars |-> IF x \in F THEN None ELSE @[x]],
                !.leader = [x \in Chars |-> IF x \in F THEN None ELSE @[x]],
                !.pet[c] = IF @ \in F THEN None ELSE @]

\* die_follower: c follows nobody and nobody c; who was led by c without
\* following (Charm) leads itself.
DieFollower(s, c) ==
  LET t == [Stop(s, c) EXCEPT !.leader[c] = None]
      F == Followers(t, c)
  IN  [t EXCEPT !.charm = [x \in Chars |-> IF x \in F THEN "no" ELSE @[x]],
                !.master = [x \in Chars |-> IF x \in F THEN None ELSE @[x]],
                !.leader = [x \in Chars |-> IF x \in F THEN None
                                            ELSE IF @[x] = c THEN x ELSE @[x]],
                !.pet[c] = IF @ \in F THEN None ELSE @]

\* Mutant: the mount is left, the passenger is not.
ClearRiding(s, c) ==
  LET r == s.riding[c]
  IN  IF r = None THEN s ELSE [s EXCEPT !.passenger[r] = None, !.riding[c] = None]

\* clear_mount
ClearMount(s, c) ==
  LET t == IF s.riding[c] = None THEN s
           ELSE [s EXCEPT !.passenger[s.riding[c]] = None, !.riding[c] = None]
  IN  IF t.passenger[c] = None THEN t
      ELSE [t EXCEPT !.riding[t.passenger[c]] = None, !.passenger[c] = None]

\* The slot of c as new_char makes it.
Fresh(s, c) ==
  [s EXCEPT !.master[c] = None, !.leader[c] = None, !.pet[c] = None,
            !.charm[c] = "no", !.riding[c] = None, !.passenger[c] = None]

\* extract_char of a mobile
Vanish(s, m) == Fresh(ClearMount(DieFollower(s, m), m), m)

\* nuke_pets
Nuke(s, c) ==
  LET m == s.pet[c]
  IN  IF m = None THEN s ELSE [Vanish(Stop(s, m), m) EXCEPT !.pet[c] = None]

WithoutPet(c) ==
  [x \in Chars |-> IF pet[c] # None /\ x = pet[c] THEN "out" ELSE at[x]]

\* is_same_group
Root(c) == IF leader[c] = None THEN c ELSE leader[c]

SameGroup(a, b) ==
  \/ a \in Players /\ b \in Players /\ team[a] # "none" /\ team[a] = team[b]
  \/ Root(a) = Root(b)

\* SameGroup of what c follows and b
MasterInGroup(c, b) == master[c] # None /\ SameGroup(master[c], b)

-----------------------------------------------------------------------------
(***************************************************************************)
(* Commands and spells.                                                    *)
(***************************************************************************)
\* do_follow of oneself
Unfollow(c) ==
  /\ c \in Here
  /\ master[c] # None /\ charm[c] = "no"
  /\ Becomes(Stop(now, c))
  /\ UNCHANGED <<at, kind, team>>

\* do_follow
Follow(c, v) ==
  /\ c \in Here /\ v \in Here \ {c}
  /\ charm[c] = "no" \/ master[c] = None
  /\ \E s \in Added(Stop(now, c), c, v) : Becomes(s)
  /\ UNCHANGED <<at, kind, team>>

\* do_group: in, or out.
Group(c, v) ==
  /\ c \in Here /\ v \in Here
  /\ master[c] = None /\ leader[c] \in {None, c}
  /\ master[v] = c \/ v = c
  /\ charm[v] = "no"
  /\ c \in Players => team[c] = "none"
  /\ leader' = [leader EXCEPT ![v] = IF v # c /\ SameGroup(v, c) THEN None ELSE c]
  /\ UNCHANGED <<at, kind, team, master, pet, charm, riding, passenger>>

\* do_nofollow
NoFollow(c) ==
  /\ c \in Here \cap Players
  /\ LET s == IF riding[c] = None THEN now
              ELSE [now EXCEPT !.riding[c] = None, !.passenger[riding[c]] = None]
     IN  Becomes(IF charm[c] = "no" THEN DieFollower(s, c) ELSE s)
  /\ UNCHANGED <<at, kind, team>>

\* A new mobile m, charmed by the bare bit, that c owns, or only leads.
Made(c, m, owned) ==
  LET s == [Add(now, m, c) EXCEPT !.leader[m] = c, !.charm[m] = "bit"]
  IN  IF owned THEN [s EXCEPT !.pet[c] = m] ELSE s

Sorts == [wild |-> Wild, pet |-> Tame, steed |-> Steeds, undead |-> Undead]

Comes(m, k) ==
  /\ at[m] = "out" /\ m \in Sorts[k]
  /\ at' = [at EXCEPT ![m] = "here"]
  /\ kind' = [kind EXCEPT ![m] = k]
  /\ UNCHANGED team

\* Mutant: a mobile buys a pet.
BuyPetAny(c, m) ==
  /\ c \in Here /\ pet[c] = None
  /\ Comes(m, "pet") /\ Becomes(Made(c, m, TRUE))

\* do_buy of a pet
BuyPet(c, m) ==
  /\ c \in Here \cap Players /\ pet[c] = None
  /\ Comes(m, "pet") /\ Becomes(Made(c, m, TRUE))

\* spell_call_mount: one horse in the group, and whatever other pet there is.
CallMount(c, m) ==
  /\ c \in Here \cap Players
  /\ ~ \E x \in Mobs : /\ x \in Here \/ at[x] = "limbo"
                       /\ kind[x] = "steed" /\ (SameGroup(x, c) \/ MasterInGroup(x, c))
  /\ Comes(m, "steed") /\ Becomes(Made(c, m, TRUE))

\* spell_animate_dead, spell_summon_dead, spell_summon_elemental
Raise(c, m) ==
  /\ c \in Here \cap Players /\ team[c] = "none"
  /\ Comes(m, "undead") /\ Becomes(Made(c, m, FALSE))

\* spell_charm_person, spell_charm_animal: who is charmed has a leader even
\* when add_follower refused.
Charm(c, v) ==
  /\ c \in Here /\ v \in Here \ {c}
  /\ charm[c] = "no" /\ charm[v] = "no"
  /\ c \in Players => team[c] = "none"
  /\ \E s \in Added(Stop(now, v), v, c) :
       Becomes([s EXCEPT !.leader[v] = c, !.charm[v] = "spell"])
  /\ UNCHANGED <<at, kind, team>>

\* spell_entrance: charmed, ordered about, and let go.  What the order does,
\* the victim might have done by itself.
Entrance(c, v) ==
  /\ c \in Here \cap Players /\ v \in Here \ {c}
  /\ team[c] = "none"
  /\ charm[v] = "no" /\ master[v] \in {None, c}
  /\ \E s \in Added(now, v, c) :
       Becomes([Stop(s, v) EXCEPT !.charm[v] = "no", !.master[v] = None])
  /\ UNCHANGED <<at, kind, team>>

\* spell_betray: the undead and elementals G around v now serve c.
Betray(c, v, G) ==
  /\ c \in Here \cap Players /\ v \in (Here \cap Players) \ {c}
  /\ G # {}
  /\ \A g \in G : /\ g \in Here \cap Mobs /\ kind[g] = "undead"
                  /\ SameGroup(v, g) \/ MasterInGroup(v, g)
  /\ master' = [x \in Chars |-> IF x \in G THEN c ELSE master[x]]
  /\ leader' = [x \in Chars |-> IF x \in G THEN None ELSE leader[x]]
  /\ charm' = [x \in Chars |-> IF x \in G THEN "bit" ELSE charm[x]]
  /\ pet' = [x \in Chars |-> IF \E g \in G : pet[x] = g THEN None ELSE pet[x]]
  /\ UNCHANGED <<at, kind, team, riding, passenger>>

\* spell_turn_undead, resisted by one's own.
Turn(c, m) ==
  /\ c \in Here /\ m \in Here \cap Mobs /\ kind[m] = "undead"
  /\ leader[m] = c
  /\ Becomes([now EXCEPT !.charm[m] = "no", !.leader[m] = None, !.master[m] = None])
  /\ UNCHANGED <<at, kind, team>>

\* spec_vhan takes the undead in the room.
Vhan(m, g) ==
  /\ m \in Here \cap Mobs /\ kind[m] = "wild"
  /\ g \in (Here \cap Mobs) \ {m} /\ kind[g] = "undead"
  /\ ~SameGroup(g, m)
  /\ Becomes([Add(Stop(now, g), g, m) EXCEPT !.leader[g] = m, !.charm[g] = "bit"])
  /\ UNCHANGED <<at, kind, team>>

\* spec_salesman finds a victim, or has nothing left to sell.
Salesman(m, v) ==
  /\ m \in Here \cap Mobs /\ kind[m] = "wild" /\ v \in Here \cap Players
  /\ \/ Becomes(Add(Stop(now, m), m, v))
     \/ master[m] = v /\ Becomes(Stop(now, m))
  /\ UNCHANGED <<at, kind, team>>

\* damage: c attacks v, who follows c, or is a charmed player (check_killer).
Attack(c, v) ==
  /\ c \in Here /\ v \in Here \ {c}
  /\ master[v] = c \/ (v \in Players /\ charm[v] # "no")
  /\ Becomes(Stop(now, v))
  /\ UNCHANGED <<at, kind, team>>

\* char_update: the affect wears off.
WearOff(c) ==
  /\ c \in Here /\ charm[c] = "spell"
  /\ Becomes([now EXCEPT !.charm[c] = "no"])
  /\ UNCHANGED <<at, kind, team>>

\* char_update: a mobile that is neither charmed nor a pet goes its way.
Stray(m) ==
  /\ m \in Here \cap Mobs
  /\ charm[m] = "no" /\ kind[m] # "pet" /\ master[m] # None
  /\ Becomes(DieFollower(now, m))
  /\ UNCHANGED <<at, kind, team>>

\* do_mount does not look at what c rides already.
Mount(c, m) ==
  /\ c \in Here /\ m \in Here \cap Mobs
  /\ kind[m] = "steed" /\ master[m] = c
  /\ passenger[m] = None /\ riding[m] = None
  /\ Becomes([now EXCEPT !.riding[c] = m, !.passenger[m] = c])
  /\ UNCHANGED <<at, kind, team>>

\* do_dismount
Dismount(c) ==
  /\ c \in Here /\ riding[c] # None
  /\ Becomes([now EXCEPT !.riding[c] = None, !.passenger[riding[c]] = None])
  /\ UNCHANGED <<at, kind, team>>

\* do_transfer, do_goto, recall: clear_mount of who is moved.
Transfer(c) ==
  /\ c \in Here /\ (riding[c] # None \/ passenger[c] # None)
  /\ Becomes(ClearMount(now, c))
  /\ UNCHANGED <<at, kind, team>>

\* do_joingladiator of a team event, and becoming a Highlander (no team).
Join(c, t) ==
  /\ c \in Here \cap Players /\ team[c] = "none"
  /\ Becomes(DieFollower(now, c))
  /\ team' = [team EXCEPT ![c] = t]
  /\ UNCHANGED <<at, kind>>

\* The event is over.
Over ==
  /\ \E c \in Players : team[c] # "none"
  /\ team' = [c \in Players |-> "none"]
  /\ UNCHANGED <<at, kind, ties>>

-----------------------------------------------------------------------------
(***************************************************************************)
(* Coming, dying and going.                                                *)
(***************************************************************************)
\* load_char_obj at the name prompt; fread_pet makes the pet, if there is one,
\* by create_mobile, which puts it on char_list.
LoadChar(c, m, k) ==
  /\ c \in Players /\ at[c] = "out"
  /\ \E ch \in {"no", "spell"} :
       IF m = None
       THEN /\ at' = [at EXCEPT ![c] = "prompt"]
            /\ kind' = kind
            /\ Becomes([now EXCEPT !.charm[c] = ch])
       ELSE /\ at[m] = "out" /\ k \in {"pet", "steed"} /\ m \in Sorts[k]
            /\ at' = [at EXCEPT ![c] = "prompt", ![m] = "limbo"]
            /\ kind' = [kind EXCEPT ![m] = k]
            /\ Becomes([now EXCEPT !.charm[c] = ch, !.charm[m] = "bit", !.pet[c] = m,
                                   !.master[m] = c, !.leader[m] = c])
  /\ UNCHANGED team

\* CON_READ_MOTD: the pet comes too.
EnterGame(c) ==
  /\ c \in Players /\ at[c] = "prompt"
  /\ at' = [x \in Chars |-> IF x = c \/ (pet[c] # None /\ x = pet[c]) THEN "here" ELSE at[x]]
  /\ UNCHANGED <<kind, team, ties>>

\* A wrong password, or a body to take over: the pet loaded is extracted and
\* the character freed.
Refuse(c) ==
  /\ c \in Players /\ at[c] = "prompt"
  /\ Becomes(Fresh(Nuke(now, c), c))
  /\ at' = [WithoutPet(c) EXCEPT ![c] = "out"]
  /\ UNCHANGED <<kind, team>>

\* close_socket at a prompt frees the character and not the pet, which stays
\* on char_list, nowhere, and follows the slot.
HangUp(c) ==
  /\ c \in Players /\ at[c] = "prompt"
  /\ Becomes(Fresh(now, c))
  /\ at' = [at EXCEPT ![c] = "out"]
  /\ UNCHANGED <<kind, team>>

\* create_mobile by a reset
Spawn(m) ==
  /\ m \in Mobs
  /\ Comes(m, "wild")
  /\ UNCHANGED ties

\* raw_kill of a player: pets and mounts go, spells end, company stays.
\* (Those who share the wounds die too: a Die or Slain of each.)
Die(c) ==
  /\ c \in Here \cap Players
  /\ Becomes([ClearMount(Nuke(now, c), c) EXCEPT !.charm[c] = "no"])
  /\ at' = WithoutPet(c)
  /\ UNCHANGED <<kind, team>>

\* extract_char of a mobile: killed, purged, crumbled, or its time is up.
Slain(m) ==
  /\ m \in Here \cap Mobs
  /\ Becomes(Vanish(now, m))
  /\ at' = [at EXCEPT ![m] = "out"]
  /\ kind' = [kind EXCEPT ![m] = "wild"]
  /\ UNCHANGED team

\* do_quit and every other extract_char of a player
Quit(c) ==
  /\ c \in Here \cap Players
  /\ Becomes(Fresh(ClearMount(DieFollower(Nuke(now, c), c), c), c))
  /\ at' = [WithoutPet(c) EXCEPT ![c] = "out"]
  /\ team' = [team EXCEPT ![c] = "none"]
  /\ UNCHANGED kind

-----------------------------------------------------------------------------
Command(c) ==
  \/ Unfollow(c) \/ NoFollow(c) \/ Dismount(c) \/ Transfer(c) \/ WearOff(c)
  \/ \E v \in Chars : Follow(c, v) \/ Group(c, v) \/ Attack(c, v)
  \/ \E m \in Mobs : Mount(c, m)

Magic(c) ==
  \/ \E v \in Chars : Charm(c, v) \/ Entrance(c, v)
  \/ \E v \in Players, G \in SUBSET Mobs : Betray(c, v, G)
  \/ \E m \in Mobs : BuyPet(c, m) \/ CallMount(c, m) \/ Raise(c, m) \/ Turn(c, m)

Mobile(m) ==
  \/ Spawn(m) \/ Slain(m) \/ Stray(m)
  \/ \E v \in Players : Salesman(m, v)
  \/ \E g \in Mobs : Vhan(m, g)

Session(c) ==
  \/ EnterGame(c) \/ Refuse(c) \/ HangUp(c) \/ Die(c) \/ Quit(c)
  \/ \E m \in Mobs \cup {None}, k \in Kinds : LoadChar(c, m, k)
  \/ \E t \in Teams \cup {"none"} : Join(c, t)

Next ==
  \/ \E c \in Chars : Command(c) \/ Magic(c)
  \/ \E m \in Mobs : Mobile(m)
  \/ \E c \in Players : Session(c)
  \/ Over

Spec == Init /\ [][Next]_vars

-----------------------------------------------------------------------------
TypeOK ==
  /\ at \in [Chars -> {"out", "prompt", "limbo", "here"}]
  /\ kind \in [Mobs -> Kinds]
  /\ master \in [Chars -> Chars \cup {None}]
  /\ leader \in [Chars -> Chars \cup {None}]
  /\ pet \in [Chars -> Mobs \cup {None}]
  /\ \A m \in Mobs : pet[m] = None
  /\ charm \in [Chars -> {"no", "spell", "bit"}]
  /\ riding \in [Chars -> Chars \cup {None}]
  /\ passenger \in [Chars -> Chars \cup {None}]
  /\ team \in [Players -> Teams \cup {"none"}]

\* Who is in the world follows and is led by those in the world only: quitting,
\* dying and being extracted leave no pointer to a slot that is given back
\* (die_follower, and its last loop for who is led without following).
CompanyHere ==
  \A c \in Here : {master[c], leader[c]} \subseteq Here \cup {None}

\* Who is in another's group follows that one (do_group, stop_follower,
\* add_follower), unless wound transfer made add_follower refuse.
LeaderIsMaster ==
  \A c \in Chars \ Bound : leader[c] \in {None, c, master[c]}

\* A pet follows its owner and has no other, whatever charms, betrays or
\* frees it, so that extracting the owner's pet never takes somebody else's
\* (nuke_pets, stop_follower).
PetIsOwn ==
  \A c \in Chars : pet[c] # None => master[pet[c]] = c /\ at[pet[c]] # "out"

\* Who rides is the one the mount carries, and the mount is in the world:
\* extracting either never writes through a stale pointer of the rider
\* (clear_mount, do_mount, do_dismount).
RidersCarried ==
  \A c \in Chars : riding[c] # None => riding[c] \in Here /\ passenger[riding[c]] = c

=============================================================================
