------------------------------- MODULE Fight -------------------------------
(***************************************************************************)
(* Who fights whom, and where.                                             *)
(*                                                                         *)
(* Whoever fights points to one opponent, which points to whomever it      *)
(* likes.  A round (violence_update) serves everybody in turn: it strikes  *)
(* a series of blows, or breaks off when the opponent is elsewhere, and    *)
(* then those around it may join.  Any blow may end fights, move, knock    *)
(* down or free either side, and the walk goes on with what it remembers.  *)
(* Between rounds commands are executed, one at a time.                    *)
(*                                                                         *)
(* Hit points are abstracted to who has any; what decides a blow, groups,  *)
(* charms and idleness to a choice.  Sitting is left out, and so are the   *)
(* companions that follow who moves, the wounds spells share out, and what *)
(* a wall of fire does to who leaves its room (char_from_room).            *)
(***************************************************************************)
EXTENDS FiniteSets

CONSTANTS
  Players, Mobiles,
  Rooms, Hall,       \* where the dead wake up
  default_pos,       \* what each is at when no fight is on
  None

Chars == Players \cup Mobiles
Nowhere == "nowhere"     \* the slot is free: not on char_list, in no room

ASSUME FightAssumption ==
  /\ Players \cap Mobiles = {}
  /\ Hall \in Rooms /\ Nowhere \notin Rooms
  /\ None \notin Chars
  /\ default_pos \in [Chars -> {"sleeping", "resting", "standing"}]
  /\ \A p \in Players : default_pos[p] = "standing"

VARIABLES
  room, fighting, pos,
  down,     \* those whose hit points are gone
  left,     \* whom the walk of violence_update has not come to yet
  turn,     \* whom it serves
  foe,      \* the victim it remembers for check_assist
  hit       \* the series of blows in progress: multi_hit or mob_hit

vars == <<room, fighting, pos, down, left, turn, foe, hit>>
walk == <<left, turn, foe>>

Positions == {"stunned", "sleeping", "resting", "fighting", "standing"}
Stages == {"none", "first", "more", "loose"}

TypeOK ==
  /\ room \in [Chars -> Rooms \cup {Nowhere}]
  /\ fighting \in [Chars -> Chars \cup {None}]
  /\ pos \in [Chars -> Positions]
  /\ down \subseteq Players
  /\ left \subseteq Chars
  /\ {turn, foe} \subseteq Chars \cup {None}
  /\ hit \in [by : Chars \cup {None}, at : Chars \cup {None}, stage : Stages]

NoHit == [by |-> None, at |-> None, stage |-> "none"]

Init ==
  /\ room \in [Chars -> Rooms \cup {Nowhere}]
  /\ fighting = [c \in Chars |-> None]
  /\ pos = default_pos
  /\ down = {}
  /\ left = {} /\ turn = None /\ foe = None
  /\ hit = NoHit

-----------------------------------------------------------------------------
\* What one call does to the world, s: the results it may have.

now == [room |-> room, fighting |-> fighting, pos |-> pos, down |-> down]

Becomes(s) ==
  /\ room' = s.room
  /\ fighting' = s.fighting
  /\ pos' = s.pos
  /\ down' = s.down

InWorld(s) == {c \in Chars : s.room[c] # Nowhere}
Awake(s, c) == s.pos[c] \notin {"stunned", "sleeping"}

\* Where c stays once nothing else says so: update_pos after default_pos.
AtEase(s, c) == IF c \in s.down THEN "stunned" ELSE default_pos[c]

\* stop_fighting(c, FALSE)
Stop(s, c) ==
  [s EXCEPT !.fighting[c] = None, !.pos[c] = AtEase(s, c)]

\* Mutant: who has nobody left to fight stays in position.
TurnedInPlace(s, c, h) ==
  [s EXCEPT !.fighting = [f \in Chars |-> IF s.fighting[f] = c THEN h[f]
                                         ELSE s.fighting[f]]]

\* Those who fight c turn to h[f], one who fights them, or stop.
Turned(s, c, h) ==
  [s EXCEPT
    !.fighting = [f \in Chars |-> IF s.fighting[f] = c THEN h[f]
                                  ELSE s.fighting[f]],
    !.pos = [f \in Chars |-> IF s.fighting[f] = c /\ h[f] = None
                             THEN AtEase(s, f) ELSE s.pos[f]]]

\* Mutant: who is left turns to whoever fights at all.
StopAllAny(s, c) ==
  LET t == Stop(s, c)
      Lost == {f \in Chars : t.fighting[f] = c}
      Onto(f) == {o \in Chars \ {c} : t.fighting[o] # None}
  IN {Turned(t, c, h) : h \in {h \in [Lost -> Chars \cup {None}] :
        \A f \in Lost : IF Onto(f) = {} THEN h[f] = None ELSE h[f] \in Onto(f)}}

\* stop_fighting(c, TRUE)
StopAll(s, c) ==
  LET t == Stop(s, c)
      Lost == {f \in Chars : t.fighting[f] = c}
      Onto(f) == {o \in Chars \ {c} : t.fighting[o] = f}
  IN {Turned(t, c, h) : h \in {h \in [Lost -> Chars \cup {None}] :
        \A f \in Lost : IF Onto(f) = {} THEN h[f] = None ELSE h[f] \in Onto(f)}}

\* set_fighting
Face(s, c, v) == [s EXCEPT !.fighting[c] = v, !.pos[c] = "fighting"]

\* extract_char of a whole character: its slot is free.
Extract(s, c) ==
  {[t EXCEPT !.room[c] = Nowhere, !.pos[c] = default_pos[c], !.down = @ \ {c}]
     : t \in StopAll(s, c)}

\* raw_kill: a player withstands death or wakes up in the hall, asleep if it
\* was a gladiator (gladiator_kill).
Woken(t, v, r, p) == [t EXCEPT !.room[v] = r, !.pos[v] = p, !.down = @ \ {v}]

Killed(s, v) ==
  IF v \in Mobiles THEN Extract(s, v)
  ELSE UNION {{Woken(t, v, s.room[v], "standing"),
               Woken(t, v, Hall, "resting"), Woken(t, v, Hall, "sleeping")}
                : t \in StopAll(s, v)}

\* Flee, or recall: who fights nobody leaves its attackers behind.
Gone(s, v, r) ==
  IF s.fighting[v] = None THEN {[s EXCEPT !.room[v] = r]}
  ELSE {[t EXCEPT !.room[v] = r] : t \in StopAll(s, v)}

-----------------------------------------------------------------------------
\* One blow (damage), by c at v.

\* Both sides take up the fight, unless the orb of surprise of v hides it, v
\* has been idle, or the damage comes from an old wound.
Engaged(s, c, v) ==
  LET attacker == IF s.fighting[c] = None THEN Face(s, c, v) ELSE s
      Reply(t) == IF t.fighting[v] = None THEN Face(t, v, c)
                  ELSE [t EXCEPT !.pos[v] = "fighting"]
      Surprised(t) == IF t.fighting[v] = None THEN Stop(t, v)
                      ELSE [t EXCEPT !.pos[v] = "fighting"]
  IN IF s.pos[v] = "stunned" THEN {s}
     ELSE {s, attacker, Reply(attacker), Surprised(s)}

\* What becomes of v.  Hurt, who has no hit points lies stunned, and whoever is
\* not awake stops fighting.
Hurt(s, v) ==
  LET t == IF v \in s.down THEN [s EXCEPT !.pos[v] = "stunned"] ELSE s
  IN IF Awake(t, v) THEN t ELSE Stop(t, v)

\* Mutant: mobiles lie stunned like players.
EndsStunned(s, v) ==
  {s, Hurt(s, v), [s EXCEPT !.pos[v] = "stunned", !.down = @ \cup {v}]}

Ends(s, v) ==
  LET fallen == [s EXCEPT !.pos[v] = "stunned", !.down = @ \cup {v}]
  IN {s, Hurt(s, v)}
     \cup Killed(s, v)
     \cup (IF v \in Players THEN {Stop(fallen, v)} \cup StopAll(fallen, v) ELSE {})

Floored(s, v) ==
  IF v \in InWorld(s) THEN [s EXCEPT !.pos[v] = "resting"] ELSE s

\* Struck by another it may flee or, its link lost, recall, and however that
\* ends be laid on the floor.
Harmed(s, v) ==
  LET ends == Ends(s, v)
        \cup UNION {Gone(Hurt(s, v), v, r) :
               r \in {r \in Rooms \ {s.room[v]} :
                        v \in Players \/ Hurt(s, v).fighting[v] # None}}
  IN ends \cup {Floored(t, v) : t \in ends}

\* is_safe refuses, unless v fights back already; a charmed mobile then stops.
Refused(s, c, v) ==
  IF s.fighting[v] = c THEN {}
  ELSE {s} \cup (IF c \in Mobiles /\ v \in Players THEN {Stop(s, c)} ELSE {})

Struck(s, c, v) ==
  Refused(s, c, v) \cup UNION {Harmed(t, v) : t \in Engaged(s, c, v)}

\* A player that knows kailindo evades and strikes back.
Evaded(s, c, v) ==
  IF v \in Mobiles THEN {}
  ELSE UNION {IF Awake(t, v) /\ t.room[c] = t.room[v] THEN Struck(t, v, c) ELSE {}
                : t \in Engaged(s, c, v)}

\* Mutant: is_safe does not look where they are.
DamageAnywhere(s, c, v) == Struck(s, c, v) \cup Evaded(s, c, v)

Damage(s, c, v) ==
  IF {c, v} \subseteq InWorld(s) THEN Struck(s, c, v) \cup Evaded(s, c, v)
  ELSE {s}

OneHit(s, c, v) ==
  IF c = v \/ s.room[c] # s.room[v] THEN {s} ELSE Damage(s, c, v)

-----------------------------------------------------------------------------
\* A series of blows.

\* multi_hit by c at v: who cannot attack does nothing.
Series(s, c, v) ==
  IF Awake(s, c) /\ s.pos[c] # "resting"
  THEN [by |-> c, at |-> v, stage |-> "first"]
  ELSE NoHit

Facing == fighting[hit.by] = hit.at

\* After the first blow, each needs the attacker to face its victim still, but
\* for a stretch that does not look: a player's crusaders and cavaliers, a
\* mobile's area attack and haste.
Blow ==
  /\ hit.stage # "none"
  /\ hit.stage = "more" => Facing
  /\ \E s \in OneHit(now, hit.by, hit.at) :
       /\ Becomes(s)
       /\ hit' \in IF hit.stage # "loose" /\ s.fighting[hit.by] # hit.at
                   THEN {NoHit}
                   ELSE {[hit EXCEPT !.stage = g] : g \in {"more", "loose"}}
  /\ UNCHANGED walk

\* A mobile that attacks the area hits those who fight it.
AreaBlow(w) ==
  /\ hit.stage = "loose" /\ hit.by \in Mobiles
  /\ w # hit.at /\ fighting[w] = hit.by
  /\ \E s \in OneHit(now, hit.by, w) : Becomes(s)
  /\ UNCHANGED <<walk, hit>>

\* What a magic weapon or a skill adds, wherever the victim is by now; a holy
\* weapon burns its bearer, a failed skill lays the attacker on the floor.
Extra ==
  /\ hit.stage \in {"more", "loose"} /\ Facing /\ hit.by # hit.at
  /\ \E s \in Damage(now, hit.by, hit.at) \cup Ends(now, hit.by) \cup {Floored(now, hit.by)} :
       Becomes(s)
  /\ UNCHANGED <<walk, hit>>

EndHit ==
  /\ hit.stage \in {"more", "loose"}
  /\ hit' = NoHit
  /\ UNCHANGED <<room, fighting, pos, down, walk>>

-----------------------------------------------------------------------------
\* The round (violence_update).

Idle == turn = None /\ hit = NoHit
Between == Idle /\ left = {}

BeginRound ==
  /\ Between
  /\ left' = InWorld(now)
  /\ UNCHANGED <<room, fighting, pos, down, turn, foe, hit>>

\* Who fights nobody is passed over; who cannot fight on stops.
Take(c) ==
  /\ Idle /\ c \in left
  /\ left' = left \ {c}
  /\ IF c \notin InWorld(now) \/ fighting[c] = None
     THEN UNCHANGED <<room, fighting, pos, down, turn, hit>>
     ELSE IF Awake(now, c) /\ room[c] = room[fighting[c]]
     THEN /\ turn' = c
          /\ hit' = Series(now, c, fighting[c])
          /\ UNCHANGED <<room, fighting, pos, down>>
     ELSE Becomes(Stop(now, c)) /\ UNCHANGED <<turn, hit>>
  /\ UNCHANGED foe

InTurn == turn # None /\ hit = NoHit

\* check_assist begins, with the opponent of the moment.
Rally ==
  /\ InTurn /\ foe = None
  /\ turn \in InWorld(now) /\ fighting[turn] # None
  /\ foe' = fighting[turn]
  /\ UNCHANGED <<room, fighting, pos, down, left, turn, hit>>

\* h joins, against that opponent, or against anybody of its group when both
\* are mobiles; it may be gone by now.  Who does not fight in the end is asked
\* once by the code, here perhaps again.
Assist(h, t) ==
  /\ InTurn /\ foe # None
  /\ h \in InWorld(now) /\ room[h] = room[turn]
  /\ Awake(now, h) /\ fighting[h] = None
  /\ t = foe \/ ({turn, h} \subseteq Mobiles /\ t \in InWorld(now))
  /\ hit' = Series(now, h, t)
  /\ UNCHANGED <<room, fighting, pos, down, left, turn, foe>>

\* The walk goes on with ch->next.  Of who was freed that leads into char_free,
\* and the rest of the list is not served this time.
EndTurn ==
  /\ InTurn
  /\ foe # None \/ turn \notin InWorld(now) \/ fighting[turn] = None
  /\ left' = IF turn \in InWorld(now) THEN left ELSE {}
  /\ turn' = None /\ foe' = None
  /\ UNCHANGED <<room, fighting, pos, down, hit>>

-----------------------------------------------------------------------------
\* Between two rounds.

Can(c, least) ==     \* the position a command asks for (cmd_table)
  /\ Between /\ c \in InWorld(now)
  /\ pos[c] \in least
Up == {"fighting", "standing"}
Here(c, v) == v \in InWorld(now) /\ room[c] = room[v]
Still == UNCHANGED <<walk, hit>>

\* kill, murder, attack; a mobile's own will.  Who fights may turn to another
\* (attack), who merely stands may have an opponent already.
Kill(c, v) ==
  /\ Can(c, Up) /\ Here(c, v) /\ v # c
  /\ hit' = Series(now, c, v)
  /\ IF pos[c] = "fighting"
     THEN fighting[c] \notin {None, v} /\ fighting' = [fighting EXCEPT ![c] = v]
     ELSE UNCHANGED fighting
  /\ UNCHANGED <<room, pos, down, walk>>

\* An offensive spell: unless it is in a fight by now, its victim strikes back.
Cast(c, v) ==
  /\ Can(c, Up) /\ Here(c, v) /\ v # c
  /\ \E s \in {now} \cup Damage(now, c, v) :
       /\ Becomes(s)
       /\ hit' = IF {c, v} \subseteq InWorld(s) /\ s.room[c] = s.room[v] /\ s.fighting[v] = None
                 THEN Series(s, v, c) ELSE NoHit
  /\ UNCHANGED walk

\* Poison, bleeding, hunger.
Waste(v) ==
  /\ Can(v, Positions)
  /\ \E s \in Ends(now, v) : Becomes(s)
  /\ Still

\* sleep, garotte: the victim is still in its fight.
SpellSleep(v) ==
  /\ Can(v, {"resting", "fighting", "standing"})
  /\ pos' = [pos EXCEPT ![v] = "sleeping"]
  /\ UNCHANGED <<room, fighting, down>> /\ Still

Heal(v) ==
  /\ Can(v, Positions) /\ v \in down
  /\ down' = down \ {v}
  /\ pos' = [pos EXCEPT ![v] = IF @ = "stunned" THEN "standing" ELSE @]
  /\ UNCHANGED <<room, fighting>> /\ Still

\* stand, rest, sleep: nothing looks at the opponent, only at the position.
Settle(c, p) ==
  /\ Can(c, {"sleeping", "resting", "standing"})
  /\ p \in {"sleeping", "resting", "standing"} \ {pos[c]}
  /\ pos' = [pos EXCEPT ![c] = p]
  /\ UNCHANGED <<room, fighting, down>> /\ Still

Walk(c, r) ==
  /\ Can(c, {"standing"}) /\ r \in Rooms \ {room[c]}
  /\ room' = [room EXCEPT ![c] = r]
  /\ UNCHANGED <<fighting, pos, down>> /\ Still

Flee(c, r) ==
  /\ Can(c, Up) /\ fighting[c] # None /\ r \in Rooms \ {room[c]}
  /\ \E s \in Gone(now, c, r) : Becomes(s)
  /\ Still

\* recall, goto, transfer, the void, word of recall: to any room, even the same.
Leave(c, r) ==
  /\ Can(c, Positions) /\ r \in Rooms
  /\ \E s \in Gone(now, c, r) : Becomes(s)
  /\ Still

\* Teleport and portals: those who fight c are not told.
Vanish(c, r) ==
  /\ Can(c, Positions) /\ r \in Rooms
  /\ Becomes([IF fighting[c] = None THEN now ELSE Stop(now, c) EXCEPT !.room[c] = r])
  /\ Still

Rescue(c, v) ==
  LET f == fighting[v]
      freed == Stop(Stop(Stop(now, f), v), c)
  IN /\ Can(c, Up) /\ Here(c, v)
     /\ v # c /\ f \notin {c, None} /\ fighting[c] # v
     /\ Becomes(Face(Face(freed, c, f), f, c))
     /\ Still

SmokeScreen(c) ==
  /\ Can(c, Up) /\ fighting[c] # None
  /\ Becomes(Stop(Stop(now, fighting[c]), c))
  /\ Still

\* A mirror image m takes over the fight of c.
MirrorImage(c, m) ==
  LET f == fighting[c]
      born == [Stop(Stop(now, f), c) EXCEPT !.room[m] = room[c]]
  IN /\ Can(c, Up) /\ f # None
     /\ m \in Mobiles /\ room[m] = Nowhere
     /\ Becomes(Face(Face(born, m, f), f, m))
     /\ Still

\* calm, butterflies: some of those in the room.
Calm(S) ==
  /\ Between /\ S # {} /\ S \subseteq InWorld(now)
  /\ \A c, d \in S : room[c] = room[d]
  /\ \A c \in S : fighting[c] # None \/ pos[c] = "fighting"
  /\ fighting' = [f \in Chars |-> IF f \in S THEN None ELSE fighting[f]]
  /\ pos' = [f \in Chars |-> IF f \in S THEN AtEase(now, f) ELSE pos[f]]
  /\ UNCHANGED <<room, down>> /\ Still

\* Betray: a creature g of the victim's company turns to what c fights.
Betray(c, v, g) ==
  /\ Can(c, Up) /\ Here(c, v) /\ fighting[c] # None
  /\ v \in Players \ {c} /\ g \in Mobiles \cap InWorld(now)
  /\ \E s \in IF fighting[g] = None THEN {now} ELSE StopAll(now, g) :
       IF s.fighting[c] # None
       THEN Becomes([s EXCEPT !.fighting[g] = s.fighting[c]])
       ELSE Becomes([s EXCEPT !.fighting[g] = v, !.fighting[c] = v])
  /\ Still

\* Login, a reset or a spell puts c into a room.
Enter(c, r) ==
  /\ Between /\ room[c] = Nowhere /\ r \in Rooms
  /\ room' = [room EXCEPT ![c] = r]
  /\ UNCHANGED <<fighting, pos, down>> /\ Still

\* quit: refused in the position of fighting, whoever the opponent.
Quit(c) ==
  /\ Can(c, Positions \ {"fighting"}) /\ c \in Players
  /\ \E s \in Extract(now, c) : Becomes(s)
  /\ Still

\* purge, a mobile that crumbles or is dismissed.
Purge(c) ==
  /\ Can(c, Positions)
  /\ \E s \in Extract(now, c) : Becomes(s)
  /\ Still

Command(c) ==
  \/ \E v \in Chars : Kill(c, v) \/ Cast(c, v) \/ Rescue(c, v) \/ MirrorImage(c, v)
  \/ \E r \in Rooms : Walk(c, r) \/ Flee(c, r) \/ Leave(c, r) \/ Vanish(c, r) \/ Enter(c, r)
  \/ \E p \in Positions : Settle(c, p)
  \/ \E v, g \in Chars : Betray(c, v, g)
  \/ Waste(c) \/ SpellSleep(c) \/ Heal(c) \/ SmokeScreen(c) \/ Quit(c) \/ Purge(c)

Round ==
  \/ BeginRound \/ Rally \/ EndTurn
  \/ \E c \in Chars : Take(c)
  \/ \E h, t \in Chars : Assist(h, t)
  \/ Blow \/ Extra \/ EndHit
  \/ \E w \in Chars : AreaBlow(w)

Next == Round \/ (\E c \in Chars : Command(c)) \/ \E S \in SUBSET Chars : Calm(S)

Spec == Init /\ [][Next]_vars
-----------------------------------------------------------------------------
\* Nobody's opponent is a character that has been freed, and nobody outside of
\* the world fights: whoever is extracted is taken out of every fight, also
\* when it is in the middle of its own or of somebody else's turn.
FightersInWorld ==
  \A c \in Chars : fighting[c] # None => {c, fighting[c]} \subseteq InWorld(now)

\* The position that refuses to walk, rest or quit is held only by those who do
\* have an opponent: no way out of a fight leaves one behind in it.
PositionTrue ==
  \A c \in Chars : pos[c] = "fighting" => fighting[c] # None

\* In the middle of blows nobody is turned against somebody that does not
\* attack it: who loses its opponent only goes on with one that fights it.
TurnsOnAttackers ==
  [][hit.stage # "none" =>
       \A c \in Chars : fighting[c] # None /\ fighting'[c] \notin {None, fighting[c]}
                        => fighting[fighting'[c]] = c]_vars
=============================================================================
