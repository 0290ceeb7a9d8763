---------------------------- MODULE FightProofs ----------------------------
(***************************************************************************)
(* Proofs about Fight, for all numbers of players, mobiles and rooms.      *)
(*                                                                         *)
(* Each call is shown to turn a sound world into sound worlds; the steps   *)
(* of the round and the commands are made of these calls.                  *)
(***************************************************************************)
EXTENDS Fight, TLAPS

World == [room : [Chars -> Rooms \cup {Nowhere}],
          fighting : [Chars -> Chars \cup {None}],
          pos : [Chars -> Positions],
          down : SUBSET Players]

\* What the invariants say of the world s.
Sound(s) ==
  /\ s \in World
  /\ \A c \in Chars : s.fighting[c] # None => {c, s.fighting[c]} \subseteq InWorld(s)
  /\ \A c \in Chars : s.pos[c] = "fighting" => s.fighting[c] # None

HitOK(h) ==
  /\ h \in [by : Chars \cup {None}, at : Chars \cup {None}, stage : Stages]
  /\ h.stage # "none" => {h.by, h.at} \subseteq Chars

WalkOK ==
  /\ left \subseteq Chars
  /\ {turn, foe} \subseteq Chars \cup {None}

\* The inductive invariant: the world is sound, the walk remembers characters,
\* and who strikes is somebody and strikes at somebody.
Inv == Sound(now) /\ WalkOK /\ HitOK(hit)

-----------------------------------------------------------------------------
\* The calls.

LEMMA InWorldIs ==
  ASSUME NEW s, NEW c
  PROVE  c \in InWorld(s) <=> c \in Chars /\ s.room[c] # Nowhere
BY DEF InWorld

LEMMA AtEaseOK ==
  ASSUME NEW s, NEW c \in Chars
  PROVE  /\ AtEase(s, c) \in Positions
         /\ AtEase(s, c) # "fighting"
BY FightAssumption DEF AtEase, Positions

LEMMA StopForm ==
  ASSUME NEW s \in World, NEW c \in Chars
  PROVE  /\ Stop(s, c) \in World
         /\ Stop(s, c).room = s.room
         /\ Stop(s, c).down = s.down
         /\ Stop(s, c).fighting = [s.fighting EXCEPT ![c] = None]
         /\ Stop(s, c).pos = [s.pos EXCEPT ![c] = AtEase(s, c)]
BY AtEaseOK DEF Stop, World

LEMMA StopSound ==
  ASSUME NEW s, Sound(s), NEW c \in Chars
  PROVE  /\ Sound(Stop(s, c))
         /\ Stop(s, c).room = s.room
         /\ Stop(s, c).fighting[c] = None
<1> DEFINE t == Stop(s, c)
<1>1. s \in World /\ s.fighting \in [Chars -> Chars \cup {None}] /\ s.pos \in [Chars -> Positions]
  BY DEF Sound, World
<1>2. /\ t \in World /\ t.room = s.room
      /\ t.fighting = [s.fighting EXCEPT ![c] = None]
      /\ t.pos = [s.pos EXCEPT ![c] = AtEase(s, c)]
  BY <1>1, StopForm
<1> HIDE DEF t
<1>3. \A f \in Chars : /\ t.fighting[f] = IF f = c THEN None ELSE s.fighting[f]
                       /\ t.pos[f] = IF f = c THEN AtEase(s, c) ELSE s.pos[f]
  BY <1>1, <1>2
<1>4. AtEase(s, c) # "fighting"
  BY AtEaseOK
<1>5. Sound(t) /\ t.room = s.room /\ t.fighting[c] = None
  BY <1>1, <1>2, <1>3, <1>4 DEF Sound, InWorld
<1> QED
  BY <1>5 DEF t

LEMMA TurnedForm ==
  ASSUME NEW s \in World, NEW c \in Chars, NEW h,
         \A f \in Chars : s.fighting[f] = c => h[f] \in Chars \cup {None}
  PROVE  /\ Turned(s, c, h) \in World
         /\ Turned(s, c, h).room = s.room
         /\ Turned(s, c, h).down = s.down
         /\ \A f \in Chars :
              /\ Turned(s, c, h).fighting[f] = IF s.fighting[f] = c THEN h[f] ELSE s.fighting[f]
              /\ Turned(s, c, h).pos[f] = IF s.fighting[f] = c /\ h[f] = None
                                          THEN AtEase(s, f) ELSE s.pos[f]
<1>1. \A f \in Chars : AtEase(s, f) \in Positions
  BY AtEaseOK
<1>2. [f \in Chars |-> IF s.fighting[f] = c THEN h[f] ELSE s.fighting[f]]
        \in [Chars -> Chars \cup {None}]
  BY DEF World
<1>3. [f \in Chars |-> IF s.fighting[f] = c /\ h[f] = None THEN AtEase(s, f) ELSE s.pos[f]]
        \in [Chars -> Positions]
  BY <1>1 DEF World
<1> QED
  BY <1>2, <1>3 DEF Turned, World

LEMMA StopAllSound ==
  ASSUME NEW s, Sound(s), NEW c \in Chars, NEW t \in StopAll(s, c)
  PROVE  /\ Sound(t)
         /\ t.room = s.room
         /\ t.down = s.down
         /\ t.fighting[c] = None
         /\ \A f \in Chars : t.fighting[f] # c
<1> DEFINE u == Stop(s, c)
           Onto(f) == {o \in Chars \ {c} : u.fighting[o] = f}
<1>1. PICK h : /\ t = Turned(u, c, h)
               /\ \A f \in Chars : u.fighting[f] = c =>
                    IF Onto(f) = {} THEN h[f] = None ELSE h[f] \in Onto(f)
  BY DEF StopAll
<1>2. Sound(u) /\ u \in World /\ u.room = s.room /\ u.down = s.down /\ u.fighting[c] = None
  <2>1. s \in World
    BY DEF Sound
  <2> QED
    BY <2>1, StopSound, StopForm
<1> HIDE DEF u
<1>3. /\ t \in World /\ t.room = u.room /\ t.down = u.down
      /\ \A f \in Chars :
           /\ t.fighting[f] = IF u.fighting[f] = c THEN h[f] ELSE u.fighting[f]
           /\ t.pos[f] = IF u.fighting[f] = c /\ h[f] = None THEN AtEase(u, f) ELSE u.pos[f]
  BY <1>1, <1>2, TurnedForm
<1>4. c # None
  BY FightAssumption
<1>5. \A f \in Chars : u.fighting[f] = c =>
        h[f] # c /\ (h[f] # None => u.fighting[h[f]] = f /\ h[f] \in Chars)
  BY <1>1, <1>4
<1>6. \A f \in Chars : t.fighting[f] # None => {f, t.fighting[f]} \subseteq InWorld(t)
  <2> SUFFICES ASSUME NEW f \in Chars, t.fighting[f] # None
               PROVE  {f, t.fighting[f]} \subseteq InWorld(u)
    BY <1>3 DEF InWorld
  <2>1. CASE u.fighting[f] = c
    <3>1. u.fighting[h[f]] = f /\ h[f] \in Chars /\ f # None /\ t.fighting[f] = h[f]
      BY <1>3, <1>5, <2>1, FightAssumption
    <3> QED
      BY <3>1, <1>2 DEF Sound
  <2>2. CASE u.fighting[f] # c
    BY <2>2, <1>2, <1>3 DEF Sound
  <2> QED
    BY <2>1, <2>2
<1>7. \A f \in Chars : t.pos[f] = "fighting" => t.fighting[f] # None
  BY <1>2, <1>3, AtEaseOK DEF Sound
<1> QED
  BY <1>2, <1>3, <1>4, <1>5, <1>6, <1>7 DEF Sound

LEMMA FaceSound ==
  ASSUME NEW s, Sound(s), NEW c \in InWorld(s), NEW v \in InWorld(s)
  PROVE  Sound(Face(s, c, v)) /\ Face(s, c, v).room = s.room
<1>1. s \in World /\ c \in Chars /\ v \in Chars /\ v # None
  BY FightAssumption DEF Sound, InWorld
<1>2. /\ Face(s, c, v) \in World /\ Face(s, c, v).room = s.room
      /\ Face(s, c, v).fighting = [s.fighting EXCEPT ![c] = v]
      /\ Face(s, c, v).pos = [s.pos EXCEPT ![c] = "fighting"]
  BY <1>1 DEF Face, World, Positions
<1>3. \A f \in Chars :
        /\ Face(s, c, v).fighting[f] = IF f = c THEN v ELSE s.fighting[f]
        /\ Face(s, c, v).pos[f] = IF f = c THEN "fighting" ELSE s.pos[f]
  BY <1>1, <1>2 DEF World
<1> QED
  BY <1>1, <1>2, <1>3 DEF Sound, InWorld

\* A position other than that of fighting, and more or fewer with hit points.
LEMMA LieSound ==
  ASSUME NEW s, Sound(s), NEW c \in Chars, NEW p \in Positions \ {"fighting"},
         NEW d \in SUBSET Players
  PROVE  /\ Sound([s EXCEPT !.pos[c] = p, !.down = d])
         /\ [s EXCEPT !.pos[c] = p, !.down = d].room = s.room
         /\ [s EXCEPT !.pos[c] = p, !.down = d].fighting = s.fighting
<1> DEFINE t == [s EXCEPT !.pos[c] = p, !.down = d]
<1>1. s \in World
  BY DEF Sound
<1>2. t \in World /\ t.room = s.room /\ t.fighting = s.fighting /\ t.pos = [s.pos EXCEPT ![c] = p]
  BY <1>1 DEF World
<1>3. \A f \in Chars : t.pos[f] = IF f = c THEN p ELSE s.pos[f]
  BY <1>1, <1>2 DEF World
<1> HIDE DEF t
<1>4. Sound(t) /\ t.room = s.room /\ t.fighting = s.fighting
  BY <1>1, <1>2, <1>3 DEF Sound, InWorld
<1> QED
  BY <1>4 DEF t

LEMMA LieOnlySound ==
  ASSUME NEW s, Sound(s), NEW c \in Chars, NEW p \in Positions \ {"fighting"}
  PROVE  /\ Sound([s EXCEPT !.pos[c] = p])
         /\ [s EXCEPT !.pos[c] = p].room = s.room
<1> DEFINE t == [s EXCEPT !.pos[c] = p]
<1>1. s \in World
  BY DEF Sound
<1>2. t \in World /\ t.room = s.room /\ t.fighting = s.fighting /\ t.pos = [s.pos EXCEPT ![c] = p]
  BY <1>1 DEF World
<1>3. \A f \in Chars : t.pos[f] = IF f = c THEN p ELSE s.pos[f]
  BY <1>1, <1>2 DEF World
<1> HIDE DEF t
<1>4. Sound(t) /\ t.room = s.room
  BY <1>1, <1>2, <1>3 DEF Sound, InWorld
<1> QED
  BY <1>4 DEF t

\* To another room, or to none if it is in no fight.
LEMMA MoveSound ==
  ASSUME NEW s, Sound(s), NEW c \in Chars, NEW r \in Rooms \cup {Nowhere},
         r = Nowhere => s.fighting[c] = None /\ \A f \in Chars : s.fighting[f] # c
  PROVE  Sound([s EXCEPT !.room[c] = r])
<1> DEFINE t == [s EXCEPT !.room[c] = r]
<1>1. s \in World
  BY DEF Sound
<1>2. t \in World /\ t.fighting = s.fighting /\ t.pos = s.pos /\ t.room = [s.room EXCEPT ![c] = r]
  BY <1>1 DEF World
<1>3. \A f \in Chars : t.room[f] = IF f = c THEN r ELSE s.room[f]
  BY <1>1, <1>2 DEF World
<1>4. \A f \in Chars : s.fighting[f] # None => s.fighting[f] \in Chars
  BY <1>1 DEF World
<1>5. Nowhere \notin Rooms
  BY FightAssumption
<1> HIDE DEF t
<1>6. Sound(t)
  BY <1>1, <1>2, <1>3, <1>4, <1>5 DEF Sound, InWorld
<1> QED
  BY <1>6 DEF t

\* All of it at once: where c goes, how it lies, who has hit points.
LEMMA PlaceSound ==
  ASSUME NEW s, Sound(s), NEW c \in Chars, NEW r \in Rooms \cup {Nowhere},
         NEW p \in Positions \ {"fighting"}, NEW d \in SUBSET Players,
         r = Nowhere => s.fighting[c] = None /\ \A f \in Chars : s.fighting[f] # c
  PROVE  Sound([s EXCEPT !.room[c] = r, !.pos[c] = p, !.down = d])
<1> DEFINE t == [s EXCEPT !.room[c] = r, !.pos[c] = p, !.down = d]
<1>1. s \in World
  BY DEF Sound
<1>2. /\ t \in World /\ t.fighting = s.fighting
      /\ t.room = [s.room EXCEPT ![c] = r] /\ t.pos = [s.pos EXCEPT ![c] = p]
  BY <1>1 DEF World
<1>3. \A f \in Chars : /\ t.room[f] = IF f = c THEN r ELSE s.room[f]
                       /\ t.pos[f] = IF f = c THEN p ELSE s.pos[f]
  BY <1>1, <1>2 DEF World
<1>4. \A f \in Chars : s.fighting[f] # None => s.fighting[f] \in Chars
  BY <1>1 DEF World
<1>5. Nowhere \notin Rooms
  BY FightAssumption
<1> HIDE DEF t
<1>6. Sound(t)
  BY <1>1, <1>2, <1>3, <1>4, <1>5 DEF Sound, InWorld
<1> QED
  BY <1>6 DEF t

LEMMA ExtractSound ==
  ASSUME NEW s, Sound(s), NEW c \in Chars, NEW t \in Extract(s, c)
  PROVE  Sound(t)
<1>1. PICK u \in StopAll(s, c) :
        t = [u EXCEPT !.room[c] = Nowhere, !.pos[c] = default_pos[c], !.down = u.down \ {c}]
  BY DEF Extract
<1>2. Sound(u) /\ u.fighting[c] = None /\ \A f \in Chars : u.fighting[f] # c
  BY StopAllSound
<1>3. default_pos[c] \in Positions \ {"fighting"}
  BY FightAssumption DEF Positions
<1>4. u.down \ {c} \in SUBSET Players
  BY <1>2 DEF Sound, World
<1> QED
  BY <1>1, <1>2, <1>3, <1>4, PlaceSound

LEMMA KilledSound ==
  ASSUME NEW s, Sound(s), NEW v \in Chars, NEW t \in Killed(s, v)
  PROVE  Sound(t)
<1>1. CASE v \in Mobiles
  BY <1>1, ExtractSound DEF Killed
<1>2. CASE v \notin Mobiles
  <2>1. PICK u \in StopAll(s, v) :
          t \in {Woken(u, v, s.room[v], "standing"),
                 Woken(u, v, Hall, "resting"), Woken(u, v, Hall, "sleeping")}
    BY <1>2 DEF Killed
  <2>2. Sound(u) /\ u.fighting[v] = None /\ \A f \in Chars : u.fighting[f] # v
    BY StopAllSound
  <2>3. u.down \ {v} \in SUBSET Players
    BY <2>2 DEF Sound, World
  <2>4. ASSUME NEW r \in Rooms \cup {Nowhere}, NEW p \in Positions \ {"fighting"}
        PROVE  Sound(Woken(u, v, r, p))
    BY <2>2, <2>3, PlaceSound DEF Woken
  <2>5. s.room[v] \in Rooms \cup {Nowhere} /\ Hall \in Rooms \cup {Nowhere}
    BY FightAssumption DEF Sound, World
  <2>6. /\ "standing" \in Positions \ {"fighting"}
        /\ "resting" \in Positions \ {"fighting"}
        /\ "sleeping" \in Positions \ {"fighting"}
    BY DEF Positions
  <2>7. CASE t = Woken(u, v, s.room[v], "standing")
    BY <2>4, <2>5, <2>6, <2>7
  <2>8. CASE t = Woken(u, v, Hall, "resting")
    BY <2>4, <2>5, <2>6, <2>8
  <2>9. CASE t = Woken(u, v, Hall, "sleeping")
    BY <2>4, <2>5, <2>6, <2>9
  <2> QED
    BY <2>1, <2>7, <2>8, <2>9
<1> QED
  BY <1>1, <1>2

LEMMA GoneSound ==
  ASSUME NEW s, Sound(s), NEW v \in Chars, NEW r \in Rooms, NEW t \in Gone(s, v, r)
  PROVE  Sound(t)
<1>1. r # Nowhere
  BY FightAssumption
<1>2. CASE s.fighting[v] = None
  BY <1>1, <1>2, MoveSound DEF Gone
<1>3. CASE s.fighting[v] # None
  <2>1. PICK u \in StopAll(s, v) : t = [u EXCEPT !.room[v] = r]
    BY <1>3 DEF Gone
  <2> QED
    BY <1>1, <2>1, StopAllSound, MoveSound
<1> QED
  BY <1>2, <1>3

LEMMA HurtSound ==
  ASSUME NEW s, Sound(s), NEW v \in Chars
  PROVE  Sound(Hurt(s, v)) /\ Hurt(s, v).room = s.room
<1> DEFINE t == IF v \in s.down THEN [s EXCEPT !.pos[v] = "stunned"] ELSE s
<1>1. Sound(t) /\ t.room = s.room
  <2>1. "stunned" \in Positions \ {"fighting"}
    BY DEF Positions
  <2> QED
    BY <2>1, LieOnlySound
<1>2. Hurt(s, v) = IF Awake(t, v) THEN t ELSE Stop(t, v)
  BY DEF Hurt
<1> HIDE DEF t
<1> QED
  BY <1>1, <1>2, StopSound

LEMMA EndsSound ==
  ASSUME NEW s, Sound(s), NEW v \in Chars, NEW t \in Ends(s, v)
  PROVE  Sound(t)
<1> DEFINE fallen == [s EXCEPT !.pos[v] = "stunned", !.down = s.down \cup {v}]
<1>1. CASE t \in {s, Hurt(s, v)}
  BY <1>1, HurtSound
<1>2. CASE t \in Killed(s, v)
  BY <1>2, KilledSound
<1>3. ASSUME v \in Players
      PROVE  Sound(fallen)
  <2>1. s.down \cup {v} \in SUBSET Players /\ "stunned" \in Positions \ {"fighting"}
    BY <1>3 DEF Sound, World, Positions
  <2> QED
    BY <2>1, LieSound
<1>4. CASE v \in Players /\ t \in {Stop(fallen, v)} \cup StopAll(fallen, v)
  <2>1. Sound(fallen)
    BY <1>3, <1>4
  <2> HIDE DEF fallen
  <2> QED
    BY <2>1, <1>4, StopSound, StopAllSound
<1> QED
  BY <1>1, <1>2, <1>4 DEF Ends

LEMMA FlooredSound ==
  ASSUME NEW s, Sound(s), NEW v \in Chars
  PROVE  Sound(Floored(s, v))
<1>1. "resting" \in Positions \ {"fighting"}
  BY DEF Positions
<1>2. Sound([s EXCEPT !.pos[v] = "resting"])
  BY <1>1, LieOnlySound
<1> QED
  BY <1>2 DEF Floored

LEMMA HarmedSound ==
  ASSUME NEW s, Sound(s), NEW v \in Chars, NEW t \in Harmed(s, v)
  PROVE  Sound(t)
<1> DEFINE Fled == UNION {Gone(Hurt(s, v), v, r) :
               r \in {r \in Rooms \ {s.room[v]} :
                        v \in Players \/ Hurt(s, v).fighting[v] # None}}
           ends == Ends(s, v) \cup Fled
<1>1. \A u \in Fled : Sound(u)
  <2> TAKE u \in Fled
  <2>1. PICK r \in Rooms : u \in Gone(Hurt(s, v), v, r)
    OBVIOUS
  <2>2. Sound(Hurt(s, v))
    BY HurtSound
  <2> QED
    BY <2>1, <2>2, GoneSound
<1>2. \A u \in Ends(s, v) : Sound(u)
  BY EndsSound
<1>3. t \in ends \cup {Floored(u, v) : u \in ends}
  BY DEF Harmed
<1> HIDE DEF Fled
<1>4. CASE t \in ends
  BY <1>1, <1>2, <1>4
<1>5. CASE t \in {Floored(u, v) : u \in ends}
  <2>1. PICK u \in ends : t = Floored(u, v)
    BY <1>5
  <2> QED
    BY <1>1, <1>2, <2>1, FlooredSound
<1> QED
  BY <1>3, <1>4, <1>5

LEMMA EngagedSound ==
  ASSUME NEW s, Sound(s), NEW c \in InWorld(s), NEW v \in InWorld(s), NEW t \in Engaged(s, c, v)
  PROVE  Sound(t) /\ t.room = s.room
<1> DEFINE attacker == IF s.fighting[c] = None THEN Face(s, c, v) ELSE s
           Ready(u) == [u EXCEPT !.pos[v] = "fighting"]
<1>1. c \in Chars /\ v \in Chars
  BY DEF InWorld
<1>2. Sound(attacker) /\ attacker.room = s.room
  BY FaceSound
<1>3. ASSUME NEW u, Sound(u), u.room = s.room, u.fighting[v] # None
      PROVE  Sound(Ready(u)) /\ Ready(u).room = s.room
  <2>1. u \in World
    BY <1>3 DEF Sound
  <2>2. /\ Ready(u) \in World /\ Ready(u).room = u.room /\ Ready(u).fighting = u.fighting
        /\ Ready(u).pos = [u.pos EXCEPT ![v] = "fighting"]
    BY <1>1, <2>1 DEF World, Positions
  <2>3. \A f \in Chars : Ready(u).pos[f] = IF f = v THEN "fighting" ELSE u.pos[f]
    BY <1>1, <2>1, <2>2 DEF World
  <2> HIDE DEF Ready
  <2> QED
    BY <1>3, <2>1, <2>2, <2>3 DEF Sound, InWorld
<1>4. ASSUME NEW u, Sound(u), u.room = s.room
      PROVE  Sound(Face(u, v, c)) /\ Face(u, v, c).room = s.room
  <2>1. InWorld(u) = InWorld(s)
    BY <1>4 DEF InWorld
  <2> QED
    BY <1>4, <2>1, FaceSound
<1>5. ASSUME NEW u, Sound(u), u.room = s.room
      PROVE  Sound(Stop(u, v)) /\ Stop(u, v).room = s.room
  BY <1>1, <1>5, StopSound
<1>6. \/ t = s \/ t = attacker
      \/ t = IF attacker.fighting[v] = None THEN Face(attacker, v, c) ELSE Ready(attacker)
      \/ t = IF s.fighting[v] = None THEN Stop(s, v) ELSE Ready(s)
  BY DEF Engaged
<1> HIDE DEF attacker, Ready
<1> QED
  BY <1>2, <1>3, <1>4, <1>5, <1>6

LEMMA StruckSound ==
  ASSUME NEW s, Sound(s), NEW c \in InWorld(s), NEW v \in InWorld(s), NEW t \in Struck(s, c, v)
  PROVE  Sound(t)
<1>1. c \in Chars /\ v \in Chars
  BY DEF InWorld
<1>2. CASE t \in Refused(s, c, v)
  BY <1>1, <1>2, StopSound DEF Refused
<1>3. CASE t \in UNION {Harmed(u, v) : u \in Engaged(s, c, v)}
  <2>1. PICK u \in Engaged(s, c, v) : t \in Harmed(u, v)
    BY <1>3
  <2> QED
    BY <1>1, <2>1, EngagedSound, HarmedSound
<1> QED
  BY <1>2, <1>3 DEF Struck

LEMMA EvadedSound ==
  ASSUME NEW s, Sound(s), NEW c \in InWorld(s), NEW v \in InWorld(s), NEW t \in Evaded(s, c, v)
  PROVE  Sound(t)
<1>1. PICK u \in Engaged(s, c, v) : t \in Struck(u, v, c)
  BY DEF Evaded
<1>2. Sound(u) /\ u.room = s.room
  BY EngagedSound
<1>3. c \in InWorld(u) /\ v \in InWorld(u)
  BY <1>2 DEF InWorld
<1> QED
  BY <1>1, <1>2, <1>3, StruckSound

LEMMA DamageSound ==
  ASSUME NEW s, Sound(s), NEW c \in Chars, NEW v \in Chars, NEW t \in Damage(s, c, v)
  PROVE  Sound(t)
<1>1. CASE {c, v} \subseteq InWorld(s)
  <2>1. t \in Struck(s, c, v) \/ t \in Evaded(s, c, v)
    BY <1>1 DEF Damage
  <2> QED
    BY <1>1, <2>1, StruckSound, EvadedSound
<1>2. CASE ~({c, v} \subseteq InWorld(s))
  BY <1>2 DEF Damage
<1> QED
  BY <1>1, <1>2

LEMMA OneHitSound ==
  ASSUME NEW s, Sound(s), NEW c \in Chars, NEW v \in Chars, NEW t \in OneHit(s, c, v)
  PROVE  Sound(t)
BY DamageSound DEF OneHit

-----------------------------------------------------------------------------
\* The steps.

LEMMA BecomesSound ==
  ASSUME NEW s, Sound(s), Becomes(s)
  PROVE  Sound(now)'
<1>1. s = [room |-> s.room, fighting |-> s.fighting, pos |-> s.pos, down |-> s.down]
  BY DEF Sound, World
<1>2. now' = s
  BY <1>1 DEF Becomes, now
<1> QED
  BY <1>2

LEMMA SameSound ==
  ASSUME Sound(now), UNCHANGED <<room, fighting, pos, down>>
  PROVE  Sound(now)'
<1>1. now' = now
  BY DEF now
<1> QED
  BY <1>1

LEMMA NowIs ==
  /\ now.room = room /\ now.fighting = fighting /\ now.pos = pos /\ now.down = down
BY DEF now

LEMMA SeriesOK ==
  ASSUME NEW s, NEW c \in Chars, NEW v \in Chars
  PROVE  HitOK(Series(s, c, v))
BY DEF Series, HitOK, NoHit, Stages

LEMMA NoHitOK == HitOK(NoHit)
BY DEF HitOK, NoHit, Stages

LEMMA StageOK ==
  ASSUME HitOK(hit), hit.stage # "none", NEW g \in Stages
  PROVE  HitOK([hit EXCEPT !.stage = g])
BY DEF HitOK

\* Who fights, and whom, are characters in the world.
LEMMA FighterIn ==
  ASSUME Sound(now), NEW c \in Chars, fighting[c] # None
  PROVE  c \in InWorld(now) /\ fighting[c] \in InWorld(now) /\ fighting[c] \in Chars
BY NowIs DEF Sound, InWorld

LEMMA RoundInv ==
  ASSUME Inv, Round
  PROVE  Inv'
<1> USE DEF Inv
<1>1. CASE BeginRound
  <2>1. Sound(now)'
    BY <1>1, SameSound DEF BeginRound
  <2> QED
    BY <1>1, <2>1 DEF BeginRound, WalkOK, HitOK, InWorld
<1>2. CASE Rally
  <2>1. Sound(now)'
    BY <1>2, SameSound DEF Rally
  <2>2. turn \in Chars
    BY <1>2 DEF Rally, InWorld
  <2>3. fighting[turn] \in Chars
    BY <1>2, <2>2, FighterIn DEF Rally
  <2> QED
    BY <1>2, <2>1, <2>3 DEF Rally, WalkOK, HitOK
<1>3. CASE EndTurn
  <2>1. Sound(now)'
    BY <1>3, SameSound DEF EndTurn
  <2> QED
    BY <1>3, <2>1 DEF EndTurn, WalkOK, HitOK
<1>4. ASSUME NEW c \in Chars, Take(c)
      PROVE  Inv'
  <2>1. CASE c \notin InWorld(now) \/ fighting[c] = None
    <3>1. Sound(now)'
      BY <1>4, <2>1, SameSound DEF Take
    <3> QED
      BY <1>4, <2>1, <3>1 DEF Take, WalkOK, HitOK
  <2>2. CASE c \in InWorld(now) /\ fighting[c] # None /\ Awake(now, c) /\ room[c] = room[fighting[c]]
    <3>1. Sound(now)'
      BY <1>4, <2>2, SameSound DEF Take
    <3>2. HitOK(Series(now, c, fighting[c]))
      BY <2>2, FighterIn, SeriesOK
    <3>3. hit' = Series(now, c, fighting[c]) /\ turn' = c /\ left' = left \ {c} /\ foe' = foe
      BY <1>4, <2>2 DEF Take
    <3>4. HitOK(hit)'
      BY <3>2, <3>3 DEF HitOK
    <3> QED
      BY <3>1, <3>3, <3>4 DEF WalkOK
  <2>3. CASE c \in InWorld(now) /\ fighting[c] # None /\ ~(Awake(now, c) /\ room[c] = room[fighting[c]])
    <3>1. Becomes(Stop(now, c)) /\ UNCHANGED <<turn, hit, foe>> /\ left' = left \ {c}
      BY <1>4, <2>3 DEF Take
    <3>2. Sound(now)'
      BY <3>1, StopSound, BecomesSound
    <3> QED
      BY <3>1, <3>2 DEF WalkOK, HitOK
  <2> QED
    BY <2>1, <2>2, <2>3
<1>5. ASSUME NEW h \in Chars, NEW t \in Chars, Assist(h, t)
      PROVE  Inv'
  <2>1. Sound(now)'
    BY <1>5, SameSound DEF Assist
  <2>2. hit' = Series(now, h, t) /\ UNCHANGED walk
    BY <1>5 DEF Assist, walk
  <2>3. HitOK(hit)'
    BY <2>2, SeriesOK DEF HitOK
  <2> QED
    BY <2>1, <2>2, <2>3 DEF walk, WalkOK
<1>6. CASE Blow
  <2>1. PICK s \in OneHit(now, hit.by, hit.at) :
          /\ Becomes(s)
          /\ hit' \in IF hit.stage # "loose" /\ s.fighting[hit.by] # hit.at
                      THEN {NoHit}
                      ELSE {[hit EXCEPT !.stage = g] : g \in {"more", "loose"}}
    BY <1>6 DEF Blow
  <2>2. hit.by \in Chars /\ hit.at \in Chars /\ hit.stage # "none"
    BY <1>6 DEF Blow, HitOK
  <2>3. Sound(now)'
    BY <2>1, <2>2, OneHitSound, BecomesSound
  <2>4. hit' = NoHit \/ \E g \in Stages : hit' = [hit EXCEPT !.stage = g]
    BY <2>1 DEF Stages
  <2>5. HitOK(hit')
    BY <2>2, <2>4, NoHitOK, StageOK
  <2> QED
    BY <1>6, <2>3, <2>5 DEF Blow, walk, WalkOK, HitOK
<1>7. CASE Extra
  <2>1. PICK s \in Damage(now, hit.by, hit.at) \cup Ends(now, hit.by) \cup {Floored(now, hit.by)} :
          Becomes(s)
    BY <1>7 DEF Extra
  <2>2. hit.by \in Chars /\ hit.at \in Chars
    BY <1>7 DEF Extra, HitOK
  <2>3. Sound(s)
    BY <2>1, <2>2, DamageSound, EndsSound, FlooredSound
  <2>4. Sound(now)'
    BY <2>1, <2>3, BecomesSound
  <2> QED
    BY <1>7, <2>4 DEF Extra, walk, WalkOK, HitOK
<1>8. CASE EndHit
  <2>1. Sound(now)'
    BY <1>8, SameSound DEF EndHit
  <2> QED
    BY <1>8, <2>1, NoHitOK DEF EndHit, walk, WalkOK, HitOK
<1>9. ASSUME NEW w \in Chars, AreaBlow(w)
      PROVE  Inv'
  <2>1. PICK s \in OneHit(now, hit.by, w) : Becomes(s)
    BY <1>9 DEF AreaBlow
  <2>2. hit.by \in Chars
    BY <1>9 DEF AreaBlow, HitOK
  <2>3. Sound(now)'
    BY <2>1, <2>2, OneHitSound, BecomesSound
  <2> QED
    BY <1>9, <2>3 DEF AreaBlow, walk, WalkOK, HitOK
<1> QED
  BY <1>1, <1>2, <1>3, <1>4, <1>5, <1>6, <1>7, <1>8, <1>9 DEF Round

\* Commands leave the walk alone.
LEMMA CommandInv ==
  ASSUME Inv, Sound(now)', UNCHANGED walk, HitOK(hit')
  PROVE  Inv'
BY DEF Inv, walk, WalkOK, HitOK

LEMMA StillInv ==
  ASSUME Inv, Sound(now)', Still
  PROVE  Inv'
BY DEF Inv, Still, walk, WalkOK, HitOK

LEMMA KillInv ==
  ASSUME Inv, NEW c \in Chars, NEW v \in Chars, Kill(c, v)
  PROVE  Inv'
<1>1. HitOK(hit') /\ UNCHANGED <<room, pos, down, walk>>
  BY SeriesOK DEF Kill
<1>2. CASE pos[c] = "fighting"
  <2>1. c \in InWorld(now) /\ v \in InWorld(now) /\ fighting' = [fighting EXCEPT ![c] = v]
    BY <1>2 DEF Kill, Can, Here
  <2>2. Face(now, c, v).pos = [pos EXCEPT ![c] = "fighting"]
    BY DEF Face, now
  <2>3. now \in World /\ pos \in [Chars -> Positions]
    BY NowIs DEF Inv, Sound, World
  <2>4. Becomes(Face(now, c, v))
    BY <1>1, <1>2, <2>1, <2>3 DEF Face, now, Becomes
  <2>5. Sound(now)'
    BY <2>1, <2>4, FaceSound, BecomesSound DEF Inv
  <2> QED
    BY <1>1, <2>5, CommandInv DEF walk
<1>3. CASE pos[c] # "fighting"
  <2>1. Sound(now)'
    BY <1>1, <1>3, SameSound DEF Kill, Inv
  <2> QED
    BY <1>1, <2>1, CommandInv DEF walk
<1> QED
  BY <1>2, <1>3

LEMMA CastInv ==
  ASSUME Inv, NEW c \in Chars, NEW v \in Chars, Cast(c, v)
  PROVE  Inv'
<1>1. PICK s \in {now} \cup Damage(now, c, v) :
        /\ Becomes(s)
        /\ hit' = IF {c, v} \subseteq InWorld(s) /\ s.room[c] = s.room[v] /\ s.fighting[v] = None
                  THEN Series(s, v, c) ELSE NoHit
  BY DEF Cast
<1>2. Sound(s)
  BY DamageSound DEF Inv
<1>3. Sound(now)'
  BY <1>1, <1>2, BecomesSound
<1>4. HitOK(hit')
  BY <1>1, SeriesOK, NoHitOK
<1> QED
  BY <1>3, <1>4, CommandInv DEF Cast

LEMMA RescueInv ==
  ASSUME Inv, NEW c \in Chars, NEW v \in Chars, Rescue(c, v)
  PROVE  Inv'
<1> DEFINE f == fighting[v]
           one == Stop(now, f)
           two == Stop(one, v)
           three == Stop(two, c)
           four == Face(three, c, f)
           five == Face(four, f, c)
<1>1. /\ c \in InWorld(now) /\ f # None /\ Still /\ Becomes(five)
  BY DEF Rescue, Can
<1>2. f \in Chars /\ f \in InWorld(now) /\ Sound(now)
  BY <1>1, FighterIn DEF Inv
<1> HIDE DEF f
<1>3. Sound(one) /\ one.room = room
  BY <1>2, StopSound, NowIs
<1>4. Sound(two) /\ two.room = room
  <2> HIDE DEF one
  <2> QED
    BY <1>3, StopSound
<1>5. Sound(three) /\ three.room = room
  <2> HIDE DEF two
  <2> QED
    BY <1>4, StopSound
<1> HIDE DEF three
<1>6. c \in InWorld(three) /\ f \in InWorld(three)
  BY <1>1, <1>2, <1>5, NowIs DEF InWorld
<1>7. Sound(four) /\ four.room = room
  BY <1>5, <1>6, FaceSound
<1> HIDE DEF four
<1>8. c \in InWorld(four) /\ f \in InWorld(four)
  BY <1>6, <1>5, <1>7 DEF InWorld
<1>9. Sound(five)
  BY <1>7, <1>8, FaceSound
<1> QED
  BY <1>1, <1>9, BecomesSound, StillInv

LEMMA MirrorImageInv ==
  ASSUME Inv, NEW c \in Chars, NEW m \in Chars, MirrorImage(c, m)
  PROVE  Inv'
<1> DEFINE f == fighting[c]
           one == Stop(now, f)
           two == Stop(one, c)
           born == [two EXCEPT !.room[m] = room[c]]
           four == Face(born, m, f)
           five == Face(four, f, m)
<1>1. f # None /\ Still /\ Becomes(five) /\ c \in InWorld(now)
  BY DEF MirrorImage, Can
<1>2. f \in Chars /\ f \in InWorld(now) /\ Sound(now)
  BY <1>1, FighterIn DEF Inv
<1>3. room \in [Chars -> Rooms \cup {Nowhere}] /\ room[c] \in Rooms
  BY <1>1, <1>2, NowIs DEF Sound, World, InWorld
<1> HIDE DEF f
<1>4. Sound(one) /\ one.room = room
  BY <1>2, StopSound, NowIs
<1>5. Sound(two) /\ two.room = room
  <2> HIDE DEF one
  <2> QED
    BY <1>4, StopSound
<1> HIDE DEF two
<1>6. Sound(born)
  BY <1>3, <1>5, MoveSound, FightAssumption
<1>7. born.room = [room EXCEPT ![m] = room[c]]
  BY <1>5 DEF Sound, World
<1> HIDE DEF born
<1>8. m \in InWorld(born) /\ f \in InWorld(born)
  BY <1>2, <1>3, <1>7, NowIs, FightAssumption DEF InWorld
<1>9. Sound(four) /\ four.room = born.room
  BY <1>6, <1>8, FaceSound
<1> HIDE DEF four
<1>10. m \in InWorld(four) /\ f \in InWorld(four)
  BY <1>8, <1>9 DEF InWorld
<1>11. Sound(five)
  BY <1>9, <1>10, FaceSound
<1> QED
  BY <1>1, <1>11, BecomesSound, StillInv

LEMMA BetrayInv ==
  ASSUME Inv, NEW c \in Chars, NEW v \in Chars, NEW g \in Chars, Betray(c, v, g)
  PROVE  Inv'
<1>1. PICK s \in IF fighting[g] = None THEN {now} ELSE StopAll(now, g) :
         IF s.fighting[c] # None
         THEN Becomes([s EXCEPT !.fighting[g] = s.fighting[c]])
         ELSE Becomes([s EXCEPT !.fighting[g] = v, !.fighting[c] = v])
  BY DEF Betray
<1>2. Sound(s) /\ s.room = room
  BY StopAllSound, NowIs DEF Inv
<1>3. c \in InWorld(s) /\ v \in InWorld(s) /\ g \in InWorld(s) /\ Still
  BY <1>2, NowIs DEF Betray, Can, Here, InWorld
<1>4. ASSUME NEW x \in InWorld(s), NEW y \in {g, c}, NEW u, Sound(u), u.room = room
      PROVE  Sound([u EXCEPT !.fighting[y] = x]) /\ [u EXCEPT !.fighting[y] = x].room = room
  <2> DEFINE t == [u EXCEPT !.fighting[y] = x]
  <2>1. u \in World /\ y \in Chars /\ x \in Chars /\ x # None
    BY <1>4, FightAssumption DEF Sound, InWorld
  <2>2. /\ t \in World /\ t.room = u.room /\ t.pos = u.pos
        /\ t.fighting = [u.fighting EXCEPT ![y] = x]
    BY <2>1 DEF World
  <2>3. \A f \in Chars : t.fighting[f] = IF f = y THEN x ELSE u.fighting[f]
    BY <2>1, <2>2 DEF World
  <2> HIDE DEF t
  <2>4. Sound(t) /\ t.room = room
    BY <1>2, <1>3, <1>4, <2>1, <2>2, <2>3 DEF Sound, InWorld
  <2> QED
    BY <2>4 DEF t
<1>5. CASE s.fighting[c] # None
  <2>1. s.fighting[c] \in InWorld(s)
    BY <1>2, <1>3, <1>5 DEF Sound, InWorld
  <2>2. Sound([s EXCEPT !.fighting[g] = s.fighting[c]])
    BY <1>2, <1>4, <2>1
  <2>3. Sound(now)'
    BY <1>1, <1>5, <2>2, BecomesSound
  <2> QED
    BY <1>3, <2>3, StillInv
<1>6. CASE s.fighting[c] = None
  <2> DEFINE t == [s EXCEPT !.fighting[g] = v]
             u == [t EXCEPT !.fighting[c] = v]
  <2>1. Sound(t) /\ t.room = room
    BY <1>2, <1>3, <1>4
  <2> HIDE DEF t
  <2>2. Sound(u)
    BY <1>3, <1>4, <2>1
  <2>3. u = [s EXCEPT !.fighting[g] = v, !.fighting[c] = v]
    BY DEF t
  <2>4. Becomes(u)
    BY <1>1, <1>6, <2>3
  <2>5. Sound(now)'
    BY <2>2, <2>4, BecomesSound
  <2> QED
    BY <1>3, <2>5, StillInv
<1> QED
  BY <1>5, <1>6

LEMMA CalmInv ==
  ASSUME Inv, NEW S \in SUBSET Chars, Calm(S)
  PROVE  Inv'
<1>1. /\ fighting' = [f \in Chars |-> IF f \in S THEN None ELSE fighting[f]]
      /\ pos' = [f \in Chars |-> IF f \in S THEN AtEase(now, f) ELSE pos[f]]
      /\ UNCHANGED <<room, down>> /\ Still
  BY DEF Calm
<1>2. \A f \in Chars : AtEase(now, f) \in Positions /\ AtEase(now, f) # "fighting"
  BY AtEaseOK
<1>3. /\ room \in [Chars -> Rooms \cup {Nowhere}] /\ fighting \in [Chars -> Chars \cup {None}]
      /\ pos \in [Chars -> Positions] /\ down \in SUBSET Players
  BY NowIs DEF Inv, Sound, World
<1>4. now' \in World /\ now'.room = room /\ now'.fighting = fighting' /\ now'.pos = pos'
  <2>1. pos' \in [Chars -> Positions]
    BY <1>1, <1>2, <1>3
  <2>2. fighting' \in [Chars -> Chars \cup {None}]
    BY <1>1, <1>3
  <2> QED
    BY <1>1, <1>3, <2>1, <2>2 DEF now, World
<1>5. \A f \in Chars : /\ fighting'[f] = IF f \in S THEN None ELSE fighting[f]
                       /\ pos'[f] = IF f \in S THEN AtEase(now, f) ELSE pos[f]
  BY <1>1
<1>6. Sound(now')
  BY <1>2, <1>4, <1>5, NowIs DEF Inv, Sound, InWorld
<1>7. Sound(now)'
  BY <1>6 DEF Sound, InWorld
<1> QED
  BY <1>1, <1>7, StillInv

\* A command that changes the room of one, or how it lies.
LEMMA PlainInv ==
  ASSUME Inv, NEW c \in Chars,
         \/ SpellSleep(c) \/ Heal(c)
         \/ \E p \in Positions : Settle(c, p)
         \/ \E r \in Rooms : Walk(c, r) \/ Vanish(c, r) \/ Enter(c, r)
  PROVE  Inv'
<1>1. Sound(now) /\ now \in World /\ c \in Chars
  BY DEF Inv, Sound
<1>2. ASSUME NEW r \in Rooms, NEW s, Sound(s), Becomes([s EXCEPT !.room[c] = r])
      PROVE  Sound(now)'
  BY <1>2, MoveSound, BecomesSound, FightAssumption
<1>3. ASSUME NEW p \in Positions \ {"fighting"}, NEW d \in SUBSET Players,
             Becomes([now EXCEPT !.pos[c] = p, !.down = d])
      PROVE  Sound(now)'
  BY <1>1, <1>3, LieSound, BecomesSound
<1>4. ASSUME NEW r \in Rooms, Walk(c, r) \/ Enter(c, r)
      PROVE  Inv'
  <2>1. Becomes([now EXCEPT !.room[c] = r]) /\ Still
    BY <1>4 DEF Walk, Enter, Becomes, now
  <2> QED
    BY <1>1, <1>2, <2>1, StillInv
<1>5. ASSUME NEW r \in Rooms, Vanish(c, r)
      PROVE  Inv'
  <2> DEFINE s == IF fighting[c] = None THEN now ELSE Stop(now, c)
  <2>1. Becomes([s EXCEPT !.room[c] = r]) /\ Still
    BY <1>5 DEF Vanish
  <2>2. Sound(s)
    BY <1>1, StopSound
  <2> HIDE DEF s
  <2> QED
    BY <1>2, <2>1, <2>2, StillInv
<1>6. CASE SpellSleep(c)
  <2>1. Becomes([now EXCEPT !.pos[c] = "sleeping", !.down = down]) /\ Still
    BY <1>6 DEF SpellSleep, Becomes, now
  <2>2. "sleeping" \in Positions \ {"fighting"} /\ down \in SUBSET Players
    BY <1>1, NowIs DEF Positions, World
  <2> QED
    BY <1>3, <2>1, <2>2, StillInv
<1>7. ASSUME NEW p \in Positions, Settle(c, p)
      PROVE  Inv'
  <2>1. Becomes([now EXCEPT !.pos[c] = p, !.down = down]) /\ Still
    BY <1>7 DEF Settle, Becomes, now
  <2>2. p \in Positions \ {"fighting"} /\ down \in SUBSET Players
    BY <1>1, <1>7, NowIs DEF Settle, Positions, World
  <2> QED
    BY <1>3, <2>1, <2>2, StillInv
<1>8. CASE Heal(c)
  <2>1. CASE pos[c] = "stunned"
    <3>1. Becomes([now EXCEPT !.pos[c] = "standing", !.down = down \ {c}]) /\ Still
      BY <1>8, <2>1, <1>1 DEF Heal, Becomes, now
    <3>2. "standing" \in Positions \ {"fighting"} /\ down \ {c} \in SUBSET Players
      BY <1>1, NowIs DEF Positions, World
    <3> QED
      BY <1>3, <3>1, <3>2, StillInv
  <2>2. CASE pos[c] # "stunned"
    <3>1. pos' = pos /\ fighting' = fighting /\ room' = room /\ down' = down \ {c} /\ Still
      BY <1>1, <1>8, <2>2, NowIs DEF Heal, World
    <3>2. Sound(now')
      BY <1>1, <3>1 DEF Sound, World, InWorld, now
    <3>3. Sound(now)'
      BY <3>2 DEF Sound, InWorld
    <3> QED
      BY <3>1, <3>3, StillInv
  <2> QED
    BY <2>1, <2>2
<1> QED
  BY <1>4, <1>5, <1>6, <1>7, <1>8

\* A command that is one call.
LEMMA CallInv ==
  ASSUME Inv, NEW c \in Chars,
         \/ Waste(c) \/ SmokeScreen(c) \/ Quit(c) \/ Purge(c)
         \/ \E r \in Rooms : Flee(c, r) \/ Leave(c, r)
  PROVE  Inv'
<1>1. Sound(now)
  BY DEF Inv
<1>2. ASSUME NEW s, Sound(s), Becomes(s), Still
      PROVE  Inv'
  BY <1>2, BecomesSound, StillInv
<1>3. CASE Waste(c)
  <2>1. PICK s \in Ends(now, c) : Becomes(s) /\ Still
    BY <1>3 DEF Waste
  <2> QED
    BY <1>1, <1>2, <2>1, EndsSound
<1>4. CASE Quit(c) \/ Purge(c)
  <2>1. PICK s \in Extract(now, c) : Becomes(s) /\ Still
    BY <1>4 DEF Quit, Purge
  <2> QED
    BY <1>1, <1>2, <2>1, ExtractSound
<1>5. ASSUME NEW r \in Rooms, Flee(c, r) \/ Leave(c, r)
      PROVE  Inv'
  <2>1. PICK s \in Gone(now, c, r) : Becomes(s) /\ Still
    BY <1>5 DEF Flee, Leave
  <2> QED
    BY <1>1, <1>2, <2>1, GoneSound
<1>6. CASE SmokeScreen(c)
  <2> DEFINE f == fighting[c]
             one == Stop(now, f)
             two == Stop(one, c)
  <2>1. f # None /\ Becomes(two) /\ Still
    BY <1>6 DEF SmokeScreen
  <2>2. f \in Chars
    BY <1>1, <2>1, FighterIn
  <2>3. Sound(one)
    BY <1>1, <2>2, StopSound
  <2> HIDE DEF one
  <2>4. Sound(two)
    BY <2>3, StopSound
  <2> HIDE DEF two
  <2> QED
    BY <1>2, <2>1, <2>4
<1> QED
  BY <1>3, <1>4, <1>5, <1>6

LEMMA InitInv == Init => Inv
<1> SUFFICES ASSUME Init PROVE Inv
  OBVIOUS
<1>1. default_pos \in [Chars -> Positions] /\ \A c \in Chars : default_pos[c] # "fighting"
  BY FightAssumption DEF Positions
<1>2. now \in World
  BY <1>1 DEF Init, World, now
<1>3. Sound(now)
  BY <1>1, <1>2, NowIs DEF Init, Sound
<1>4. WalkOK /\ HitOK(hit)
  BY NoHitOK DEF Init, WalkOK
<1> QED
  BY <1>3, <1>4 DEF Inv

LEMMA NextInv == Inv /\ [Next]_vars => Inv'
<1> SUFFICES ASSUME Inv, [Next]_vars PROVE Inv'
  OBVIOUS
<1>1. CASE Round
  BY <1>1, RoundInv
<1>2. ASSUME NEW c \in Chars, Command(c)
      PROVE  Inv'
  <2>1. CASE \E v \in Chars : Kill(c, v) \/ Cast(c, v) \/ Rescue(c, v) \/ MirrorImage(c, v)
    BY <2>1, KillInv, CastInv, RescueInv, MirrorImageInv
  <2>2. CASE \E r \in Rooms : Walk(c, r) \/ Vanish(c, r) \/ Enter(c, r)
    BY <2>2, PlainInv
  <2>3. CASE \E r \in Rooms : Flee(c, r) \/ Leave(c, r)
    BY <2>3, CallInv
  <2>4. CASE SpellSleep(c) \/ Heal(c) \/ \E p \in Positions : Settle(c, p)
    BY <2>4, PlainInv
  <2>5. CASE \E v, g \in Chars : Betray(c, v, g)
    BY <2>5, BetrayInv
  <2>6. CASE Waste(c) \/ SmokeScreen(c) \/ Quit(c) \/ Purge(c)
    BY <2>6, CallInv
  <2> QED
    BY <1>2, <2>1, <2>2, <2>3, <2>4, <2>5, <2>6 DEF Command
<1>3. ASSUME NEW S \in SUBSET Chars, Calm(S)
      PROVE  Inv'
  BY <1>3, CalmInv
<1>4. CASE UNCHANGED vars
  <2>1. UNCHANGED <<room, fighting, pos, down>> /\ UNCHANGED walk /\ hit' = hit
    BY <1>4 DEF vars, walk
  <2>2. Sound(now)'
    BY <2>1, SameSound DEF Inv
  <2> QED
    BY <2>1, <2>2, CommandInv DEF Inv
<1> QED
  BY <1>1, <1>2, <1>3, <1>4 DEF Next

THEOREM Invariance == Spec => []Inv
BY InitInv, NextInv, PTL DEF Spec

-----------------------------------------------------------------------------
\* Every variable keeps its type; only players lie without hit points.
THEOREM TypeCorrect == Spec => []TypeOK
<1>1. Inv => TypeOK
  BY NowIs DEF Inv, Sound, World, WalkOK, HitOK, TypeOK
<1> QED
  BY <1>1, Invariance, PTL

\* Nobody fights, and nobody is fought, that has been freed (extract_char),
\* whoever dies, flees or is taken away in the middle of a round.
THEOREM NobodyFightsTheFreed == Spec => []FightersInWorld
<1>1. Inv => FightersInWorld
  BY NowIs DEF Inv, Sound, FightersInWorld
<1> QED
  BY <1>1, Invariance, PTL

\* Whoever is held in the position of fighting has an opponent.
THEOREM HeldOnlyInFights == Spec => []PositionTrue
<1>1. Inv => PositionTrue
  BY NowIs DEF Inv, Sound, PositionTrue
<1> QED
  BY <1>1, Invariance, PTL

-----------------------------------------------------------------------------
\* Whom a blow turns against whom.

Turns(s, t) ==
  \A f \in Chars : s.fighting[f] # None /\ t.fighting[f] \notin {None, s.fighting[f]}
                   => s.fighting[t.fighting[f]] = f

\* From s to t the others let go of v, or turn to one that fights them.
Released(s, t, v) ==
  \A f \in Chars :
    \/ t.fighting[f] \in {None, s.fighting[f]}
    \/ /\ f # v /\ s.fighting[f] = v
       /\ t.fighting[f] \in Chars \ {v}
       /\ s.fighting[t.fighting[f]] = f

\* From s to t nothing but c and v taking each other on.
Paired(s, t, c, v) ==
  \A f \in Chars :
    \/ t.fighting[f] = s.fighting[f]
    \/ s.fighting[f] = None /\ f = c /\ t.fighting[f] = v
    \/ s.fighting[f] = None /\ f = v /\ t.fighting[f] = c

LEMMA PairedReleased ==
  ASSUME NEW s, NEW u, NEW t, NEW c \in Chars, NEW v \in Chars, NEW x \in {c, v},
         Paired(s, u, c, v), Released(u, t, x)
  PROVE  Turns(s, t)
BY DEF Paired, Released, Turns

LEMMA StopReleases ==
  ASSUME NEW s, Sound(s), NEW v \in Chars, NEW x \in Chars
  PROVE  Released(s, Stop(s, v), x)
<1>1. s \in World /\ s.fighting \in [Chars -> Chars \cup {None}]
  BY DEF Sound, World
<1>2. Stop(s, v).fighting = [s.fighting EXCEPT ![v] = None]
  BY <1>1, StopForm
<1> QED
  BY <1>1, <1>2 DEF Released

LEMMA StopAllReleases ==
  ASSUME NEW s, Sound(s), NEW v \in Chars, NEW t \in StopAll(s, v)
  PROVE  Released(s, t, v)
<1> DEFINE u == Stop(s, v)
           Onto(f) == {o \in Chars \ {v} : u.fighting[o] = f}
<1>1. PICK h : /\ t = Turned(u, v, h)
               /\ \A f \in Chars : u.fighting[f] = v =>
                    IF Onto(f) = {} THEN h[f] = None ELSE h[f] \in Onto(f)
  BY DEF StopAll
<1>2. s \in World /\ s.fighting \in [Chars -> Chars \cup {None}]
  BY DEF Sound, World
<1>3. u.fighting = [s.fighting EXCEPT ![v] = None]
  BY <1>2, StopForm
<1>4. v # None
  BY FightAssumption
<1>5. u \in World
  BY <1>2, StopForm
<1> HIDE DEF u
<1>6. \A f \in Chars : u.fighting[f] = IF f = v THEN None ELSE s.fighting[f]
  BY <1>2, <1>3
<1>7. /\ t \in World /\ t.room = u.room /\ t.down = u.down
      /\ \A f \in Chars :
           /\ t.fighting[f] = IF u.fighting[f] = v THEN h[f] ELSE u.fighting[f]
           /\ t.pos[f] = IF u.fighting[f] = v /\ h[f] = None THEN AtEase(u, f) ELSE u.pos[f]
  BY <1>1, <1>5, TurnedForm
<1>8. \A f \in Chars : u.fighting[f] = v /\ h[f] # None =>
        h[f] \in Chars \ {v} /\ u.fighting[h[f]] = f
  BY <1>1
<1> QED
  BY <1>4, <1>6, <1>7, <1>8 DEF Released

LEMMA ExtractReleases ==
  ASSUME NEW s, Sound(s), NEW v \in Chars, NEW t \in Extract(s, v)
  PROVE  Released(s, t, v)
<1>1. PICK u \in StopAll(s, v) :
        t = [u EXCEPT !.room[v] = Nowhere, !.pos[v] = default_pos[v], !.down = u.down \ {v}]
  BY DEF Extract
<1>2. u \in World
  BY StopAllSound DEF Sound
<1>3. t.fighting = u.fighting
  BY <1>1, <1>2 DEF World
<1> QED
  BY <1>3, StopAllReleases DEF Released

LEMMA KilledReleases ==
  ASSUME NEW s, Sound(s), NEW v \in Chars, NEW t \in Killed(s, v)
  PROVE  Released(s, t, v)
<1>1. CASE v \in Mobiles
  BY <1>1, ExtractReleases DEF Killed
<1>2. CASE v \notin Mobiles
  <2>1. PICK u \in StopAll(s, v) :
          t \in {Woken(u, v, s.room[v], "standing"),
                 Woken(u, v, Hall, "resting"), Woken(u, v, Hall, "sleeping")}
    BY <1>2 DEF Killed
  <2>2. u \in World
    BY StopAllSound DEF Sound
  <2>3. \A r, p : Woken(u, v, r, p).fighting = u.fighting
    BY <2>2 DEF Woken, World
  <2>4. t.fighting = u.fighting
    BY <2>1, <2>3
  <2> QED
    BY <2>4, StopAllReleases DEF Released
<1> QED
  BY <1>1, <1>2

LEMMA HurtForm ==
  ASSUME NEW s, Sound(s), NEW v \in Chars
  PROVE  \/ Hurt(s, v).fighting = s.fighting
         \/ Hurt(s, v).fighting = [s.fighting EXCEPT ![v] = None]
<1> DEFINE t == IF v \in s.down THEN [s EXCEPT !.pos[v] = "stunned"] ELSE s
<1>1. s \in World
  BY DEF Sound
<1>2. t \in World /\ t.fighting = s.fighting
  BY <1>1 DEF World, Positions
<1>3. Hurt(s, v) = IF Awake(t, v) THEN t ELSE Stop(t, v)
  BY DEF Hurt
<1> HIDE DEF t
<1> QED
  BY <1>2, <1>3, StopForm

\* Letting go first changes nothing of it.
LEMMA LetGoReleases ==
  ASSUME NEW s, Sound(s), NEW u, NEW t, NEW v \in Chars,
         u.fighting = s.fighting \/ u.fighting = [s.fighting EXCEPT ![v] = None],
         Released(u, t, v)
  PROVE  Released(s, t, v)
<1>1. s.fighting \in [Chars -> Chars \cup {None}] /\ v # None
  BY FightAssumption DEF Sound, World
<1>2. \A f \in Chars \ {v} : u.fighting[f] = s.fighting[f]
  BY <1>1
<1>3. u.fighting[v] \in {None, s.fighting[v]}
  BY <1>1
<1> QED
  BY <1>2, <1>3 DEF Released

LEMMA EndsReleases ==
  ASSUME NEW s, Sound(s), NEW v \in Chars, NEW t \in Ends(s, v)
  PROVE  Released(s, t, v)
<1> DEFINE fallen == [s EXCEPT !.pos[v] = "stunned", !.down = s.down \cup {v}]
<1>1. ASSUME NEW u, u.fighting = s.fighting
      PROVE  Released(s, u, v)
  BY <1>1 DEF Released
<1>2. CASE t = s
  BY <1>1, <1>2
<1>3. CASE t = Hurt(s, v)
  <2>1. Released(Hurt(s, v), t, v)
    BY <1>3 DEF Released
  <2> QED
    BY <2>1, HurtForm, LetGoReleases
<1>4. CASE t \in Killed(s, v)
  BY <1>4, KilledReleases
<1>5. CASE v \in Players /\ t \in {Stop(fallen, v)} \cup StopAll(fallen, v)
  <2>1. s \in World
    BY DEF Sound
  <2>2. fallen.fighting = s.fighting
    BY <2>1 DEF World
  <2>3. s.down \cup {v} \in SUBSET Players /\ "stunned" \in Positions \ {"fighting"}
    BY <1>5, <2>1 DEF World, Positions
  <2>4. Sound(fallen)
    BY <2>3, LieSound
  <2> HIDE DEF fallen
  <2>5. Released(fallen, t, v)
    BY <1>5, <2>4, StopReleases, StopAllReleases
  <2> QED
    BY <2>2, <2>5, LetGoReleases
<1> QED
  BY <1>2, <1>3, <1>4, <1>5 DEF Ends

LEMMA FlooredForm ==
  ASSUME NEW s, Sound(s), NEW v \in Chars
  PROVE  Floored(s, v).fighting = s.fighting
BY DEF Floored, Sound, World

LEMMA HarmedReleases ==
  ASSUME NEW s, Sound(s), NEW v \in Chars, NEW t \in Harmed(s, v)
  PROVE  Released(s, t, v)
<1> DEFINE Fled == UNION {Gone(Hurt(s, v), v, r) :
               r \in {r \in Rooms \ {s.room[v]} :
                        v \in Players \/ Hurt(s, v).fighting[v] # None}}
           ends == Ends(s, v) \cup Fled
<1>1. \A u \in Fled : Sound(u) /\ Released(s, u, v)
  <2> TAKE u \in Fled
  <2>1. PICK r \in Rooms : u \in Gone(Hurt(s, v), v, r)
    OBVIOUS
  <2>2. Sound(Hurt(s, v)) /\ Sound(u)
    BY <2>1, HurtSound, GoneSound
  <2>3. Released(Hurt(s, v), u, v)
    <3>1. CASE Hurt(s, v).fighting[v] = None
      <4>1. u = [Hurt(s, v) EXCEPT !.room[v] = r]
        BY <2>1, <3>1 DEF Gone
      <4>2. u.fighting = Hurt(s, v).fighting
        BY <2>2, <4>1 DEF Sound, World
      <4> QED
        BY <4>2 DEF Released
    <3>2. CASE Hurt(s, v).fighting[v] # None
      <4>1. PICK w \in StopAll(Hurt(s, v), v) : u = [w EXCEPT !.room[v] = r]
        BY <2>1, <3>2 DEF Gone
      <4>2. Sound(w) /\ Released(Hurt(s, v), w, v)
        BY <2>2, <4>1, StopAllSound, StopAllReleases
      <4>3. u.fighting = w.fighting
        BY <4>1, <4>2 DEF Sound, World
      <4> QED
        BY <4>2, <4>3 DEF Released
    <3> QED
      BY <3>1, <3>2
  <2> QED
    BY <2>2, <2>3, HurtForm, LetGoReleases
<1>2. \A u \in Ends(s, v) : Sound(u) /\ Released(s, u, v)
  BY EndsSound, EndsReleases
<1>3. t \in ends \cup {Floored(u, v) : u \in ends}
  BY DEF Harmed
<1> HIDE DEF Fled
<1>4. CASE t \in ends
  BY <1>1, <1>2, <1>4
<1>5. CASE t \in {Floored(u, v) : u \in ends}
  <2>1. PICK u \in ends : t = Floored(u, v)
    BY <1>5
  <2>2. Released(s, u, v) /\ t.fighting = u.fighting
    BY <1>1, <1>2, <2>1, FlooredForm
  <2> QED
    BY <2>2 DEF Released
<1> QED
  BY <1>3, <1>4, <1>5

LEMMA EngagedPairs ==
  ASSUME NEW s, Sound(s), NEW c \in InWorld(s), NEW v \in InWorld(s), NEW t \in Engaged(s, c, v)
  PROVE  Paired(s, t, c, v)
<1> DEFINE attacker == IF s.fighting[c] = None THEN Face(s, c, v) ELSE s
           Ready(u) == [u EXCEPT !.pos[v] = "fighting"]
<1>1. c \in Chars /\ v \in Chars
  BY DEF InWorld
<1>2. Sound(attacker) /\ s \in World
  BY FaceSound DEF Sound
<1>3. ASSUME NEW u, Sound(u), NEW a \in Chars, NEW b \in Chars
      PROVE  /\ \A f \in Chars : Face(u, a, b).fighting[f] = IF f = a THEN b ELSE u.fighting[f]
             /\ \A f \in Chars : Stop(u, a).fighting[f] = IF f = a THEN None ELSE u.fighting[f]
  <2>1. u \in World /\ u.fighting \in [Chars -> Chars \cup {None}]
    BY <1>3 DEF Sound, World
  <2>2. /\ Face(u, a, b).fighting = [u.fighting EXCEPT ![a] = b]
        /\ Stop(u, a).fighting = [u.fighting EXCEPT ![a] = None]
    BY <2>1, StopForm DEF Face, World
  <2> QED
    BY <2>1, <2>2
<1>4. \A u \in World : Ready(u).fighting = u.fighting
  BY DEF World
<1>5. \A f \in Chars : attacker.fighting[f] = IF f = c /\ s.fighting[c] = None
                                              THEN v ELSE s.fighting[f]
  BY <1>1, <1>3
<1>6. \/ t = s \/ t = attacker
      \/ t = IF attacker.fighting[v] = None THEN Face(attacker, v, c) ELSE Ready(attacker)
      \/ t = IF s.fighting[v] = None THEN Stop(s, v) ELSE Ready(s)
  BY DEF Engaged
<1>7. attacker \in World
  BY <1>2 DEF Sound
<1> HIDE DEF attacker, Ready
<1>8. CASE t \in {s, attacker}
  BY <1>1, <1>5, <1>8 DEF Paired
<1>9. CASE t = IF attacker.fighting[v] = None THEN Face(attacker, v, c) ELSE Ready(attacker)
  <2>1. CASE attacker.fighting[v] = None
    <3>1. \A f \in Chars : t.fighting[f] = IF f = v THEN c ELSE attacker.fighting[f]
      BY <1>1, <1>2, <1>3, <1>9, <2>1
    <3> QED
      BY <1>1, <1>5, <2>1, <3>1, FightAssumption DEF Paired
  <2>2. CASE attacker.fighting[v] # None
    BY <1>1, <1>4, <1>5, <1>7, <1>9, <2>2 DEF Paired
  <2> QED
    BY <2>1, <2>2
<1>10. CASE t = IF s.fighting[v] = None THEN Stop(s, v) ELSE Ready(s)
  <2>1. CASE s.fighting[v] = None
    <3>1. \A f \in Chars : t.fighting[f] = IF f = v THEN None ELSE s.fighting[f]
      BY <1>1, <1>3, <1>10, <2>1
    <3> QED
      BY <2>1, <3>1 DEF Paired
  <2>2. CASE s.fighting[v] # None
    BY <1>2, <1>4, <1>10, <2>2 DEF Paired
  <2> QED
    BY <2>1, <2>2
<1> QED
  BY <1>6, <1>8, <1>9, <1>10

LEMMA RefusedReleases ==
  ASSUME NEW s, Sound(s), NEW c \in Chars, NEW v \in Chars, NEW t \in Refused(s, c, v)
  PROVE  Released(s, t, v)
<1>1. CASE t = s
  BY <1>1 DEF Released
<1>2. CASE t = Stop(s, c)
  BY <1>2, StopReleases
<1> QED
  BY <1>1, <1>2 DEF Refused

\* Struck by c, v is let go of, once the two have taken each other on.
LEMMA StruckSteps ==
  ASSUME NEW s, Sound(s), NEW c \in InWorld(s), NEW v \in InWorld(s), NEW t \in Struck(s, c, v)
  PROVE  \E u : Paired(s, u, c, v) /\ Released(u, t, v)
<1>1. c \in Chars /\ v \in Chars
  BY DEF InWorld
<1>2. CASE t \in Refused(s, c, v)
  <2>1. Paired(s, s, c, v)
    BY DEF Paired
  <2> QED
    BY <1>1, <1>2, <2>1, RefusedReleases
<1>3. CASE t \in UNION {Harmed(u, v) : u \in Engaged(s, c, v)}
  <2>1. PICK u \in Engaged(s, c, v) : t \in Harmed(u, v)
    BY <1>3
  <2>2. Sound(u) /\ Paired(s, u, c, v)
    BY EngagedSound, EngagedPairs
  <2>3. Released(u, t, v)
    BY <1>1, <2>1, <2>2, HarmedReleases
  <2> QED
    BY <2>2, <2>3
<1> QED
  BY <1>2, <1>3 DEF Struck

LEMMA PairedTwice ==
  ASSUME NEW s, NEW u, NEW w, NEW c \in Chars, NEW v \in Chars,
         Paired(s, u, c, v), Paired(u, w, v, c)
  PROVE  Paired(s, w, c, v)
BY FightAssumption DEF Paired

LEMMA DamageTurns ==
  ASSUME NEW s, Sound(s), NEW c \in Chars, NEW v \in Chars, NEW t \in Damage(s, c, v)
  PROVE  Turns(s, t)
<1>1. CASE {c, v} \subseteq InWorld(s) /\ t \in Struck(s, c, v)
  <2>1. PICK u : Paired(s, u, c, v) /\ Released(u, t, v)
    BY <1>1, StruckSteps
  <2> QED
    BY <2>1, PairedReleased
<1>2. CASE {c, v} \subseteq InWorld(s) /\ t \in Evaded(s, c, v)
  <2>1. PICK u \in Engaged(s, c, v) : t \in Struck(u, v, c)
    BY <1>2 DEF Evaded
  <2>2. Sound(u) /\ u.room = s.room /\ Paired(s, u, c, v)
    BY <1>2, EngagedSound, EngagedPairs
  <2>3. c \in InWorld(u) /\ v \in InWorld(u)
    BY <1>2, <2>2 DEF InWorld
  <2>4. PICK w : Paired(u, w, v, c) /\ Released(w, t, c)
    BY <2>1, <2>2, <2>3, StruckSteps
  <2>5. Paired(s, w, c, v)
    BY <2>2, <2>4, PairedTwice
  <2> QED
    BY <2>4, <2>5, PairedReleased
<1>3. CASE t = s
  BY <1>3 DEF Turns
<1> QED
  BY <1>1, <1>2, <1>3 DEF Damage

LEMMA ReleasedTurns ==
  ASSUME NEW s, NEW t, NEW v, Released(s, t, v)
  PROVE  Turns(s, t)
BY DEF Released, Turns

LEMMA OneHitTurns ==
  ASSUME NEW s, Sound(s), NEW c \in Chars, NEW v \in Chars, NEW t \in OneHit(s, c, v)
  PROVE  Turns(s, t)
<1>1. CASE t = s
  BY <1>1 DEF Turns
<1>2. CASE t \in Damage(s, c, v)
  BY <1>2, DamageTurns
<1> QED
  BY <1>1, <1>2 DEF OneHit

BlowsTurn ==
  hit.stage # "none" =>
    \A c \in Chars : fighting[c] # None /\ fighting'[c] \notin {None, fighting[c]}
                     => fighting[fighting'[c]] = c

LEMMA BecomesTurns ==
  ASSUME NEW s, Becomes(s), Turns(now, s)
  PROVE  BlowsTurn
BY NowIs DEF Becomes, Turns, BlowsTurn

LEMMA NextTurns == Inv /\ [Next]_vars => BlowsTurn
<1> SUFFICES ASSUME Inv, Next, hit.stage # "none" PROVE BlowsTurn
  BY DEF vars, BlowsTurn
<1>1. hit # NoHit /\ hit.by \in Chars /\ hit.at \in Chars /\ Sound(now)
  BY DEF Inv, HitOK, NoHit
<1>2. ~Idle /\ ~InTurn
  BY <1>1 DEF Idle, InTurn
<1>3. CASE Blow
  <2>1. PICK s \in OneHit(now, hit.by, hit.at) : Becomes(s)
    BY <1>3 DEF Blow
  <2> QED
    BY <1>1, <2>1, OneHitTurns, BecomesTurns
<1>4. ASSUME NEW w \in Chars, AreaBlow(w)
      PROVE  BlowsTurn
  <2>1. PICK s \in OneHit(now, hit.by, w) : Becomes(s)
    BY <1>4 DEF AreaBlow
  <2> QED
    BY <1>1, <2>1, OneHitTurns, BecomesTurns
<1>5. CASE Extra
  <2>1. PICK s \in Damage(now, hit.by, hit.at) \cup Ends(now, hit.by) \cup {Floored(now, hit.by)} :
          Becomes(s)
    BY <1>5 DEF Extra
  <2>2. CASE s \in Damage(now, hit.by, hit.at)
    BY <1>1, <2>1, <2>2, DamageTurns, BecomesTurns
  <2>3. CASE s \in Ends(now, hit.by)
    BY <1>1, <2>1, <2>3, EndsReleases, ReleasedTurns, BecomesTurns
  <2>4. CASE s = Floored(now, hit.by)
    <3>1. s.fighting = now.fighting
      BY <1>1, <2>4, FlooredForm
    <3> QED
      BY <2>1, <3>1, BecomesTurns DEF Turns
  <2> QED
    BY <2>1, <2>2, <2>3, <2>4
<1>6. CASE EndHit
  BY <1>6 DEF EndHit, BlowsTurn
<1>7. ~BeginRound /\ ~Rally /\ ~EndTurn
  BY <1>2 DEF BeginRound, Rally, EndTurn, Between
<1>8. \A c, t \in Chars : ~Take(c) /\ ~Assist(c, t)
  BY <1>2 DEF Take, Assist
<1>9. CASE Round
  BY <1>3, <1>4, <1>5, <1>6, <1>7, <1>8, <1>9 DEF Round
<1>10. ~Between /\ (\A c, least : ~Can(c, least)) /\ \A S : ~Calm(S)
  BY <1>2 DEF Calm, Between, Can
<1>11. \A c, v : ~Kill(c, v) /\ ~Cast(c, v)
  BY <1>10 DEF Kill, Cast
<1>12. \A c, v, g : ~Rescue(c, v) /\ ~MirrorImage(c, v) /\ ~Betray(c, v, g)
  BY <1>10 DEF Rescue, MirrorImage, Betray
<1>13. \A c, r : ~Walk(c, r) /\ ~Flee(c, r) /\ ~Leave(c, r) /\ ~Vanish(c, r) /\ ~Enter(c, r)
                 /\ ~Settle(c, r)
  BY <1>10 DEF Walk, Flee, Leave, Vanish, Enter, Settle
<1>14. \A c : ~Waste(c) /\ ~SpellSleep(c) /\ ~Heal(c) /\ ~SmokeScreen(c) /\ ~Quit(c) /\ ~Purge(c)
  BY <1>10 DEF Waste, SpellSleep, Heal, SmokeScreen, Quit, Purge
<1>15. \A c : ~Command(c)
  BY <1>11, <1>12, <1>13, <1>14 DEF Command
<1> QED
  BY <1>9, <1>10, <1>15 DEF Next

\* While blows fall, whoever goes on with another opponent goes on with one
\* that already fights it: nobody is drawn into a fight with a bystander.
THEOREM NobodyTurnsOnBystanders == Spec => TurnsOnAttackers
<1>1. Inv /\ [Next]_vars => BlowsTurn
  BY NextTurns
<1> QED
  BY <1>1, Invariance, PTL DEF Spec, TurnsOnAttackers, BlowsTurn
=============================================================================
