-------------------------------- MODULE Arena --------------------------------
(***************************************************************************)
(* The singles events of the gladiator arena: players join during a first  *)
(* countdown, spectators bet during a second one, and the combat goes on   *)
(* until one gladiator is left.                                            *)
(*                                                                         *)
(* Two things say who takes part: the MHS_GLADIATOR bit of each character, *)
(* and the number gladiator_info.playing.  The loops of gladiator.c walk   *)
(* over the descriptors, and so miss the characters that are link-dead.    *)
(*                                                                         *)
(* Of the money only the stakes on record are kept; what a character can   *)
(* afford, odds, prizes, scores and clans are left out, and so are team    *)
(* events and restarts of the game.                                        *)
(***************************************************************************)
EXTENDS Integers, FiniteSets

CONSTANTS
  Persons,     \* player characters
  JoinTicks,   \* ticks to join, given to startgladiator
  BetTicks,    \* ticks of betting (5 in the code)
  IdleTicks,   \* ticks a gladiator may stay inactive (5 in the code)
  Amounts,     \* amounts that can be bet
  MaxPlaying,  \* bound on gladiator_info.playing
  Nobody

ASSUME ArenaAssumption ==
  /\ Nobody \notin Persons
  /\ IsFiniteSet(Persons)
  /\ JoinTicks \in Nat \ {0} /\ BetTicks \in Nat \ {0} /\ IdleTicks \in Nat \ {0}
  /\ Amounts \subseteq Nat
  /\ MaxPlaying \in Nat

VARIABLES
  link,        \* whether a person is out of the game, here, or link-dead
  glad,        \* its MHS_GLADIATOR bit, and the room it waits or fights in
  timer,       \* pcdata->gladiator_attack_timer, 0 for one that has run out
  stake,       \* pcdata->glad_bet_amt
  on,          \* pcdata->glad_bet_on
  started,     \* gladiator_info.started; gladiator_info.type is 1 just then
  timeLeft,    \* gladiator_info.time_left
  betCounter,  \* gladiator_info.bet_counter
  playing,     \* gladiator_info.playing
  rivals,      \* history: who else could still fight when a winner was declared
  astray       \* history: a gladiator was left over at the start, or was purged

event == <<started, timeLeft, betCounter>>
bets == <<stake, on>>
history == <<rivals, astray>>
arenaVars == <<link, glad, timer, bets, event, playing, history>>

Here == {p \in Persons : link[p] = "here"}
InWorld == {p \in Persons : link[p] # "out"}
Gladiators == {p \in Persons : glad[p] # "no"}

ArenaTypeOK ==
  /\ link \in [Persons -> {"out", "here", "linkdead"}]
  /\ glad \in [Persons -> {"no", "staging", "arena"}]
  /\ timer \in [Persons -> 0 .. IdleTicks]
  /\ stake \in [Persons -> Amounts \cup {0}]
  /\ on \in [Persons -> Persons \cup {Nobody}]
  /\ started \in BOOLEAN
  /\ timeLeft \in 0 .. JoinTicks
  /\ betCounter \in 0 .. BetTicks
  /\ playing \in Int
  /\ rivals \subseteq Persons
  /\ astray \in BOOLEAN

ArenaInit ==
  /\ link = [p \in Persons |-> "out"]
  /\ glad = [p \in Persons |-> "no"]
  /\ timer = [p \in Persons |-> 0]
  /\ stake = [p \in Persons |-> 0]
  /\ on = [p \in Persons |-> Nobody]
  /\ started = FALSE
  /\ timeLeft = 0
  /\ betCounter = 0
  /\ playing = 0
  /\ rivals = {}
  /\ astray = FALSE

-----------------------------------------------------------------------------
(***************************************************************************)
(* Building blocks.                                                        *)
(***************************************************************************)
Over == started' = FALSE /\ timeLeft' = 0 /\ betCounter' = 0

\* The bit taken from the persons in R.
Without(R) == [p \in Persons |-> IF p \in R THEN "no" ELSE glad[p]]

\* The gladiators R leave the event; after them, when last says so, the first
\* gladiator found among the descriptors has won, and gladiator_winner ends
\* the event for all that are connected.
Out(R, last) ==
  LET G == (Gladiators \cap Here) \ R
  IN  /\ \/ /\ last
            /\ \E w \in G : rivals' = rivals \cup (G \ {w})
            /\ glad' = Without(R \cup Here)
            /\ Over
         \/ /\ ~last \/ G = {}
            /\ glad' = Without(R)
            /\ UNCHANGED <<event, rivals>>
      /\ UNCHANGED astray

\* Mutant: one that was not in the arena yet is not counted.
OneOutOfArena(p) ==
  LET last == started /\ playing = 2 /\ timeLeft = 0
  IN  /\ Out({p}, last)
      /\ playing' = IF last /\ started' = FALSE THEN -1
                    ELSE IF glad[p] = "arena" THEN playing - 1 ELSE playing

\* One gladiator leaves otherwise than by a kill: the one that remains when
\* two were playing wins, if time has run out.
OneOut(p) ==
  LET last == started /\ playing = 2 /\ timeLeft = 0
  IN  /\ Out({p}, last)
      /\ playing' = IF last /\ started' = FALSE THEN -1 ELSE playing - 1

\* begin_gladiator: into the arena with everyone that is connected.
Begin ==
  /\ glad' = [p \in Persons |-> IF p \in Gladiators \cap Here THEN "arena" ELSE glad[p]]
  /\ timer' = [p \in Persons |-> IF p \in Gladiators \cap Here THEN IdleTicks ELSE timer[p]]

-----------------------------------------------------------------------------
(***************************************************************************)
(* Commands of the immortals.                                              *)
(***************************************************************************)

\* do_startgladiator forgets the bits and bets of those connected.
Start ==
  /\ ~started
  /\ started' = TRUE
  /\ timeLeft' = JoinTicks
  /\ betCounter' = BetTicks
  /\ playing' = 0
  /\ glad' = Without(Here)
  /\ stake' = [p \in Persons |-> IF p \in Here THEN 0 ELSE stake[p]]
  /\ astray' = ~(Gladiators \subseteq Here)
  /\ UNCHANGED <<link, timer, on, rivals>>

\* do_removegladiator
RemoveGladiator(p) ==
  /\ p \in InWorld \cap Gladiators
  /\ OneOut(p)
  /\ UNCHANGED <<link, timer, bets>>

\* do_endgladiator with a name: gladiator_winner for anyone in the game; with
\* no event on, its type is 0 and no bet is settled.
EndVictor ==
  /\ InWorld # {}
  /\ Over
  /\ playing' = 0
  /\ glad' = Without(Here)
  /\ UNCHANGED <<link, timer, bets, history>>

\* do_endgladiator none: stakes are paid back, and stay on record.
EndNone ==
  /\ Over
  /\ playing' = 0
  /\ glad' = Without(Here)
  /\ on' = [p \in Persons |-> IF p \in Here THEN p ELSE on[p]]
  /\ UNCHANGED <<link, timer, stake, history>>

\* do_skipbet
SkipBet ==
  /\ timeLeft = 0
  /\ betCounter' = 0
  /\ Begin
  /\ UNCHANGED <<link, bets, started, timeLeft, playing, history>>

(***************************************************************************)
(* Commands of the players.                                                *)
(***************************************************************************)

\* Mutant: do_gladiator does not look at the bet.
JoinAnyBet(p) ==
  /\ p \in Here \ Gladiators
  /\ started /\ timeLeft > 0
  /\ playing < MaxPlaying
  /\ glad' = [glad EXCEPT ![p] = "staging"]
  /\ playing' = playing + 1
  /\ UNCHANGED <<link, timer, bets, event, history>>

\* do_gladiator
Join(p) ==
  /\ p \in Here \ Gladiators
  /\ started /\ timeLeft > 0
  /\ stake[p] = 0 \/ on[p] = p
  /\ playing < MaxPlaying
  /\ glad' = [glad EXCEPT ![p] = "staging"]
  /\ playing' = playing + 1
  /\ UNCHANGED <<link, timer, bets, event, history>>

\* do_gbet; a gladiator may bet on itself only.
Bet(p, v, n) ==
  /\ p \in Here
  /\ v \in Gladiators \cap InWorld
  /\ started /\ betCounter > 0
  /\ stake[p] = 0
  /\ v = p \/ p \notin Gladiators
  /\ stake' = [stake EXCEPT ![p] = n]
  /\ on' = [on EXCEPT ![p] = v]
  /\ UNCHANGED <<link, glad, timer, event, playing, history>>

\* do_gbet clear, up to the start of the combat.
ClearBet(p) ==
  /\ p \in Here
  /\ started /\ betCounter > 0
  /\ on[p] # Nobody
  /\ stake' = [stake EXCEPT ![p] = 0]
  /\ on' = [on EXCEPT ![p] = p]
  /\ UNCHANGED <<link, glad, timer, event, playing, history>>

\* An attack of a gladiator sets its timer back.
Attack(p) ==
  /\ p \in InWorld
  /\ glad[p] = "arena"
  /\ timer[p] # IdleTicks
  /\ timer' = [timer EXCEPT ![p] = IdleTicks]
  /\ UNCHANGED <<link, glad, bets, event, playing, history>>

\* gladiator_kill of v by k (k = v for one that kills itself); the staging
\* room is safe.
Kill(v, k) ==
  /\ {v, k} \subseteq InWorld
  /\ glad[v] = "arena" /\ glad[k] = "arena"
  /\ started
  /\ Out({v}, playing = 2)
  /\ playing' = IF started' THEN playing - 1 ELSE 0
  /\ UNCHANGED <<link, timer, bets>>

-----------------------------------------------------------------------------
(***************************************************************************)
(* gladiator_update, once a tick.                                          *)
(***************************************************************************)

\* Mutants: the countdowns without their ends, and without their steps.
TimeBelow == timeLeft - 1
BetStays == betCounter

\* What a tick leaves of the two countdowns.
TimeLeft == IF timeLeft > 0 THEN timeLeft - 1 ELSE 0
BetLeft == betCounter - 1

\* gladiator_start_countdown: with the join ticks over, the event is called
\* off (end_gladiator, which leaves the bets alone), or a tick of betting
\* passes, or the battle begins.
Countdown ==
  /\ started /\ betCounter > 0
  /\ timeLeft' = TimeLeft
  /\ \/ /\ timeLeft > 1
        /\ UNCHANGED <<started, betCounter, playing, glad, timer>>
     \/ /\ timeLeft <= 1 /\ playing < 2
        /\ started' = FALSE /\ betCounter' = 0 /\ playing' = 0
        /\ glad' = Without(Here)
        /\ UNCHANGED timer
     \/ /\ timeLeft <= 1 /\ playing >= 2
        /\ betCounter' = BetLeft
        /\ IF betCounter' = 0 THEN Begin ELSE UNCHANGED <<glad, timer>>
        /\ UNCHANGED <<started, playing>>
  /\ UNCHANGED <<link, bets, history>>

\* The gladiators whose timer runs out in this tick.
Expiring == {p \in Gladiators \cap Here : timer[p] = 1}

\* single_update: the gladiators E are removed, in the order of the
\* descriptors; the ones that are blind, asleep or have just fought are
\* excused.  When all but one of those playing have been removed, the rest of
\* E is saved by gladiator_winner (their timers no longer matter).
SingleUpdate ==
  /\ started /\ betCounter = 0
  /\ \E E \in SUBSET Expiring :
       LET last == timeLeft = 0 /\ playing >= 2 /\ Cardinality(E) >= playing - 1
       IN  /\ \E F \in SUBSET E :
                /\ IF last THEN Cardinality(F) = playing - 1 ELSE F = E
                /\ Out(F, last)
                /\ playing' = IF started' THEN playing - Cardinality(F) ELSE -1
           /\ timer' = [p \in Persons |->
                          IF p \in Expiring \ E THEN IdleTicks
                          ELSE IF p \in Gladiators \cap Here /\ timer[p] > 0
                          THEN timer[p] - 1 ELSE timer[p]]
  /\ UNCHANGED <<link, bets>>

(***************************************************************************)
(* Players come and go.                                                    *)
(***************************************************************************)

\* A new character in play has no bit (do_quit clears it before it saves).
Login(p) ==
  /\ link[p] = "out"
  /\ link' = [link EXCEPT ![p] = "here"]
  /\ UNCHANGED <<glad, timer, bets, event, playing, history>>

\* close_socket of a playing descriptor, and check_reconnect.
HangUp(p) ==
  /\ link[p] = "here"
  /\ link' = [link EXCEPT ![p] = "linkdead"]
  /\ UNCHANGED <<glad, timer, bets, event, playing, history>>

Reconnect(p) ==
  /\ link[p] = "linkdead"
  /\ link' = [link EXCEPT ![p] = "here"]
  /\ UNCHANGED <<glad, timer, bets, event, playing, history>>

\* char_update: a gladiator that was idle too long drifts into the void.
Void(p) ==
  /\ p \in InWorld \cap Gladiators
  /\ OneOut(p)
  /\ UNCHANGED <<link, timer, bets>>

\* The bets on p that do_quit takes off the record, when p is a gladiator.
Refunded(p) == IF p \in Gladiators THEN {q \in Here : on[q] = p} ELSE {}

\* extract_char and free_char of p.
Gone(p, R) ==
  /\ link' = [link EXCEPT ![p] = "out"]
  /\ timer' = [timer EXCEPT ![p] = 0]
  /\ stake' = [q \in Persons |-> IF q \in R \cup {p} THEN 0 ELSE stake[q]]
  /\ on' = [q \in Persons |-> IF q = p THEN Nobody ELSE IF q \in R THEN q ELSE on[q]]

\* do_quit, of a link-dead character too; nothing is paid to those in
\* Refunded(p), and the bets on one who is a gladiator no more keep pointing
\* to it.
Leave(p) ==
  /\ p \in InWorld
  /\ IF p \in Gladiators THEN OneOut(p)
     ELSE UNCHANGED <<glad, event, playing, history>>
  /\ Gone(p, Refunded(p))

\* do_purge of a player, which knows nothing of the arena.
Purge(p) ==
  /\ p \in InWorld
  /\ Gone(p, {})
  /\ glad' = Without({p})
  /\ astray' = (astray \/ p \in Gladiators)
  /\ UNCHANGED <<event, playing, rivals>>

-----------------------------------------------------------------------------
Immortal == Start \/ EndVictor \/ EndNone \/ SkipBet \/ \E p \in Persons : RemoveGladiator(p)

Player(p) ==
  \/ Join(p) \/ ClearBet(p) \/ Attack(p)
  \/ \E v \in Persons, n \in Amounts : Bet(p, v, n)
  \/ \E v \in Persons : Kill(v, p)
  \/ Login(p) \/ HangUp(p) \/ Reconnect(p) \/ Void(p) \/ Leave(p) \/ Purge(p)

ArenaNext ==
  \/ Immortal
  \/ \E p \in Persons : Player(p)
  \/ Countdown \/ SingleUpdate

\* update_handler calls gladiator_update at every tick.
ArenaSpec == ArenaInit /\ [][ArenaNext]_arenaVars /\ WF_arenaVars(Countdown)

-----------------------------------------------------------------------------
(***************************************************************************)
(* Properties.                                                             *)
(***************************************************************************)

\* "If you want to bet, you have to bet on yourself": whoever has the bit, by
\* joining or left over from an earlier event, holds a stake on itself or
\* none, however bets, quits, lost links and new events are interleaved (the
\* checks of do_gladiator and do_gbet, and the clearing of the bets).
OwnBet == \A p \in Gladiators : stake[p] # 0 => on[p] = p

\* The count of an event is kept by adding and taking one, the bits are set and
\* cleared, and winners are declared by the count: the two agree however players
\* join, kill, are removed, drift into the void, slip into the pit, quit and lose
\* their links, in an event that found no gladiator left over from an earlier
\* one and of which none has been purged.  (do_gladiator, remove_gladiator,
\* gladiator_left_arena, gladiator_kill.)
CountRight == started /\ ~astray => playing = Cardinality(Gladiators)

\* In such an event nobody is declared the winner while somebody else who is
\* connected could still fight: not by a kill, a removal, leaving or idleness,
\* nor by several of them in one tick.  (The same functions, and single_update.)
WinnerIsLast == [][started /\ ~astray => rivals' = rivals]_arenaVars

\* Players come, go and bet as they like: the countdown of an event that was
\* started runs out, into the combat or the end of the event (gladiator_update).
CountdownEnds == (started /\ betCounter > 0) ~> (betCounter = 0)

(***************************************************************************)
(* What the comments and messages say and the code does not do.            *)
(***************************************************************************)

\* remove_gladiator, gladiator_left_arena: a winner is declared when "the
\* removal of this player leaves only 1 person": no one else who is connected
\* and in the combat loses it by that.
LastManStanding == rivals = {}
=============================================================================
